------------------------- MODULE SessionAgreeProofs -------------------------
(***************************************************************************)
(* The session's user, the box and the document of the account agree when  *)
(* nothing is under way, and whoever has an account can sign in, unless a  *)
(* handler overlapped another one, was cut, failed half-way, or another    *)
(* device wrote.  The invariant is about behaviours in which none of the   *)
(* device's own mishaps happened: then there is one handler at a time, and *)
(* each knows what the one before it left.                                 *)
(***************************************************************************)
EXTENDS SessionProofs

-----------------------------------------------------------------------------
(* The invariant.                                                          *)

Failed == Happened("failed", 0)

\* None of the mishaps of this device.
Clean == ~Left /\ ~Cut /\ ~Failed

\* The writes a handler waits for, but for a deletion: its button is another one.
Awaited == {"fill", "change", "edit"}

NoneAwaited == \A n \in 1 .. Len(sent) : sent[n].kind \notin Awaited

LoginReads == \E c \in calls : c.kind = "login" /\ c.at = "courses"
EditReads == \E c \in calls : c.kind = "edit" /\ c.at = "courses"
PasswordReads == \E c \in calls : c.at = "read"
EditSent == \E n \in 1 .. Len(sent) : sent[n].kind = "edit"

\* One handler at a time.
OneHandler ==
  /\ \A c, e \in calls : c = e
  /\ \A c \in calls : c.at # "threw"
  /\ \A n, m \in 1 .. Len(sent) : sent[n].kind \in Awaited /\ sent[m].kind \in Awaited => n = m
  /\ calls # {} => NoneAwaited

\* Sign-up and sign-in stay on their screen, and the other handlers in their session.
InPlace ==
  /\ \A c \in calls : c.kind \in {"signup", "login"} => c.here
  /\ \A c \in calls : c.kind \in {"change", "edit"} => InSession
  /\ \A n \in 1 .. Len(sent) :
       /\ sent[n].kind = "fill" => sent[n].here /\ sent[n].id = user.id
       /\ sent[n].kind \in {"change", "edit", "delete"} => InSession /\ sent[n].id = user.id
       /\ sent[n].kind = "orphan" => sent[n].op = "update"
       /\ sent[n].id <= ids

Control == OneHandler /\ InPlace

\* What a handler read is still so when it goes on.
Carried ==
  /\ \A n \in 1 .. Len(sent) : sent[n].kind = "edit" => sent[n].doc = Document(user)
  /\ \A c \in calls :
       /\ c.at = "courses" => c.course = user.course
       /\ c.at = "clear" => c.user.id = user.id /\ c.user.pw = user.pw
       /\ c.at = "read" => c.id = user.id

\* The box has the user of the session, and none before there is a session.
Boxed ==
  /\ InSession \/ LoginReads => Last(userBox).user = user
  /\ screen \in {"auth", "fill"} /\ ~LoginReads => Last(userBox).user = None

\* A write to the document of account i as a whole.
Updates(n, i) == sent[n].op = "update" /\ sent[n].id = i

\* Nothing is recorded after a change or an edit that is under way, and nothing was
\* before a profile is submitted.
Ordered ==
  /\ \A n, m \in 1 .. Len(sent) : sent[n].kind \in {"change", "edit"} /\ n < m => ~Updates(m, sent[n].id)
  /\ PasswordReads \/ EditReads => \A n \in 1 .. Len(sent) : ~Updates(n, user.id)
  /\ screen = "fill" => \A n \in 1 .. Len(sent) : ~Updates(n, user.id)

Shared(i) == Happened("shared", i) \/ Happened("ghost", i)
Excused(i) == Shared(i) \/ (Deleted(i) /\ Out)

\* What is recorded stores the document as it is.
Steady ==
  \A i \in Id :
    \/ Excused(i)
    \/ stored[i] = None
    \/ \A n \in 1 .. Len(sent) : Updates(n, i) /\ sent[n].kind # "edit" => sent[n].doc = stored[i]

\* The user in the box is that of the document, but for what a handler is writing.
BoxAgrees ==
  LET box == Last(userBox)
      i == box.user.id
  IN  \/ box.user = None
      \/ Excused(i)
      \/ /\ LoginReads \/ EditSent \/ EditReads \/ box.data = box.user.course
         /\ stored[i] # None
         /\ PasswordReads \/ stored[i].pw = box.user.pw
         /\ EditSent \/ stored[i].course = box.user.course

\* After a log-out, what the box still has on disk was the document's.
ImagesAgree ==
  Last(userBox).user = None =>
    \A n \in 1 .. Len(userBox) :
      LET u == userBox[n].user
      IN  \/ u = None
          \/ Shared(u.id) \/ Deleted(u.id)
          \/ userBox[n].data = u.course /\ stored[u.id] = Document(u)

Calm == Control /\ Carried /\ Boxed /\ Ordered /\ Steady /\ BoxAgrees /\ ImagesAgree

\* Whose account has been given out.
Numbered == \A i \in Id : Given(i)

LEMMA CleanStays ==
  ASSUME Next, Clean'
  PROVE  Clean
BY HistoryGrows DEF Clean, Left, Cut, Failed, Happened

LEMMA ExcusedStays ==
  ASSUME Next, NEW i
  PROVE  /\ Excused(i) => Excused(i)'
         /\ Shared(i) => Shared(i)'
         /\ Deleted(i) => Deleted(i)'
BY HistoryGrows DEF Excused, Shared, Deleted, Out, Happened

\* With no handler under way there is no call, and nothing awaited.
LEMMA Idle ==
  ASSUME IInv, OneHandler, ~Handlers
  PROVE  /\ calls = {} /\ NoneAwaited
         /\ ~LoginReads /\ ~EditReads /\ ~PasswordReads /\ ~EditSent
         /\ \A n \in 1 .. Len(sent) : sent[n].kind \in {"orphan", "record"}
<1>1. calls = {}
  BY NoHandlers DEF OneHandler
<1>2. \A n \in 1 .. Len(sent) : sent[n].kind \in {"orphan", "record"}
  BY NoHandlers
<1> QED
  BY <1>1, <1>2 DEF NoneAwaited, Awaited, LoginReads, EditReads, PasswordReads, EditSent

LEMMA Overlap ==
  ASSUME IInv, OneHandler, NoteOverlap, Clean'
  PROVE  /\ calls = {} /\ NoneAwaited
         /\ ~LoginReads /\ ~EditReads /\ ~PasswordReads /\ ~EditSent
         /\ \A n \in 1 .. Len(sent) : sent[n].kind \in {"orphan", "record"}
BY Idle, OverlapNoted DEF Clean

-----------------------------------------------------------------------------
(* One handler at a time.                                                  *)

\* The queue as it was, or without its front.
Remains ==
  \E d \in {0, 1} : \A n \in 1 .. Len(sent') :
    n + d \in 1 .. Len(sent) /\ sent'[n] = sent[n + d]

LEMMA RemainsIf ==
  ASSUME Types, sent' = sent \/ (sent # <<>> /\ sent' = Tail(sent))
  PROVE  Remains
<1>a. sent \in Seq(GoodWrite) /\ Len(sent) \in Nat
  BY DEF Types
<1>1. CASE sent' = sent
  <2>1. \A n \in 1 .. Len(sent') : n + 0 \in 1 .. Len(sent) /\ sent'[n] = sent[n + 0]
    BY <1>a, <1>1
  <2> QED
    BY <2>1 DEF Remains
<1>2. CASE sent # <<>> /\ sent' = Tail(sent)
  <2>1. \A n \in 1 .. Len(sent') : n + 1 \in 1 .. Len(sent) /\ sent'[n] = sent[n + 1]
    BY <1>a, <1>2, FrontOf
  <2> QED
    BY <2>1 DEF Remains
<1> QED
  BY <1>1, <1>2

\* What is said of each write stays so.
LEMMA RemainsEach ==
  ASSUME Remains
  PROVE  \A n \in 1 .. Len(sent') : \E m \in 1 .. Len(sent) : sent'[n] = sent[m]
BY DEF Remains

\* One awaited write there was is one there is.
LEMMA RemainsOne ==
  ASSUME Remains, OneHandler, IInv
  PROVE  \A n, m \in 1 .. Len(sent') :
           sent'[n].kind \in Awaited /\ sent'[m].kind \in Awaited => n = m
<1>1. PICK d \in {0, 1} : \A n \in 1 .. Len(sent') :
                            n + d \in 1 .. Len(sent) /\ sent'[n] = sent[n + d]
  BY DEF Remains
<1>2. ASSUME NEW n \in 1 .. Len(sent'), NEW m \in 1 .. Len(sent'),
             sent'[n].kind \in Awaited, sent'[m].kind \in Awaited
      PROVE  n = m
  <2>1. n + d = m + d
    BY <1>1, <1>2 DEF OneHandler
  <2> QED
    BY <2>1
<1> QED
  BY <1>2

\* The calls are the same, and so are those that have a session.
LEMMA ControlRemains ==
  ASSUME IInv, Control, Remains, calls' = calls, user' = user,
         InSession => InSession', ids' = ids
  PROVE  Control'
<1>1. \A n \in 1 .. Len(sent') : \E m \in 1 .. Len(sent) : sent'[n] = sent[m]
  BY RemainsEach
<1>2. OneHandler'
  BY <1>1, RemainsOne DEF Control, OneHandler, NoneAwaited
<1>3. InPlace'
  BY <1>1 DEF Control, InPlace
<1> QED
  BY <1>2, <1>3 DEF Control

\* What a call may be for the invariant.
SoundCall(c) ==
  /\ c.at # "threw"
  /\ c.kind \in {"signup", "login"} => c.here
  /\ c.kind \in {"change", "edit"} => InSession'

\* A call is made, answered, or followed by another one, and nothing is awaited.
LEMMA ControlCall ==
  ASSUME IInv, Control, Remains, ids \in Nat, ids' \in Nat, ids <= ids',
         \A n \in 1 .. Len(sent') : sent'[n].kind \notin Awaited,
         InSession => InSession' /\ user'.id = user.id,
         calls' = {} \/ \E e : calls' = {e} /\ SoundCall(e)
  PROVE  Control'
<1>1. \A n \in 1 .. Len(sent') : \E m \in 1 .. Len(sent) : sent'[n] = sent[m]
  BY RemainsEach
<1>2. OneHandler'
  BY DEF OneHandler, NoneAwaited, SoundCall
<1>3. \A n \in 1 .. Len(sent) : sent[n].id \in Nat /\ sent[n].id <= ids'
  BY Facts DEF Control, InPlace, GoodWrite, Id
<1>4. InPlace'
  BY <1>1, <1>3 DEF Control, InPlace, SoundCall, Awaited
<1> QED
  BY <1>2, <1>4 DEF Control

\* What a write may be for the invariant.
SoundWrite(w) ==
  /\ w.kind = "fill" => w.here /\ w.id = user'.id
  /\ w.kind \in {"change", "edit", "delete"} => InSession' /\ w.id = user'.id
  /\ w.kind # "orphan"
  /\ w.id <= ids

\* A write is sent: the only awaited one, without a call, or one that is not awaited.
LEMMA ControlSend ==
  ASSUME IInv, Control, ids' = ids, NEW w \in GoodWrite, sent' = Append(sent, w), SoundWrite(w),
         InSession => InSession' /\ user'.id = user.id,
         \/ calls' = {} /\ NoneAwaited
         \/ calls' = calls /\ InSession /\ w.kind \notin Awaited
  PROVE  Control'
<1>1. /\ Len(sent) \in Nat /\ Len(sent') = Len(sent) + 1
      /\ \A n \in 1 .. Len(sent) : sent'[n] = sent[n]
      /\ sent'[Len(sent) + 1] = w
  BY SentOne DEF IInv, Types
<1>2. \A n \in 1 .. Len(sent') : n \in 1 .. Len(sent) \/ n = Len(sent) + 1
  BY <1>1
<1>3. CASE calls' = {} /\ NoneAwaited
  <2>1. OneHandler'
    BY <1>1, <1>2, <1>3 DEF OneHandler, NoneAwaited
  <2>2. InPlace'
    <3>1. ASSUME NEW n \in 1 .. Len(sent)
          PROVE  /\ sent'[n].kind # "fill"
                 /\ sent'[n].kind \in {"change", "edit", "delete"} =>
                      InSession' /\ sent'[n].id = user'.id
                 /\ sent'[n].kind = "orphan" => sent'[n].op = "update"
                 /\ sent'[n].id <= ids'
      BY <1>1, <1>3 DEF Control, InPlace, NoneAwaited, Awaited
    <3>2. ASSUME NEW n \in 1 .. Len(sent'), n = Len(sent) + 1
          PROVE  /\ sent'[n].kind = "fill" => sent'[n].here /\ sent'[n].id = user'.id
                 /\ sent'[n].kind \in {"change", "edit", "delete"} =>
                      InSession' /\ sent'[n].id = user'.id
                 /\ sent'[n].kind # "orphan"
                 /\ sent'[n].id <= ids'
      BY <1>1, <3>2 DEF SoundWrite
    <3> QED
      BY <1>2, <1>3, <3>1, <3>2 DEF InPlace
  <2> QED
    BY <2>1, <2>2 DEF Control
<1>4. CASE calls' = calls /\ InSession /\ w.kind \notin Awaited
  <2>1. OneHandler'
    BY <1>1, <1>2, <1>4 DEF Control, OneHandler, NoneAwaited
  <2>2. screen # "fill" /\ \A n \in 1 .. Len(sent) : sent[n].kind # "fill"
    BY <1>4 DEF Control, InPlace, InSession, IInv, Mounted
  <2>3. InPlace'
    <3>1. ASSUME NEW n \in 1 .. Len(sent)
          PROVE  /\ sent'[n].kind # "fill"
                 /\ sent'[n].kind \in {"change", "edit", "delete"} =>
                      InSession' /\ sent'[n].id = user'.id
                 /\ sent'[n].kind = "orphan" => sent'[n].op = "update"
                 /\ sent'[n].id <= ids'
      BY <1>1, <2>2 DEF Control, InPlace
    <3>2. ASSUME NEW n \in 1 .. Len(sent'), n = Len(sent) + 1
          PROVE  /\ sent'[n].kind = "fill" => sent'[n].here /\ sent'[n].id = user'.id
                 /\ sent'[n].kind \in {"change", "edit", "delete"} =>
                      InSession' /\ sent'[n].id = user'.id
                 /\ sent'[n].kind # "orphan"
                 /\ sent'[n].id <= ids'
      BY <1>1, <3>2 DEF SoundWrite
    <3>3. \A c \in calls' : /\ c.kind \in {"signup", "login"} => c.here
                            /\ c.kind \in {"change", "edit"} => InSession'
      BY <1>4 DEF Control, InPlace
    <3> QED
      BY <1>2, <3>1, <3>2, <3>3 DEF InPlace
  <2> QED
    BY <2>1, <2>3 DEF Control
<1> QED
  BY <1>3, <1>4

-----------------------------------------------------------------------------
(* What most steps leave as it was.                                        *)

\* A call is one there was, or knows nothing but the user there is.
Kin(c) ==
  \/ c.at \in {"lookup", "user"}
  \/ c.at = "clear" /\ c.user.id = user'.id /\ c.user.pw = user'.pw
  \/ \E e \in calls : /\ c.at = e.at /\ c.kind = e.kind
                      /\ c.at = "courses" => c.course = e.course
                      /\ c.at = "clear" => c.user = e.user
                      /\ c.at = "read" => c.id = e.id

\* The queue is what it was, without its front or with a new end that is no update.
OldQueue ==
  \E d \in {0, 1} : \A n \in 1 .. Len(sent') :
    \/ /\ n + d \in 1 .. Len(sent)
       /\ sent'[n].op = sent[n + d].op /\ sent'[n].id = sent[n + d].id
       /\ sent'[n].doc = sent[n + d].doc /\ sent'[n].kind = sent[n + d].kind
    \/ n = Len(sent') /\ sent'[n].op # "update" /\ sent'[n].kind # "edit"

\* What is stored of an account that is known here stays so, or it is excused.
Kept == \A i \in Id : stored'[i] = stored[i] \/ Excused(i)' \/ ~KnownHere(i)

\* Whoever reads or edits goes on.
GoesOn ==
  /\ LoginReads => LoginReads'
  /\ EditReads => EditReads'
  /\ PasswordReads => PasswordReads'
  /\ EditSent => EditSent'

LEMMA SteadyKept ==
  ASSUME IInv, Next, Steady, OldQueue, Kept
  PROVE  Steady'
<1> SUFFICES ASSUME NEW i \in Id, ~Excused(i)', stored'[i] # None,
                    NEW n \in 1 .. Len(sent'), sent'[n].op = "update", sent'[n].id = i,
                    sent'[n].kind # "edit"
             PROVE  sent'[n].doc = stored'[i]
  BY DEF Steady, Updates
<1>1. ~Excused(i)
  BY ExcusedStays
<1>2. PICK m \in 1 .. Len(sent) : /\ sent[m].op = "update" /\ sent[m].id = i
                                  /\ sent[m].kind # "edit" /\ sent'[n].doc = sent[m].doc
  BY DEF OldQueue
<1>3. KnownHere(i)
  BY <1>2 DEF KnownHere
<1>4. stored'[i] = stored[i]
  BY <1>3 DEF Kept
<1> QED
  BY <1>1, <1>2, <1>4 DEF Steady, Updates

LEMMA BoxKept ==
  ASSUME IInv, Next, BoxAgrees, GoesOn, Kept, UNCHANGED userBox
  PROVE  BoxAgrees'
<1>1. PICK box : box = Last(userBox)
  OBVIOUS
<1>2. box = Last(userBox')
  BY <1>1
<1>3. CASE box.user = None
  BY <1>2, <1>3 DEF BoxAgrees
<1>4. CASE box.user # None
  <2>1. \E m \in 1 .. Len(userBox) : userBox[m] = box
    BY <1>1, LastIs DEF IInv
  <2>2. box \in Image
    BY <1>1, BoxIs DEF IInv
  <2>3. box.user.id \in Id /\ KnownHere(box.user.id)
    BY <1>4, <2>1, <2>2 DEF KnownHere, Image, Member
  <2>4. PICK i \in Id : i = box.user.id
    BY <2>3
  <2>5. Excused(i)' \/ (stored'[i] = stored[i] /\ ~Excused(i))
    BY <2>3, <2>4, ExcusedStays DEF Kept
  <2>6. \/ Excused(i)
        \/ /\ LoginReads \/ EditSent \/ EditReads \/ box.data = box.user.course
           /\ stored[i] # None
           /\ PasswordReads \/ stored[i].pw = box.user.pw
           /\ EditSent \/ stored[i].course = box.user.course
    BY <1>1, <1>4, <2>4 DEF BoxAgrees
  <2>7. \/ Excused(i)'
        \/ /\ LoginReads' \/ EditSent' \/ EditReads' \/ box.data = box.user.course
           /\ stored'[i] # None
           /\ PasswordReads' \/ stored'[i].pw = box.user.pw
           /\ EditSent' \/ stored'[i].course = box.user.course
    BY <2>5, <2>6 DEF GoesOn
  <2> QED
    BY <1>2, <2>4, <2>7 DEF BoxAgrees
<1> QED
  BY <1>3, <1>4

LEMMA ImagesKept ==
  ASSUME IInv, Next, ImagesAgree, Kept, UNCHANGED userBox
  PROVE  ImagesAgree'
<1> SUFFICES ASSUME Last(userBox).user = None, NEW n \in 1 .. Len(userBox), userBox[n].user # None
             PROVE  LET u == userBox[n].user
                    IN  \/ Shared(u.id)' \/ Deleted(u.id)'
                        \/ userBox[n].data = u.course /\ stored'[u.id] = Document(u)
  BY DEF ImagesAgree
<1>1. userBox[n] \in Image
  BY DEF IInv, Types
<1>2. PICK u \in Member : u = userBox[n].user
  BY <1>1 DEF Image
<1>3. u.id \in Id /\ KnownHere(u.id)
  BY <1>2 DEF KnownHere, Member
<1>4. stored'[u.id] = stored[u.id] \/ Excused(u.id)'
  BY <1>3 DEF Kept
<1>5. Excused(u.id)' => Shared(u.id)' \/ Deleted(u.id)'
  BY DEF Excused
<1>6. \/ Shared(u.id) \/ Deleted(u.id)
      \/ userBox[n].data = u.course /\ stored[u.id] = Document(u)
  BY <1>2 DEF ImagesAgree
<1>7. \/ Shared(u.id)' \/ Deleted(u.id)'
      \/ userBox[n].data = u.course /\ stored'[u.id] = Document(u)
  BY <1>4, <1>5, <1>6, ExcusedStays
<1> QED
  BY <1>2, <1>7

LEMMA OrderedKept ==
  ASSUME IInv, Next, Ordered, OldQueue, \A c \in calls' : Kin(c),
         user'.id = user.id, screen' = "fill" => screen = "fill"
  PROVE  Ordered'
<1>0. Len(sent') \in Nat /\ Len(sent) \in Nat
  BY InvStep DEF IInv, Types
<1>1. PICK d \in {0, 1} : \A n \in 1 .. Len(sent') :
        \/ /\ n + d \in 1 .. Len(sent)
           /\ sent'[n].op = sent[n + d].op /\ sent'[n].id = sent[n + d].id
           /\ sent'[n].doc = sent[n + d].doc /\ sent'[n].kind = sent[n + d].kind
        \/ n = Len(sent') /\ sent'[n].op # "update" /\ sent'[n].kind # "edit"
  BY DEF OldQueue
<1>2. \A n \in 1 .. Len(sent') : sent'[n].op = "update" =>
        n + d \in 1 .. Len(sent) /\ sent[n + d].op = "update" /\ sent[n + d].id = sent'[n].id
  BY <1>1
<1>3. ASSUME NEW n \in 1 .. Len(sent'), NEW m \in 1 .. Len(sent'), n < m,
             sent'[n].kind \in {"change", "edit"}, sent'[m].op = "update", sent'[m].id = sent'[n].id
      PROVE  FALSE
  <2>1. n # Len(sent')
    BY <1>0, <1>3
  <2>2. n + d \in 1 .. Len(sent) /\ sent'[n].id = sent[n + d].id /\ sent'[n].kind = sent[n + d].kind
    BY <1>1, <2>1
  <2>3. m + d \in 1 .. Len(sent) /\ sent[m + d].op = "update" /\ sent[m + d].id = sent[n + d].id
    BY <1>2, <1>3, <2>2
  <2>4. n + d < m + d
    BY <1>3
  <2> QED
    BY <1>3, <2>2, <2>3, <2>4 DEF Ordered, Updates
<1>4. PasswordReads' \/ EditReads' => PasswordReads \/ EditReads
  BY DEF PasswordReads, EditReads, Kin
<1>5. ASSUME \A n \in 1 .. Len(sent) : ~Updates(n, user.id), NEW n \in 1 .. Len(sent')
      PROVE  ~(sent'[n].op = "update" /\ sent'[n].id = user'.id)
  BY <1>2, <1>5 DEF Updates
<1>6. PasswordReads' \/ EditReads' =>
        \A n \in 1 .. Len(sent') : ~(sent'[n].op = "update" /\ sent'[n].id = user'.id)
  BY <1>4, <1>5 DEF Ordered
<1>7. screen' = "fill" =>
        \A n \in 1 .. Len(sent') : ~(sent'[n].op = "update" /\ sent'[n].id = user'.id)
  BY <1>5 DEF Ordered
<1> QED
  BY <1>3, <1>6, <1>7 DEF Ordered, Updates

\* On the profile screen nobody waits for an answer.
LEMMA FillAlone ==
  ASSUME IInv, Control, screen = "fill"
  PROVE  /\ calls = {} /\ ~InSession /\ ~LoginReads /\ ~EditSent
<1>1. \A c \in calls : c.kind \in {"signup", "login", "change", "edit"}
  BY Facts, CallShape
<1>2. calls = {}
  BY <1>1 DEF Control, InPlace, IInv, Mounted, ScreenOf, InSession
<1> QED
  BY <1>2 DEF LoginReads, EditSent, Control, InPlace, InSession

LEMMA CarriedKept ==
  ASSUME IInv, Control, Carried, OldQueue, \A c \in calls' : Kin(c),
         user' = user \/ (screen = "fill" /\ user'.id = user.id)
  PROVE  Carried'
<1>1. \A n \in 1 .. Len(sent') : sent'[n].kind = "edit" =>
        \E m \in 1 .. Len(sent) : sent[m].kind = "edit" /\ sent[m].doc = sent'[n].doc
  BY DEF OldQueue
<1>2. CASE user' = user
  BY <1>1, <1>2 DEF Carried, Kin
<1>3. CASE screen = "fill"
  <2>1. calls = {} /\ ~EditSent
    BY <1>3, FillAlone
  <2> QED
    BY <1>1, <2>1 DEF Carried, Kin, EditSent
<1> QED
  BY <1>2, <1>3

LEMMA BoxedKept ==
  ASSUME IInv, Control, Boxed, GoesOn, \A c \in calls' : Kin(c), UNCHANGED userBox,
         user' = user \/ (screen = "fill" /\ user'.id = user.id),
         InSession' => InSession,
         screen' \in {"auth", "fill"} => screen \in {"auth", "fill"}
  PROVE  Boxed'
<1>1. LoginReads' <=> LoginReads
  BY DEF LoginReads, Kin, GoesOn
<1>2. CASE user' = user
  BY <1>1, <1>2 DEF Boxed
<1>3. CASE screen = "fill"
  <2>1. ~InSession /\ ~LoginReads
    BY <1>3, FillAlone
  <2> QED
    BY <1>1, <2>1 DEF Boxed
<1> QED
  BY <1>2, <1>3

LEMMA CalmKept ==
  ASSUME IInv, Next, Calm, Control', OldQueue, Kept, GoesOn, \A c \in calls' : Kin(c),
         UNCHANGED userBox, user' = user \/ (screen = "fill" /\ user'.id = user.id),
         InSession' => InSession,
         screen' \in {"auth", "fill"} => screen \in {"auth", "fill"},
         screen' = "fill" => screen = "fill"
  PROVE  Calm'
<1>1. Control /\ Carried /\ Boxed /\ Ordered /\ Steady /\ BoxAgrees /\ ImagesAgree
  BY DEF Calm
<1>2. user'.id = user.id
  OBVIOUS
<1> QED
  BY <1>1, <1>2, CarriedKept, BoxedKept, OrderedKept, SteadyKept, BoxKept, ImagesKept DEF Calm

LEMMA QueueKept ==
  ASSUME Types,
         \/ sent' = sent
         \/ sent # <<>> /\ sent' = Tail(sent)
         \/ sent' = UnmountedWrites(sent)
         \/ \E w \in GoodWrite : sent' = Append(sent, w) /\ w.op # "update"
  PROVE  OldQueue
<1>0. sent \in Seq(GoodWrite) /\ Len(sent) \in Nat /\ \A n \in 1 .. Len(sent) : sent[n] \in GoodWrite
  BY DEF Types
<1>1. CASE sent' = sent
  <2>1. \A n \in 1 .. Len(sent') : n + 0 = n /\ n + 0 \in 1 .. Len(sent)
    BY <1>0, <1>1
  <2> QED
    BY <1>1, <2>1 DEF OldQueue
<1>2. CASE sent # <<>> /\ sent' = Tail(sent)
  <2>1. \A n \in 1 .. Len(sent') : n + 1 \in 1 .. Len(sent) /\ sent'[n] = sent[n + 1]
    BY <1>0, <1>2, FrontOf
  <2> QED
    BY <2>1 DEF OldQueue
<1>3. CASE sent' = UnmountedWrites(sent)
  <2>1. Len(sent') = Len(sent) /\ \A n \in 1 .. Len(sent) : sent'[n] = [sent[n] EXCEPT !.here = FALSE]
    BY <1>0, <1>3, LeftQueue
  <2>2. \A w \in GoodWrite : /\ [w EXCEPT !.here = FALSE].op = w.op
                             /\ [w EXCEPT !.here = FALSE].id = w.id
                             /\ [w EXCEPT !.here = FALSE].doc = w.doc
                             /\ [w EXCEPT !.here = FALSE].kind = w.kind
    BY DEF GoodWrite
  <2>3. \A n \in 1 .. Len(sent') : n + 0 = n /\ n + 0 \in 1 .. Len(sent)
    BY <1>0, <2>1
  <2>4. \A n \in 1 .. Len(sent) : /\ sent'[n].op = sent[n].op /\ sent'[n].id = sent[n].id
                                  /\ sent'[n].doc = sent[n].doc /\ sent'[n].kind = sent[n].kind
    BY <1>0, <2>1, <2>2
  <2> QED
    BY <2>3, <2>4 DEF OldQueue
<1>4. ASSUME NEW w \in GoodWrite, sent' = Append(sent, w), w.op # "update"
      PROVE  OldQueue
  <2>1. /\ Len(sent') = Len(sent) + 1 /\ sent'[Len(sent) + 1] = w
        /\ \A n \in 1 .. Len(sent) : sent'[n] = sent[n]
    BY <1>0, <1>4, SentOne
  <2>2. w.kind # "edit"
    BY <1>4 DEF GoodWrite
  <2>3. \A n \in 1 .. Len(sent') : n + 0 = n /\ (n \in 1 .. Len(sent) \/ n = Len(sent'))
    BY <1>0, <2>1
  <2>4. sent'[Len(sent')] = w
    BY <2>1
  <2> QED
    BY <1>4, <2>1, <2>2, <2>3, <2>4 DEF OldQueue
<1> QED
  BY <1>1, <1>2, <1>3, <1>4

\* A profile edit that was sent is in the queue still.
LEMMA EditStays ==
  ASSUME Types, EditSent,
         \/ sent' = sent
         \/ sent # <<>> /\ sent' = Tail(sent) /\ Head(sent).kind # "edit"
         \/ sent' = UnmountedWrites(sent)
         \/ \E w \in GoodWrite : sent' = Append(sent, w)
  PROVE  EditSent'
<1>0. sent \in Seq(GoodWrite) /\ Len(sent) \in Nat
  BY DEF Types
<1>1. PICK n \in 1 .. Len(sent) : sent[n].kind = "edit"
  BY DEF EditSent
<1>2. CASE sent' = sent
  BY <1>2 DEF EditSent
<1>3. CASE sent # <<>> /\ sent' = Tail(sent) /\ Head(sent).kind # "edit"
  <2>1. /\ Head(sent) = sent[1] /\ Len(sent') = Len(sent) - 1
        /\ \A m \in 1 .. Len(sent') : sent'[m] = sent[m + 1]
    BY <1>0, <1>3, FrontOf
  <2>2. n # 1
    BY <1>1, <1>3, <2>1
  <2>3. n - 1 \in 1 .. Len(sent') /\ (n - 1) + 1 = n
    BY <1>0, <2>1, <2>2
  <2> QED
    BY <1>1, <2>1, <2>3 DEF EditSent
<1>4. CASE sent' = UnmountedWrites(sent)
  <2>1. Len(sent') = Len(sent) /\ sent'[n] = [sent[n] EXCEPT !.here = FALSE]
    BY <1>0, <1>4, LeftQueue
  <2>2. sent[n] \in GoodWrite
    BY <1>0
  <2>3. sent'[n].kind = "edit"
    BY <1>1, <2>1, <2>2 DEF GoodWrite
  <2> QED
    BY <2>1, <2>3 DEF EditSent
<1>5. ASSUME NEW w \in GoodWrite, sent' = Append(sent, w)
      PROVE  EditSent'
  <2>1. Len(sent') = Len(sent) + 1 /\ sent'[n] = sent[n]
    BY <1>0, <1>5, SentOne
  <2>2. n \in 1 .. Len(sent')
    BY <1>0, <2>1
  <2> QED
    BY <1>1, <2>1, <2>2 DEF EditSent
<1> QED
  BY <1>2, <1>3, <1>4, <1>5

\* The calls as they were, here or not.
LEMMA CallsKept ==
  ASSUME IInv, OneHandler,
         \/ calls \subseteq calls' /\ \A c \in calls' \ calls : Kin(c)
         \/ calls' = Unmounted(calls)
  PROVE  /\ \A c \in calls' : Kin(c)
         /\ LoginReads => LoginReads'
         /\ EditReads => EditReads'
         /\ PasswordReads => PasswordReads'
<1>1. CASE calls \subseteq calls' /\ \A c \in calls' \ calls : Kin(c)
  <2>1. \A c \in calls : Kin(c)
    BY DEF Kin
  <2> QED
    BY <1>1, <2>1 DEF LoginReads, EditReads, PasswordReads
<1>2. CASE calls' = Unmounted(calls)
  <2>1. \A c \in calls : c \in GoodCall /\ c.at # "threw"
    BY Facts DEF OneHandler
  <2>2. \A c \in GoodCall : /\ c.at = "courses" => [c EXCEPT !.here = FALSE].course = c.course
                            /\ c.at = "clear" => [c EXCEPT !.here = FALSE].user = c.user
                            /\ c.at = "read" => [c EXCEPT !.here = FALSE].id = c.id
    BY DEF GoodCall, SignUpCall, LoginCall, CourseCall, ReadCall, ClearCall, ThrewCall
  <2>3. \A c \in calls : /\ [c EXCEPT !.here = FALSE] \in calls'
                         /\ [c EXCEPT !.here = FALSE].at = c.at
                         /\ [c EXCEPT !.here = FALSE].kind = c.kind
    BY <1>2, <2>1, LeftCall DEF Unmounted
  <2>4. \A e \in calls' : \E c \in calls : e = [c EXCEPT !.here = FALSE]
    BY <1>2 DEF Unmounted
  <2>5. \A c \in calls : Kin([c EXCEPT !.here = FALSE])
    BY <2>1, <2>2, <2>3 DEF Kin
  <2> QED
    BY <2>3, <2>4, <2>5 DEF LoginReads, EditReads, PasswordReads
<1> QED
  BY <1>1, <1>2

-----------------------------------------------------------------------------
(* What the student does.                                                  *)

LEMMA StillKept ==
  ASSUME UNCHANGED stored
  PROVE  Kept
BY DEF Kept

LEMMA EnterCalm ==
  ASSUME IInv, Next, Calm, screen = "auth", ~Loading("signup"), ~Loading("login"),
         NEW c \in GoodCall, calls' = calls \cup {c}, c.here, c.at \in {"lookup", "user"},
         c.kind \in {"signup", "login"},
         UNCHANGED <<screen, user, userBox, sent, stored, ids>>
  PROVE  Calm'
<1>1. Control /\ OneHandler /\ InPlace
  BY DEF Calm, Control
<1>2. calls = {}
  <2>1. \A e \in calls : e.kind \in {"signup", "login", "change", "edit"}
    BY Facts, CallShape
  <2>2. \A e \in calls : ~e.here
    BY NothingEntering
  <2> QED
    BY <1>1, <2>1, <2>2 DEF InPlace, InSession
<1>3. NoneAwaited
  <2> SUFFICES ASSUME NEW n \in 1 .. Len(sent), sent[n].kind \in Awaited PROVE FALSE
    BY DEF NoneAwaited
  <2>1. sent[n].kind = "fill" /\ sent[n].here
    BY <1>1 DEF InPlace, InSession, Awaited
  <2> QED
    BY <2>1 DEF IInv, Mounted
<1>4. Control'
  <2>1. calls' = {c}
    BY <1>2
  <2>2. OneHandler'
    BY <1>1, <1>3, <2>1 DEF OneHandler, NoneAwaited
  <2>3. InPlace'
    BY <1>1, <2>1 DEF InPlace, InSession
  <2> QED
    BY <2>2, <2>3 DEF Control
<1>5. OldQueue
  BY QueueKept DEF IInv
<1>6. \A e \in calls' : Kin(e)
  BY <1>2 DEF Kin
<1>7. GoesOn
  BY <1>2 DEF GoesOn, LoginReads, EditReads, PasswordReads, EditSent
<1> QED
  BY <1>4, <1>5, <1>6, <1>7, StillKept, CalmKept DEF InSession

LEMMA SubmitCalm ==
  ASSUME IInv, Next, Calm, Numbered, NEW course \in Course, SubmitProfile(course)
  PROVE  Calm'
<1>1. user \in User /\ screen = "fill"
  BY DEF SubmitProfile, IInv, Sessions
<1>2. PICK u : u = [user EXCEPT !.pw = hashPassword(@), !.course = course]
  OBVIOUS
<1>3. u \in Member /\ u.id = user.id /\ Document(u) \in Filled
  <2>1. hashPassword(user.pw) \in Hashed
    BY <1>1, HashIs DEF SubmitProfile, User
  <2> QED
    BY <1>1, <1>2, <2>1 DEF User, Member, Filled, Document
<1>4. PICK w : w = [op |-> "set", id |-> u.id, doc |-> Document(u), kind |-> "fill", here |-> TRUE]
  OBVIOUS
<1>5. w \in GoodWrite /\ w.op = "set" /\ w.kind = "fill" /\ w.here /\ w.id = user.id
  BY <1>3, <1>4 DEF GoodWrite, Member
<1>6. /\ sent' = Append(sent, w) /\ user' = u
      /\ UNCHANGED <<screen, userBox, calls, stored, ids>>
  BY <1>2, <1>4 DEF SubmitProfile, Send, made
<1>7. Control /\ OneHandler /\ InPlace
  BY DEF Calm, Control
<1>8. calls = {} /\ ~InSession /\ ~LoginReads /\ ~EditSent
  BY <1>1, <1>7, FillAlone
<1>9. NoneAwaited
  <2> SUFFICES ASSUME NEW n \in 1 .. Len(sent), sent[n].kind \in Awaited PROVE FALSE
    BY DEF NoneAwaited
  <2>1. sent[n].kind = "fill" /\ sent[n].here
    BY <1>7, <1>8 DEF InPlace, Awaited
  <2>2. \A m \in 1 .. Len(sent) : sent[m].here => sent[m].kind = "delete"
    BY <1>1, NothingLoading DEF SubmitProfile
  <2> QED
    BY <2>1, <2>2
<1>10. user.id \in Id /\ user.id <= ids
  <2>1. user.id \in Id /\ UserIs(user.id)
    BY <1>1, NoneApart DEF User, UserIs
  <2> QED
    BY <2>1 DEF Numbered, Given
<1>11. Control'
  <2>1. SoundWrite(w)
    BY <1>3, <1>5, <1>6, <1>10 DEF SoundWrite
  <2>2. InSession => InSession' /\ user'.id = user.id
    BY <1>8
  <2> QED
    BY <1>5, <1>6, <1>7, <1>8, <1>9, <2>1, <2>2, ControlSend
<1>12. OldQueue
  BY <1>5, <1>6, QueueKept DEF IInv
<1>13. GoesOn
  BY <1>8 DEF GoesOn, LoginReads, EditReads, PasswordReads
<1>14. \A c \in calls' : Kin(c)
  BY <1>6, <1>8
<1>15. user'.id = user.id
  BY <1>3, <1>6
<1> QED
  BY <1>1, <1>6, <1>11, <1>12, <1>13, <1>14, <1>15, StillKept, CalmKept DEF InSession

LEMMA OpenCalm ==
  ASSUME IInv, Next, Calm, NEW s \in {"change", "edit"}, Open(s)
  PROVE  Calm'
<1>1. /\ screen = "main" /\ screen' = s
      /\ UNCHANGED <<user, userBox, calls, sent, stored, ids>>
  BY DEF Open, cloud, made
<1>2. Control /\ OneHandler
  BY DEF Calm, Control
<1>3. Control'
  <2>1. Remains
    BY <1>1, RemainsIf DEF IInv
  <2> QED
    BY <1>1, <1>2, <2>1, ControlRemains DEF InSession
<1>4. OldQueue /\ Kept
  BY <1>1, QueueKept, StillKept DEF IInv
<1>5. GoesOn /\ \A c \in calls' : Kin(c)
  BY <1>1, <1>2, CallsKept DEF GoesOn, EditSent
<1> QED
  BY <1>1, <1>3, <1>4, <1>5, CalmKept DEF InSession

\* A write that is sent by whoever is alone in a session, or by a deletion.
LEMMA SendCalm ==
  ASSUME IInv, Next, Calm, Numbered, InSession, NEW w \in GoodWrite, sent' = Append(sent, w),
         w.op # "update", w.kind \in {"change", "delete"}, w.id = user.id,
         (calls = {} /\ NoneAwaited) \/ w.kind = "delete",
         UNCHANGED <<screen, user, userBox, calls, stored, ids>>
  PROVE  Calm'
<1>1. Control /\ OneHandler
  BY DEF Calm, Control
<1>2. user.id \in Id /\ user.id <= ids
  <2>1. user \in Member
    BY DEF IInv, Sessions
  <2>2. user.id \in Id /\ UserIs(user.id)
    BY <2>1, NoneApart DEF Member, UserIs
  <2> QED
    BY <2>2 DEF Numbered, Given
<1>3. InSession'
  BY DEF InSession
<1>4. Control'
  <2>1. SoundWrite(w)
    BY <1>2, <1>3 DEF SoundWrite
  <2>2. \/ calls' = {} /\ NoneAwaited
        \/ calls' = calls /\ InSession /\ w.kind \notin Awaited
    BY DEF Awaited
  <2> QED
    BY <1>1, <1>3, <2>1, <2>2, ControlSend
<1>5. OldQueue /\ Kept
  BY QueueKept, StillKept DEF IInv
<1>6. EditSent => EditSent'
  BY EditStays DEF IInv
<1>7. GoesOn /\ \A c \in calls' : Kin(c)
  BY <1>1, <1>6, CallsKept DEF GoesOn
<1> QED
  BY <1>3, <1>4, <1>5, <1>7, CalmKept DEF InSession

LEMMA ChangeCalm ==
  ASSUME IInv, Next, Calm, Numbered, Clean', NEW old \in Word, NEW new \in Word, StartChange(old, new)
  PROVE  Calm'
<1>1. user \in Member /\ screen = "change" /\ InSession
  BY DEF StartChange, IInv, Sessions, InSession
<1>2. hashPassword(<<new, 0>>) \in Hashed
  <2>1. user.pw[2] = 1 /\ user.pw \in Hashed
    BY <1>1 DEF StartChange, hashPassword, Member
  <2>2. 1 \in 1 .. MaxHash
    BY <2>1 DEF Hashed
  <2> QED
    BY <2>2 DEF Hashed, hashPassword
<1>3. PICK w : w = [op |-> "password", id |-> user.id,
                    doc |-> [pw |-> hashPassword(<<new, 0>>), course |-> user.course],
                    kind |-> "change", here |-> TRUE]
  OBVIOUS
<1>4. w \in GoodWrite /\ w.kind = "change" /\ w.op = "password" /\ w.id = user.id
  BY <1>1, <1>2, <1>3 DEF GoodWrite, Member, Filled
<1>5. sent' = Append(sent, w) /\ UNCHANGED <<screen, user, userBox, lists, calls, stored, other, ids>>
  BY <1>3 DEF StartChange, Send, made
<1>6. calls = {} /\ NoneAwaited
  BY Overlap DEF StartChange, Calm, Control
<1> QED
  BY <1>1, <1>4, <1>5, <1>6, SendCalm

LEMMA DeleteCalm ==
  ASSUME IInv, Next, Calm, Numbered, StartDelete
  PROVE  Calm'
<1>1. user \in Member /\ screen = "edit" /\ InSession
  BY DEF StartDelete, IInv, Sessions, InSession
<1>2. PICK w : w = [op |-> "delete", id |-> user.id, doc |-> Document(user),
                    kind |-> "delete", here |-> TRUE]
  OBVIOUS
<1>3. w \in GoodWrite /\ w.kind = "delete" /\ w.op = "delete" /\ w.id = user.id
  BY <1>1, <1>2 DEF GoodWrite, Member, Filled, Document
<1>4. sent' = Append(sent, w) /\ UNCHANGED <<screen, user, userBox, lists, calls, stored, other, ids>>
  BY <1>2 DEF StartDelete, Send, made
<1> QED
  BY <1>1, <1>3, <1>4, SendCalm

LEMMA EditCalm ==
  ASSUME IInv, Next, Calm, Clean', NEW course \in Course, StartEdit(course)
  PROVE  Calm'
<1>1. user \in Member /\ screen = "edit" /\ InSession
  BY DEF StartEdit, IInv, Sessions, InSession
<1>2. PICK c : c = [kind |-> "edit", at |-> "clear", user |-> [user EXCEPT !.course = course],
                    here |-> TRUE]
  OBVIOUS
<1>3. /\ c.at = "clear" /\ c.kind = "edit" /\ c.here
      /\ c.user.id = user.id /\ c.user.pw = user.pw
  BY <1>1, <1>2 DEF Member
<1>4. calls' = calls \cup {c} /\ UNCHANGED <<screen, user, userBox, lists, sent, stored, other, ids>>
  BY <1>2 DEF StartEdit, Call, cloud, made
<1>5. /\ calls = {} /\ NoneAwaited
      /\ ~LoginReads /\ ~EditReads /\ ~PasswordReads /\ ~EditSent
  BY Overlap DEF StartEdit, Calm, Control
<1>6. Control'
  <2>1. OneHandler'
    BY <1>3, <1>4, <1>5 DEF OneHandler, NoneAwaited, Calm, Control
  <2>2. InPlace'
    BY <1>1, <1>3, <1>4, <1>5 DEF InPlace, Calm, Control, InSession
  <2> QED
    BY <2>1, <2>2 DEF Control
<1>7. OldQueue /\ Kept
  BY <1>4, QueueKept, StillKept DEF IInv
<1>8. GoesOn /\ \A e \in calls' : Kin(e)
  BY <1>3, <1>4, <1>5 DEF GoesOn, Kin
<1> QED
  BY <1>4, <1>6, <1>7, <1>8, CalmKept DEF InSession

LEMMA LeaveCalm ==
  ASSUME IInv, Next, Calm, Clean', Leave
  PROVE  Calm'
<1>1. Control /\ OneHandler /\ InPlace
  BY DEF Calm, Control
<1>2. /\ calls' = Unmounted(calls) /\ sent' = UnmountedWrites(sent)
      /\ UNCHANGED <<user, userBox, stored, ids>>
  BY DEF Leave, made
<1>3. screen \in {"auth", "fill"} => ~Handlers
  BY DEF Leave, Clean, NoteIf, Note, Left, Happened
<1>4. screen # "auth"
  <2> SUFFICES ASSUME screen = "auth" PROVE FALSE
    OBVIOUS
  <2>1. calls = {}
    BY <1>1, <1>3, Idle
  <2> QED
    BY <2>1 DEF Leave
<1>5. \/ screen = "fill" /\ screen' = "auth" /\ calls = {}
      \/ screen \in {"change", "edit"} /\ screen' = "main"
  <2>1. screen = "fill" => calls = {}
    BY <1>1, FillAlone
  <2> QED
    BY <1>4, <2>1 DEF Leave
<1>6. /\ Len(sent') = Len(sent) /\ Len(sent) \in Nat
      /\ \A n \in 1 .. Len(sent) : /\ sent'[n].op = sent[n].op /\ sent'[n].id = sent[n].id
                                   /\ sent'[n].doc = sent[n].doc /\ sent'[n].kind = sent[n].kind
  <2>1. Len(sent') = Len(sent) /\ \A n \in 1 .. Len(sent) : sent'[n] = [sent[n] EXCEPT !.here = FALSE]
    BY <1>2, LeftQueue DEF IInv, Types
  <2>2. \A w \in GoodWrite : /\ [w EXCEPT !.here = FALSE].op = w.op
                             /\ [w EXCEPT !.here = FALSE].id = w.id
                             /\ [w EXCEPT !.here = FALSE].doc = w.doc
                             /\ [w EXCEPT !.here = FALSE].kind = w.kind
    BY DEF GoodWrite
  <2> QED
    BY <2>1, <2>2, Facts
<1>7. \A n \in 1 .. Len(sent) : sent[n].kind # "fill"
  <2>1. CASE screen = "fill"
    BY <1>1, <1>3, <2>1, Idle
  <2>2. CASE screen \in {"change", "edit"}
    BY <1>1, <2>2 DEF InPlace, IInv, Mounted
  <2> QED
    BY <1>5, <2>1, <2>2
<1>8. \A e \in calls' : \E c \in calls : e = [c EXCEPT !.here = FALSE] /\ e.kind = c.kind /\ e.at = c.at
  <2>1. \A e \in calls' : \E c \in calls : e = [c EXCEPT !.here = FALSE]
    BY <1>2 DEF Unmounted
  <2>2. \A c \in calls : /\ [c EXCEPT !.here = FALSE].kind = c.kind
                         /\ [c EXCEPT !.here = FALSE].at = c.at
    BY LeftCall, Facts
  <2> QED
    BY <2>1, <2>2
<1>9. OneHandler'
  <2>1. (\A c, e \in calls : c = e)'
    BY <1>1, <1>8 DEF OneHandler
  <2>2. (\A c \in calls : c.at # "threw")'
    BY <1>1, <1>8 DEF OneHandler
  <2>3. \A n, m \in 1 .. Len(sent') : sent'[n].kind \in Awaited /\ sent'[m].kind \in Awaited => n = m
    BY <1>1, <1>6 DEF OneHandler
  <2>4. calls' # {} => \A n \in 1 .. Len(sent') : sent'[n].kind \notin Awaited
    BY <1>1, <1>6, <1>8 DEF OneHandler, NoneAwaited
  <2> QED
    BY <2>1, <2>2, <2>3, <2>4 DEF OneHandler, NoneAwaited
<1>10. InPlace'
  <2>1. \A c \in calls : c.kind \notin {"signup", "login"}
    BY <1>1, <1>5 DEF InPlace, IInv, Mounted, ScreenOf
  <2>2. \A n \in 1 .. Len(sent) : sent[n].kind \in {"change", "edit", "delete"} => InSession'
    BY <1>1, <1>5 DEF InPlace, InSession
  <2>3. calls # {} => InSession'
    BY <1>5 DEF InSession
  <2> QED
    BY <1>1, <1>2, <1>6, <1>7, <1>8, <2>1, <2>2, <2>3 DEF InPlace
<1>11. OldQueue /\ Kept
  BY <1>2, QueueKept, StillKept DEF IInv
<1>12. EditSent => EditSent'
  BY <1>2, EditStays DEF IInv
<1>13. GoesOn /\ \A e \in calls' : Kin(e)
  BY <1>1, <1>2, <1>12, CallsKept DEF GoesOn
<1>14. Control'
  BY <1>9, <1>10 DEF Control
<1> QED
  BY <1>2, <1>5, <1>11, <1>13, <1>14, CalmKept DEF InSession

LEMMA RecordCalm ==
  ASSUME IInv, Next, Calm, Numbered, Clean', Record
  PROVE  Calm'
<1>1. user \in Member /\ user # None /\ screen = "main" /\ InSession
  BY NoneApart DEF Record, IInv, Sessions, InSession
<1>2. PICK w : w = [op |-> "update", id |-> user.id, doc |-> Document(user),
                    kind |-> "record", here |-> FALSE]
  OBVIOUS
<1>3. /\ w \in GoodWrite /\ w.kind = "record" /\ w.op = "update" /\ w.id = user.id
      /\ w.doc = Document(user)
  BY <1>1, <1>2 DEF GoodWrite, Member, Filled, Document
<1>4. /\ sent' = Append(sent, w) /\ userBox' = saveUser(Box, user)
      /\ UNCHANGED <<screen, user, calls, stored, other, ids>>
  BY <1>2 DEF Record, Send, made
<1>5. /\ calls = {} /\ NoneAwaited
      /\ ~LoginReads /\ ~EditReads /\ ~PasswordReads /\ ~EditSent
  BY Overlap DEF Record, Calm, Control
<1>6. /\ Len(sent) \in Nat /\ Len(sent') = Len(sent) + 1
      /\ \A n \in 1 .. Len(sent) : sent'[n] = sent[n]
      /\ sent'[Len(sent) + 1] = w
  BY <1>3, <1>4, SentOne DEF IInv, Types
<1>7. \A n \in 1 .. Len(sent') : n \in 1 .. Len(sent) \/ n = Len(sent) + 1
  BY <1>6
<1>8. InSession'
  BY <1>1, <1>4 DEF InSession
<1>9. Control'
  <2>1. user.id <= ids
    BY <1>1 DEF Numbered, Given, UserIs, Member
  <2>2. SoundWrite(w)
    BY <1>3, <2>1 DEF SoundWrite
  <2> QED
    BY <1>3, <1>4, <1>5, <1>8, <2>2, ControlSend DEF Calm
<1>10. \A n \in 1 .. Len(sent') : sent'[n].kind \notin Awaited
  BY <1>3, <1>5, <1>6, <1>7 DEF NoneAwaited, Awaited
<1>11. ~LoginReads' /\ ~EditReads' /\ ~PasswordReads' /\ ~EditSent'
  BY <1>4, <1>5, <1>10 DEF LoginReads, EditReads, PasswordReads, EditSent, Awaited
<1>12. Last(userBox) \in Image /\ Last(userBox).user = user
  BY <1>1, BoxIs DEF Calm, Boxed, IInv
<1>13. Last(userBox') = Last(userBox)
  BY <1>1, <1>4, <1>12, UserSaved DEF IInv, Image
<1>14. Carried'
  BY <1>4, <1>5, <1>10 DEF Carried, Awaited
<1>15. Boxed'
  BY <1>1, <1>4, <1>12, <1>13 DEF Boxed, InSession
<1>16. Ordered'
  BY <1>1, <1>4, <1>10, <1>11 DEF Ordered, Awaited
<1>17. Excused(user.id) \/ stored[user.id] = Document(user)
  <2>1. \/ Excused(user.id)
        \/ /\ stored[user.id] # None /\ stored[user.id].pw = user.pw
           /\ stored[user.id].course = user.course
    BY <1>1, <1>5, <1>12 DEF Calm, BoxAgrees
  <2>2. user.id \in Id
    BY <1>1 DEF Member
  <2>3. stored[user.id] # None => stored[user.id] \in Filled
    BY <2>2, StoredIs DEF IInv
  <2> QED
    BY <2>1, <2>3 DEF Filled, Document
<1>18. Steady'
  <2> SUFFICES ASSUME NEW i \in Id, ~Excused(i)', stored'[i] # None,
                      NEW n \in 1 .. Len(sent'), sent'[n].op = "update", sent'[n].id = i,
                      sent'[n].kind # "edit"
               PROVE  sent'[n].doc = stored'[i]
    BY DEF Steady, Updates
  <2>1. ~Excused(i)
    BY ExcusedStays
  <2>2. CASE n \in 1 .. Len(sent)
    BY <1>4, <1>6, <2>1, <2>2 DEF Calm, Steady, Updates
  <2>3. CASE n = Len(sent) + 1
    BY <1>3, <1>4, <1>6, <1>17, <2>1, <2>3
  <2> QED
    BY <1>7, <2>2, <2>3
<1>19. BoxAgrees'
  <2>1. PICK box : box = Last(userBox)
    OBVIOUS
  <2>2. box = Last(userBox') /\ box.user = user
    BY <1>12, <1>13, <2>1
  <2>3. \/ Excused(user.id)
        \/ /\ box.data = box.user.course
           /\ stored[user.id] # None
           /\ stored[user.id].pw = box.user.pw
           /\ stored[user.id].course = box.user.course
    BY <1>1, <1>5, <2>1, <2>2 DEF Calm, BoxAgrees
  <2>4. PICK i : i = user.id
    OBVIOUS
  <2>5. Excused(i) => Excused(i)'
    BY ExcusedStays
  <2>6. user' = user /\ stored' = stored
    BY <1>4
  <2> QED
    BY <2>2, <2>3, <2>4, <2>5, <2>6 DEF BoxAgrees
<1>20. ImagesAgree'
  BY <1>1, <1>12, <1>13 DEF ImagesAgree
<1> QED
  BY <1>9, <1>14, <1>15, <1>16, <1>18, <1>19, <1>20 DEF Calm

\* With nothing under way but records, what clearData leaves of the box was the document's.
LEMMA ClearedImages ==
  ASSUME IInv, Next, Calm, userBox' = deleteKeys(Box),
         ~LoginReads, ~EditReads, ~PasswordReads, ~EditSent,
         \A i \in Id : \/ stored'[i] = stored[i] \/ Excused(i)' \/ Deleted(i)'
  PROVE  BoxAgrees' /\ ImagesAgree'
<1>1. /\ Last(userBox') = [user |-> None, data |-> None]
      /\ \A n \in 1 .. Len(userBox') : userBox'[n] = Last(userBox) \/ userBox'[n].user = None
  BY BothDeleted DEF IInv
<1>2. BoxAgrees'
  BY <1>1 DEF BoxAgrees
<1>3. PICK box : box = Last(userBox)
  OBVIOUS
<1>4. ASSUME box.user # None
      PROVE  \/ Shared(box.user.id)' \/ Deleted(box.user.id)'
             \/ box.data = box.user.course /\ stored'[box.user.id] = Document(box.user)
  <2>1. box \in Image
    BY <1>3, BoxIs DEF IInv
  <2>2. PICK u \in Member : u = box.user
    BY <1>4, <2>1 DEF Image
  <2>3. PICK i \in Id : i = u.id
    BY DEF Member
  <2>4. \/ Excused(i)
        \/ /\ box.data = u.course
           /\ stored[i] # None
           /\ stored[i].pw = u.pw
           /\ stored[i].course = u.course
    BY <1>3, <1>4, <2>2, <2>3 DEF Calm, BoxAgrees
  <2>5. stored[i] # None => stored[i] \in Filled
    BY StoredIs DEF IInv
  <2>6. Excused(i) \/ (box.data = u.course /\ stored[i] = Document(u))
    BY <2>4, <2>5 DEF Filled, Document
  <2>7. Excused(i) => Excused(i)'
    BY ExcusedStays
  <2>8. Excused(i)' => Shared(i)' \/ Deleted(i)'
    BY DEF Excused
  <2>9. Shared(i)' \/ Deleted(i)' \/ (box.data = u.course /\ stored'[i] = Document(u))
    BY <2>6, <2>7, <2>8
  <2> QED
    BY <2>2, <2>3, <2>9
<1>5. ImagesAgree'
  BY <1>1, <1>3, <1>4 DEF ImagesAgree
<1> QED
  BY <1>2, <1>5

LEMMA LogoutCalm ==
  ASSUME IInv, Next, Calm, Clean', Logout
  PROVE  Calm'
<1>1. /\ userBox' = deleteKeys(Box) /\ user' = None /\ screen' = "auth"
      /\ UNCHANGED <<calls, sent, stored, ids>>
  BY DEF Logout, clearData, cloud, made
<1>2. /\ calls = {} /\ NoneAwaited
      /\ ~LoginReads /\ ~EditReads /\ ~PasswordReads /\ ~EditSent
      /\ \A n \in 1 .. Len(sent) : sent[n].kind \in {"orphan", "record"}
  BY Overlap DEF Logout, Calm, Control
<1>3. Control'
  BY <1>1, <1>2 DEF Calm, Control, OneHandler, NoneAwaited, InPlace
<1>4. Carried'
  BY <1>1, <1>2 DEF Carried
<1>5. Boxed'
  <2>1. Last(userBox').user = None
    BY <1>1, BothDeleted DEF IInv
  <2> QED
    BY <1>1, <1>2, <2>1 DEF Boxed, InSession, LoginReads
<1>6. Ordered'
  BY <1>1, <1>2 DEF Ordered, PasswordReads, EditReads
<1>7. Steady'
  <2>1. OldQueue /\ Kept
    BY <1>1, QueueKept, StillKept DEF IInv
  <2> QED
    BY <2>1, SteadyKept DEF Calm
<1>8. BoxAgrees' /\ ImagesAgree'
  BY <1>1, <1>2, ClearedImages
<1> QED
  BY <1>3, <1>4, <1>5, <1>6, <1>7, <1>8 DEF Calm

-----------------------------------------------------------------------------
(* The start of the app, and its end.                                      *)

LEMMA RestoreCalm ==
  ASSUME IInv, Next, Calm, Restore
  PROVE  Calm'
<1>1. /\ user' = Last(userBox).user
      /\ screen' = IF Last(userBox).user = None THEN "auth"
                   ELSE IF Last(userBox).data = None THEN "stuck" ELSE "main"
      /\ UNCHANGED <<userBox, calls, sent, stored, ids>>
  BY DEF Restore, cloud, made
<1>2. calls = {} /\ \A n \in 1 .. Len(sent) : sent[n].kind = "orphan"
  BY DEF Restore, IInv, Sessions
<1>3. Control'
  BY <1>1, <1>2 DEF Calm, Control, OneHandler, NoneAwaited, Awaited, InPlace
<1>4. Carried'
  BY <1>1, <1>2 DEF Carried
<1>5. Boxed'
  BY <1>1, <1>2 DEF Boxed, InSession, LoginReads
<1>6. Ordered'
  BY <1>1, <1>2 DEF Ordered, PasswordReads, EditReads
<1>7. OldQueue /\ Kept
  BY <1>1, QueueKept, StillKept DEF IInv
<1>8. GoesOn
  BY <1>1, <1>2 DEF GoesOn, LoginReads, PasswordReads, EditReads, EditSent
<1> QED
  BY <1>1, <1>3, <1>4, <1>5, <1>6, <1>7, <1>8, SteadyKept, BoxKept, ImagesKept DEF Calm

LEMMA KillCalm ==
  ASSUME IInv, Next, Calm, Clean', Kill
  PROVE  Calm'
<1>1. PICK n \in 1 .. Len(userBox) :
        /\ userBox' = <<userBox[n]>>
        /\ Handlers \/ (n < Len(userBox) /\ Last(userBox).user # None) => Cut'
        /\ n < Len(userBox) /\ Last(userBox).user = None => Out'
  BY DEF Kill, Note, Cut, Out, Happened
<1>2. PICK k \in 0 .. Len(sent) : sent' = Orphans(sent, k)
  BY DEF Kill, Orphans
<1>3. calls' = {} /\ screen' = "splash" /\ UNCHANGED <<stored, ids>>
  BY DEF Kill, made
<1>4. /\ calls = {} /\ NoneAwaited
      /\ ~LoginReads /\ ~EditReads /\ ~PasswordReads /\ ~EditSent
      /\ \A m \in 1 .. Len(sent) : sent[m].kind \in {"orphan", "record"}
  BY <1>1, Idle DEF Clean, Calm, Control
<1>5. /\ Len(sent') = k
      /\ \A m \in 1 .. Len(sent') : /\ m \in 1 .. Len(sent) /\ sent[m] \in GoodWrite
                                    /\ sent'[m] = [sent[m] EXCEPT !.kind = "orphan", !.here = FALSE]
  <2>1. sent \in Seq(GoodWrite) /\ \A m \in 1 .. Len(sent) : sent[m] \in GoodWrite
    BY Facts DEF IInv, Types
  <2> QED
    BY <1>2, <2>1, OrphanQueue
<1>6. \A w \in GoodWrite :
        /\ [w EXCEPT !.kind = "orphan", !.here = FALSE].op = w.op
        /\ [w EXCEPT !.kind = "orphan", !.here = FALSE].id = w.id
        /\ [w EXCEPT !.kind = "orphan", !.here = FALSE].doc = w.doc
        /\ [w EXCEPT !.kind = "orphan", !.here = FALSE].kind = "orphan"
  BY DEF GoodWrite
<1>7. \A m \in 1 .. Len(sent') :
        /\ m \in 1 .. Len(sent)
        /\ sent'[m].op = sent[m].op /\ sent'[m].id = sent[m].id /\ sent'[m].doc = sent[m].doc
        /\ sent'[m].kind = "orphan"
  BY <1>5, <1>6
<1>8. \A m \in 1 .. Len(sent) : sent[m].op = "update" /\ sent[m].id <= ids
  BY <1>4, Facts DEF GoodWrite, Calm, Control, InPlace
<1>9. Control'
  BY <1>3, <1>7, <1>8 DEF Control, OneHandler, NoneAwaited, Awaited, InPlace
<1>10. Carried'
  BY <1>3, <1>7 DEF Carried
<1>11. Boxed'
  BY <1>3 DEF Boxed, InSession, LoginReads
<1>12. Ordered'
  BY <1>3, <1>7 DEF Ordered, PasswordReads, EditReads
<1>13. Steady'
  <2> SUFFICES ASSUME NEW i \in Id, ~Excused(i)', stored'[i] # None,
                      NEW m \in 1 .. Len(sent'), sent'[m].op = "update", sent'[m].id = i
               PROVE  sent'[m].doc = stored'[i]
    BY DEF Steady, Updates
  <2>1. ~Excused(i)
    BY ExcusedStays
  <2> QED
    BY <1>3, <1>4, <1>7, <2>1 DEF Calm, Steady, Updates
<1>14. Last(userBox') = userBox[n] /\ userBox[n] \in Image /\ Len(userBox') = 1 /\ userBox'[1] = userBox[n]
  BY <1>1 DEF Last, IInv, Types
<1>15. BoxAgrees'
  <2>1. CASE userBox[n].user = None
    BY <1>14, <2>1 DEF BoxAgrees
  <2>2. CASE userBox[n].user # None
    <3>1. PICK box : box = userBox[n]
      OBVIOUS
    <3>2. PICK u \in Member : u = box.user
      BY <1>14, <2>2, <3>1 DEF Image
    <3>3. PICK i \in Id : i = u.id
      BY DEF Member
    <3>4. \/ Excused(i)'
          \/ /\ box.data = u.course /\ stored[i] # None
             /\ stored[i].pw = u.pw /\ stored[i].course = u.course
      <4>1. CASE n = Len(userBox)
        <5>1. box = Last(userBox)
          BY <3>1, <4>1 DEF Last
        <5>2. \/ Excused(i)
              \/ /\ box.data = u.course /\ stored[i] # None
                 /\ stored[i].pw = u.pw /\ stored[i].course = u.course
          BY <1>4, <2>2, <3>1, <3>2, <3>3, <5>1 DEF Calm, BoxAgrees
        <5> QED
          BY <5>2, ExcusedStays
      <4>2. CASE n # Len(userBox)
        <5>1. Len(userBox) \in Nat
          BY DEF IInv, Types
        <5>2. n < Len(userBox)
          BY <4>2, <5>1
        <5>3. Last(userBox).user = None /\ Out'
          BY <1>1, <5>2 DEF Clean
        <5>4. Shared(i) \/ Deleted(i) \/ (box.data = u.course /\ stored[i] = Document(u))
          BY <2>2, <3>1, <3>2, <3>3, <5>3 DEF Calm, ImagesAgree
        <5>5. Shared(i) \/ Deleted(i) => Excused(i)'
          BY <5>3, ExcusedStays DEF Excused
        <5>6. Document(u) \in Filled /\ Document(u).pw = u.pw /\ Document(u).course = u.course
          BY DEF Member, Filled, Document
        <5>7. Document(u) # None
          BY <5>6, NoneApart
        <5> QED
          BY <5>4, <5>5, <5>6, <5>7
      <4> QED
        BY <4>1, <4>2
    <3>5. box = Last(userBox') /\ stored' = stored
      BY <1>3, <1>14, <3>1
    <3> QED
      BY <3>2, <3>3, <3>4, <3>5 DEF BoxAgrees
  <2> QED
    BY <2>1, <2>2
<1>16. ImagesAgree'
  BY <1>14 DEF ImagesAgree
<1> QED
  BY <1>9, <1>10, <1>11, <1>12, <1>13, <1>15, <1>16 DEF Calm

-----------------------------------------------------------------------------
(* What is answered.                                                       *)

\* Whoever waits for an answer is alone.
LEMMA Alone ==
  ASSUME Control, NEW c \in calls
  PROVE  /\ calls = {c} /\ NoneAwaited /\ ~EditSent
         /\ c.at = "courses" \/ (~LoginReads /\ ~EditReads)
         /\ c.at = "read" \/ ~PasswordReads
         /\ Answered(c) => calls' = {}
<1>1. calls = {c} /\ NoneAwaited
  BY DEF Control, OneHandler
<1> QED
  BY <1>1 DEF NoneAwaited, Awaited, EditSent, LoginReads, EditReads, PasswordReads, Answered

\* An answer that changes nothing.
LEMMA NothingCalm ==
  ASSUME IInv, Next, Calm, NEW c \in calls, c.at \in {"lookup", "user"}, Answered(c),
         UNCHANGED <<screen, user, userBox, sent, stored, ids>>
  PROVE  Calm'
<1>1. Control
  BY DEF Calm
<1>2. /\ NoneAwaited /\ ~EditSent /\ ~LoginReads /\ ~EditReads /\ ~PasswordReads
      /\ calls' = {}
  BY <1>1, Alone
<1>3. Control'
  BY <1>1, <1>2 DEF Control, OneHandler, InPlace, InSession, NoneAwaited
<1>4. OldQueue /\ Kept
  BY QueueKept, StillKept DEF IInv
<1>5. GoesOn /\ \A e \in calls' : Kin(e)
  BY <1>2 DEF GoesOn
<1> QED
  BY <1>3, <1>4, <1>5, CalmKept DEF InSession

LEMMA BornCalm ==
  ASSUME IInv, Next, Calm, NEW c \in calls, LookedUp(c), screen' = "fill", ids' = ids + 1,
         user' = [id |-> ids + 1, pw |-> <<c.word, 0>>, course |-> None], c.here
  PROVE  Calm'
<1>1. Control /\ OneHandler /\ InPlace
  BY DEF Calm, Control
<1>2. /\ NoneAwaited /\ ~EditSent /\ ~LoginReads /\ ~EditReads /\ ~PasswordReads
      /\ calls' = {}
  BY <1>1, Alone DEF LookedUp
<1>3. UNCHANGED <<userBox, sent, stored>>
  BY DEF LookedUp, cloud
<1>4. screen = "auth"
  <2>1. c.kind = "signup"
    BY Facts, CallShape DEF LookedUp, SignUpCall
  <2> QED
    BY <2>1 DEF IInv, Mounted, ScreenOf
<1>5. ids \in Nat /\ \A n \in 1 .. Len(sent) : sent[n].id \in Nat /\ sent[n].id <= ids
  <2>1. \A n \in 1 .. Len(sent) : sent[n].id \in Nat
    BY Facts DEF GoodWrite, Id
  <2> QED
    BY <1>1, <2>1, IdsNat DEF InPlace
<1>6. Control'
  <2>1. OneHandler'
    BY <1>2, <1>3 DEF OneHandler, NoneAwaited
  <2>2. \A n \in 1 .. Len(sent) : sent[n].kind \notin {"fill", "change", "edit", "delete"}
    BY <1>1, <1>2, <1>4 DEF NoneAwaited, Awaited, InPlace, InSession
  <2>3. InPlace'
    BY <1>1, <1>2, <1>3, <1>5, <2>2 DEF InPlace
  <2> QED
    BY <2>1, <2>3 DEF Control
<1>7. Carried'
  BY <1>2, <1>3 DEF Carried, EditSent
<1>8. Boxed'
  BY <1>2, <1>3, <1>4 DEF Calm, Boxed, InSession, LoginReads
<1>9. Ordered'
  <2>1. user'.id = ids + 1
    OBVIOUS
  <2>2. \A n \in 1 .. Len(sent') : sent'[n].id # user'.id
    BY <1>3, <1>5, <2>1
  <2> QED
    BY <1>2, <1>3, <2>2 DEF Calm, Ordered, Updates, PasswordReads, EditReads, NoneAwaited, Awaited
<1>10. OldQueue /\ Kept
  BY <1>3, QueueKept, StillKept DEF IInv
<1>11. GoesOn
  BY <1>2 DEF GoesOn
<1> QED
  BY <1>3, <1>6, <1>7, <1>8, <1>9, <1>10, <1>11, SteadyKept, BoxKept, ImagesKept DEF Calm

LEMMA LookCalm ==
  ASSUME IInv, Next, Calm, NEW c \in calls, LookedUp(c)
  PROVE  Calm'
<1>1. c.at = "lookup" /\ Answered(c) /\ UNCHANGED <<userBox, sent, stored>>
  BY DEF LookedUp, cloud
<1>2. CASE UNCHANGED <<screen, user, made>>
  BY <1>1, <1>2, NothingCalm DEF made
<1>3. CASE ~UNCHANGED <<screen, user, made>>
  <2>1. /\ screen' = "fill" /\ ids' = ids + 1 /\ c.here
        /\ user' = [id |-> ids + 1, pw |-> <<c.word, 0>>, course |-> None]
    BY <1>3 DEF LookedUp
  <2> QED
    BY <2>1, BornCalm
<1> QED
  BY <1>2, <1>3

LEMMA LoginCalm ==
  ASSUME IInv, Next, Calm, NEW c \in calls, UserRead(c)
  PROVE  Calm'
<1>1. Control /\ OneHandler /\ InPlace
  BY DEF Calm, Control
<1>2. c.at = "user" /\ UNCHANGED <<screen, sent, stored, ids>>
  BY DEF UserRead, cloud, made
<1>3. CASE Answered(c) /\ UNCHANGED <<user, userBox>>
  BY <1>2, <1>3, NothingCalm
<1>4. ASSUME NEW i \in Having(c.address),
             userBox' = saveUser(Box, UserOf(i, stored[i])),
             user' = UserOf(i, stored[i]),
             calls' = (calls \ {c}) \cup
               {[kind |-> "login", at |-> "courses", course |-> stored[i].course, here |-> c.here]}
      PROVE  Calm'
  <2>1. i \in Id /\ stored[i] # None /\ stored[i] \in Filled
    BY StoredIs DEF Having, IInv
  <2>2. PICK u \in Member : u = UserOf(i, stored[i])
    BY <2>1, UserOfIs
  <2>3. u.id = i /\ u.pw = stored[i].pw /\ u.course = stored[i].course
    BY <2>1, <2>2, UserOfIs
  <2>4. PICK e : e = [kind |-> "login", at |-> "courses", course |-> stored[i].course, here |-> c.here]
    OBVIOUS
  <2>5. c.kind = "login" /\ c.here /\ screen = "auth"
    <3>1. c.kind = "login"
      BY <1>2, Facts, CallShape DEF LoginCall
    <3> QED
      BY <1>1, <3>1 DEF InPlace, IInv, Mounted, ScreenOf
  <2>6. /\ calls' = {e} /\ e.kind = "login" /\ e.at = "courses" /\ e.course = stored[i].course
        /\ e.here
    BY <1>1, <1>4, <2>4, <2>5, Alone
  <2>7. NoneAwaited /\ ~EditSent
    BY <1>1, Alone
  <2>8. user' = u /\ userBox' = saveUser(Box, u)
    BY <1>4, <2>2
  <2>9. Last(userBox') = [user |-> u, data |-> Last(userBox).data] /\ u # None
    BY <2>8, UserSaved, NoneApart DEF IInv
  <2>10. \A n \in 1 .. Len(sent) : sent[n].kind \notin {"fill", "change", "edit", "delete"}
    BY <1>1, <2>5, <2>7 DEF NoneAwaited, Awaited, InPlace, InSession
  <2>11. Control'
    <3>1. OneHandler'
      BY <1>2, <2>6, <2>7 DEF OneHandler, NoneAwaited
    <3>2. InPlace'
      BY <1>1, <1>2, <2>6, <2>10 DEF InPlace
    <3> QED
      BY <3>1, <3>2 DEF Control
  <2>12. Carried'
    BY <1>2, <2>3, <2>6, <2>8, <2>10 DEF Carried
  <2>13. Boxed'
    BY <1>2, <2>5, <2>6, <2>8, <2>9 DEF Boxed, LoginReads
  <2>14. Ordered'
    BY <1>2, <2>5, <2>6, <2>10 DEF Ordered, PasswordReads, EditReads
  <2>15. Steady'
    <3>1. OldQueue /\ Kept
      BY <1>2, QueueKept, StillKept DEF IInv
    <3> QED
      BY <3>1, SteadyKept DEF Calm
  <2>16. BoxAgrees'
    <3>1. LoginReads' /\ stored' = stored
      BY <1>2, <2>6 DEF LoginReads
    <3>2. PICK box : box = Last(userBox')
      OBVIOUS
    <3>3. box.user = u
      BY <2>9, <3>2
    <3> QED
      BY <2>1, <2>3, <3>1, <3>2, <3>3 DEF BoxAgrees
  <2>17. ImagesAgree'
    BY <2>9 DEF ImagesAgree
  <2> QED
    BY <2>11, <2>12, <2>13, <2>14, <2>15, <2>16, <2>17 DEF Calm
<1> QED
  BY <1>3, <1>4 DEF UserRead

LEMMA CoursesCalm ==
  ASSUME IInv, Next, Calm, NEW c \in calls, CoursesRead(c)
  PROVE  Calm'
<1>1. Control /\ OneHandler /\ InPlace
  BY DEF Calm, Control
<1>2. /\ c.at = "courses" /\ userBox' = saveCourseData(Box, c.course)
      /\ UNCHANGED <<user, stored, ids>> /\ Show("main", c.here)
      /\ sent' = sent \/ sent' = UnmountedWrites(sent)
  BY DEF CoursesRead, made
<1>a. /\ Len(sent') = Len(sent)
      /\ \A n \in 1 .. Len(sent) :
           /\ sent'[n].kind = sent[n].kind /\ sent'[n].op = sent[n].op /\ sent'[n].id = sent[n].id
           /\ sent'[n].doc = sent[n].doc
  BY <1>2, QueueLeft DEF IInv, Types
<1>3. calls = {c} /\ NoneAwaited /\ ~EditSent /\ ~PasswordReads /\ calls' = {}
  BY <1>1, <1>2, Alone DEF CoursesRead
<1>4. c \in CourseCall /\ c.course \in Course /\ c.kind \in {"login", "edit"}
  BY <1>2, Facts, CallShape DEF CourseCall
<1>5. \/ c.kind = "login" /\ screen = "auth" /\ c.here /\ LoginReads
      \/ c.kind = "edit" /\ InSession /\ ~LoginReads
  BY <1>1, <1>2, <1>3, <1>4 DEF InPlace, IInv, Mounted, ScreenOf, LoginReads
<1>6. InSession'
  BY <1>2, <1>5 DEF Show, InSession
<1>7. user \in Member /\ user # None
  BY <1>2, <1>5, NoneApart DEF IInv, Sessions
<1>8. Last(userBox).user = user /\ c.course = user.course
  BY <1>2, <1>5 DEF Calm, Boxed, Carried
<1>9. Last(userBox') = [user |-> user, data |-> user.course]
  BY <1>2, <1>4, <1>8, DataSaved DEF IInv
<1>10. Control'
  <2>1. OneHandler'
    BY <1>a, <1>3 DEF OneHandler, NoneAwaited
  <2>2. InPlace'
    BY <1>a, <1>1, <1>2, <1>3, <1>6 DEF InPlace, NoneAwaited, Awaited
  <2> QED
    BY <2>1, <2>2 DEF Control
<1>11. Carried'
  BY <1>a, <1>3 DEF Carried, EditSent
<1>12. Boxed'
  BY <1>2, <1>6, <1>9 DEF Boxed, InSession
<1>13. Ordered'
  BY <1>a, <1>3, <1>6 DEF Ordered, Updates, PasswordReads, EditReads, NoneAwaited, Awaited, InSession
<1>14. Steady'
  <2>1. OldQueue /\ Kept
    BY <1>2, QueueKept, StillKept DEF IInv
  <2> QED
    BY <2>1, SteadyKept DEF Calm
<1>15. BoxAgrees'
  <2>1. PICK i \in Id : i = user.id
    BY <1>7 DEF Member
  <2>2. PICK old : old = Last(userBox)
    OBVIOUS
  <2>3. Excused(i) \/ (stored[i] # None /\ stored[i].pw = user.pw /\ stored[i].course = user.course)
    BY <1>3, <1>7, <1>8, <2>1, <2>2 DEF Calm, BoxAgrees
  <2>4. Excused(i) => Excused(i)'
    BY ExcusedStays
  <2>5. PICK box : box = Last(userBox')
    OBVIOUS
  <2>6. box.user = user /\ box.data = user.course
    BY <1>9, <2>5
  <2>7. stored' = stored /\ user' = user
    BY <1>2
  <2> QED
    BY <2>1, <2>3, <2>4, <2>5, <2>6, <2>7 DEF BoxAgrees
<1>16. ImagesAgree'
  BY <1>7, <1>9 DEF ImagesAgree
<1> QED
  BY <1>10, <1>11, <1>12, <1>13, <1>14, <1>15, <1>16 DEF Calm

LEMMA FailsCalm ==
  ASSUME IInv, Next, Calm, Clean', NEW c \in calls, QueryFails(c)
  PROVE  Calm'
<1>1. c.at \in {"lookup", "user"}
  BY DEF QueryFails, NoteIf, Note, Clean, Failed, Happened
<1> QED
  BY <1>1, NothingCalm DEF QueryFails, cloud, made

LEMMA ReadCalm ==
  ASSUME IInv, Next, Calm, NEW c \in calls, PasswordRead(c)
  PROVE  Calm'
<1>1. Control /\ OneHandler /\ InPlace
  BY DEF Calm, Control
<1>2. /\ c.at = "read" /\ stored[c.id] # None /\ Show("main", c.here)
      /\ userBox' = saveUser(Box, UserOf(c.id, stored[c.id]))
      /\ user' = UserOf(c.id, stored[c.id])
      /\ UNCHANGED <<sent, stored, ids>>
  BY DEF PasswordRead, cloud, made
<1>3. calls = {c} /\ NoneAwaited /\ ~EditSent /\ ~LoginReads /\ ~EditReads /\ calls' = {}
  BY <1>1, <1>2, Alone DEF PasswordRead
<1>4. c.kind = "change" /\ InSession
  BY <1>1, <1>2, Facts, CallShape DEF ReadCall, InPlace
<1>5. user \in Member /\ user # None /\ c.id = user.id
  BY <1>2, <1>4, NoneApart DEF IInv, Sessions, Calm, Carried
<1>6. PICK i \in Id : i = user.id
  BY <1>5 DEF Member
<1>7. stored[i] \in Filled
  BY <1>2, <1>5, <1>6, StoredIs DEF IInv
<1>8. PICK u \in Member : u = UserOf(i, stored[i])
  BY <1>7, UserOfIs
<1>9. u.id = i /\ u.pw = stored[i].pw /\ u.course = stored[i].course
  BY <1>7, <1>8, UserOfIs
<1>10. user' = u /\ userBox' = saveUser(Box, u)
  BY <1>2, <1>5, <1>6, <1>8
<1>11. Last(userBox') = [user |-> u, data |-> Last(userBox).data] /\ u # None
  BY <1>10, UserSaved, NoneApart DEF IInv
<1>12. InSession'
  BY <1>2, <1>4 DEF Show, InSession
<1>13. Control'
  <2>1. OneHandler'
    BY <1>2, <1>3 DEF OneHandler, NoneAwaited
  <2>2. user'.id = user.id
    BY <1>6, <1>9, <1>10
  <2>3. InPlace'
    BY <1>1, <1>2, <1>3, <1>12, <2>2 DEF InPlace, NoneAwaited, Awaited
  <2> QED
    BY <2>1, <2>3 DEF Control
<1>14. Carried'
  BY <1>2, <1>3 DEF Carried, EditSent
<1>15. Boxed'
  BY <1>10, <1>11, <1>12 DEF Boxed, InSession
<1>16. Ordered'
  BY <1>2, <1>3, <1>12 DEF Ordered, PasswordReads, EditReads, NoneAwaited, Awaited, InSession
<1>17. Steady'
  <2>1. OldQueue /\ Kept
    BY <1>2, QueueKept, StillKept DEF IInv
  <2> QED
    BY <2>1, SteadyKept DEF Calm
<1>18. BoxAgrees'
  <2>1. PICK old : old = Last(userBox)
    OBVIOUS
  <2>2. old.user = user
    BY <1>4, <2>1 DEF Calm, Boxed
  <2>3. Excused(i) \/ (old.data = user.course /\ stored[i].course = user.course)
    BY <1>3, <1>5, <1>6, <2>1, <2>2 DEF Calm, BoxAgrees
  <2>4. Excused(i) => Excused(i)'
    BY ExcusedStays
  <2>5. PICK box : box = Last(userBox')
    OBVIOUS
  <2>6. box.user = u /\ box.data = old.data
    BY <1>11, <2>1, <2>5
  <2>7. stored' = stored /\ stored[i] # None
    BY <1>2, <1>7, NoneApart
  <2> QED
    BY <1>9, <2>3, <2>4, <2>5, <2>6, <2>7 DEF BoxAgrees
<1>19. ImagesAgree'
  BY <1>11 DEF ImagesAgree
<1> QED
  BY <1>13, <1>14, <1>15, <1>16, <1>17, <1>18, <1>19 DEF Calm

LEMMA ClearedCalm ==
  ASSUME IInv, Next, Calm, Numbered, NEW c \in calls, Cleared(c)
  PROVE  Calm'
<1>1. Control /\ OneHandler /\ InPlace
  BY DEF Calm, Control
<1>2. c.at = "clear" /\ c \in ClearCall /\ c.kind = "edit" /\ InSession
  BY <1>1, Facts, CallShape DEF Cleared, ClearCall, InPlace
<1>3. PICK u \in Member : u = c.user
  BY <1>2 DEF ClearCall
<1>4. PICK w : w = [op |-> "update", id |-> u.id, doc |-> Document(u), kind |-> "edit", here |-> c.here]
  OBVIOUS
<1>5. /\ w \in GoodWrite /\ w.kind = "edit" /\ w.op = "update" /\ w.id = u.id
      /\ w.doc = Document(u)
  BY <1>2, <1>3, <1>4 DEF GoodWrite, Member, Filled, Document, ClearCall
<1>6. /\ user' = u /\ userBox' = saveUser(Box, u) /\ sent' = Append(sent, w) /\ Answered(c)
      /\ UNCHANGED <<screen, stored, ids>>
  BY <1>3, <1>4 DEF Cleared, Send, made
<1>7. /\ calls = {c} /\ NoneAwaited /\ ~EditSent /\ ~LoginReads /\ ~EditReads /\ ~PasswordReads
      /\ calls' = {}
  BY <1>1, <1>2, <1>6, Alone
<1>8. /\ Len(sent) \in Nat /\ Len(sent') = Len(sent) + 1
      /\ \A n \in 1 .. Len(sent) : sent'[n] = sent[n]
      /\ sent'[Len(sent) + 1] = w
  BY <1>5, <1>6, SentOne DEF IInv, Types
<1>9. \A n \in 1 .. Len(sent') : n \in 1 .. Len(sent) \/ n = Len(sent) + 1
  BY <1>8
<1>10. user \in Member /\ user # None /\ u.id = user.id /\ u.pw = user.pw
  BY <1>2, <1>3, NoneApart DEF IInv, Sessions, Calm, Carried
<1>11. PICK i \in Id : i = user.id
  BY <1>10 DEF Member
<1>12. Last(userBox') = [user |-> u, data |-> Last(userBox).data] /\ u # None
  BY <1>6, UserSaved, NoneApart DEF IInv
<1>13. InSession'
  BY <1>2, <1>6 DEF InSession
<1>14. Control'
  <2>1. UserIs(i)
    BY <1>10, <1>11 DEF UserIs
  <2>2. i <= ids
    BY <2>1 DEF Numbered, Given
  <2>3. SoundWrite(w)
    BY <1>5, <1>6, <1>10, <1>11, <1>13, <2>2 DEF SoundWrite
  <2>4. user'.id = user.id
    BY <1>6, <1>10
  <2> QED
    BY <1>1, <1>5, <1>6, <1>7, <1>13, <2>3, <2>4, ControlSend
<1>15. Carried'
  <2>1. ASSUME NEW n \in 1 .. Len(sent'), sent'[n].kind = "edit" PROVE sent'[n].doc = Document(user')
    <3>1. n = Len(sent) + 1
      BY <1>7, <1>8, <1>9, <2>1 DEF EditSent
    <3> QED
      BY <1>5, <1>6, <1>8, <3>1
  <2> QED
    BY <1>7, <2>1 DEF Carried, Document
<1>16. Boxed'
  BY <1>6, <1>12, <1>13 DEF Boxed, InSession
<1>17. Ordered'
  <2>1. \A n \in 1 .. Len(sent') : sent'[n].kind \in {"change", "edit"} => n = Len(sent) + 1
    BY <1>7, <1>8, <1>9 DEF NoneAwaited, Awaited
  <2>2. \A n, m \in 1 .. Len(sent') : n < m => n # Len(sent) + 1
    BY <1>8
  <2> QED
    BY <1>7, <1>13, <2>1, <2>2 DEF Ordered, PasswordReads, EditReads, InSession
<1>18. Steady'
  <2> SUFFICES ASSUME NEW j \in Id, ~Excused(j)', stored'[j] # None,
                      NEW n \in 1 .. Len(sent'), sent'[n].op = "update", sent'[n].id = j,
                      sent'[n].kind # "edit"
               PROVE  sent'[n].doc = stored'[j]
    BY DEF Steady, Updates
  <2>1. ~Excused(j)
    BY ExcusedStays
  <2>2. n \in 1 .. Len(sent)
    BY <1>5, <1>8, <1>9
  <2> QED
    BY <1>6, <1>8, <2>1, <2>2 DEF Calm, Steady, Updates
<1>19. BoxAgrees'
  <2>1. PICK old : old = Last(userBox)
    OBVIOUS
  <2>2. old.user = user
    BY <1>2, <2>1 DEF Calm, Boxed
  <2>3. Excused(i) \/ (stored[i] # None /\ stored[i].pw = user.pw)
    BY <1>7, <1>10, <1>11, <2>1, <2>2 DEF Calm, BoxAgrees
  <2>4. Excused(i) => Excused(i)'
    BY ExcusedStays
  <2>5. EditSent'
    <3>1. Len(sent) + 1 \in 1 .. Len(sent') /\ sent'[Len(sent) + 1].kind = "edit"
      BY <1>5, <1>8
    <3> QED
      BY <3>1 DEF EditSent
  <2>6. PICK box : box = Last(userBox')
    OBVIOUS
  <2>7. box.user = u
    BY <1>12, <2>6
  <2>8. stored' = stored
    BY <1>6
  <2> QED
    BY <1>10, <1>11, <2>3, <2>4, <2>5, <2>6, <2>7, <2>8 DEF BoxAgrees
<1>20. ImagesAgree'
  BY <1>12 DEF ImagesAgree
<1> QED
  BY <1>14, <1>15, <1>16, <1>17, <1>18, <1>19, <1>20 DEF Calm

LEMMA AnswerCalm ==
  ASSUME IInv, Next, Calm, Numbered, Clean', Answer
  PROVE  Calm'
<1>1. PICK c \in calls : \/ LookedUp(c) \/ UserRead(c) \/ CoursesRead(c)
                         \/ QueryFails(c) \/ PasswordRead(c) \/ Cleared(c)
  BY DEF Answer
<1> QED
  BY <1>1, LookCalm, LoginCalm, CoursesCalm, FailsCalm, ReadCalm, ClearedCalm

-----------------------------------------------------------------------------
(* What is applied or refused, and the other device.                       *)

\* What a handler waits for is waited for alone.
LEMMA AwaitedFront ==
  ASSUME IInv, Control, sent # <<>>, Head(sent).kind \in Awaited, sent' = Tail(sent)
  PROVE  /\ calls = {} /\ ~LoginReads /\ ~EditReads /\ ~PasswordReads
         /\ \A n \in 1 .. Len(sent') : sent'[n].kind \notin Awaited
         /\ ~EditSent' /\ (Head(sent).kind # "edit" => ~EditSent)
         /\ Remains
<1>1. /\ Head(sent) = sent[1] /\ 1 \in 1 .. Len(sent) /\ Len(sent) \in Nat /\ Len(sent') = Len(sent) - 1
      /\ \A n \in 1 .. Len(sent') : sent'[n] = sent[n + 1] /\ n + 1 \in 1 .. Len(sent)
  BY FrontOf DEF IInv, Types
<1>2. calls = {}
  BY <1>1 DEF Control, OneHandler, NoneAwaited
<1>3. \A n \in 1 .. Len(sent) : sent[n].kind \in Awaited => n = 1
  BY <1>1 DEF Control, OneHandler
<1>4. \A n \in 1 .. Len(sent') : n + 1 # 1
  BY <1>1
<1>5. \A n \in 1 .. Len(sent') : sent'[n].kind \notin Awaited
  BY <1>1, <1>3, <1>4
<1>6. Head(sent).kind # "edit" => ~EditSent
  BY <1>1, <1>3 DEF EditSent, Awaited
<1>7. Remains
  BY RemainsIf DEF IInv
<1> QED
  BY <1>2, <1>5, <1>6, <1>7 DEF LoginReads, EditReads, PasswordReads, EditSent, Awaited

\* Nothing is recorded after it.
LEMMA NothingAfter ==
  ASSUME IInv, Ordered, sent # <<>>, Head(sent).kind \in {"change", "edit"}, sent' = Tail(sent)
  PROVE  \A n \in 1 .. Len(sent') : ~(sent'[n].op = "update" /\ sent'[n].id = Head(sent).id)
<1>1. /\ Head(sent) = sent[1] /\ 1 \in 1 .. Len(sent) /\ Len(sent) \in Nat /\ Len(sent') = Len(sent) - 1
      /\ \A n \in 1 .. Len(sent') : sent'[n] = sent[n + 1] /\ n + 1 \in 1 .. Len(sent)
  BY FrontOf DEF IInv, Types
<1>2. \A n \in 1 .. Len(sent') : 1 < n + 1
  BY <1>1
<1> QED
  BY <1>1, <1>2 DEF Ordered, Updates

\* The front of the queue.
LEMMA FrontIs ==
  ASSUME IInv, sent # <<>>
  PROVE  /\ Head(sent) \in GoodWrite /\ Head(sent) = sent[1] /\ 1 \in 1 .. Len(sent)
         /\ Head(sent).id \in Id /\ Head(sent).doc \in Filled
         /\ \A n \in 1 .. Len(Tail(sent)) : Tail(sent)[n] = sent[n + 1] /\ n + 1 \in 1 .. Len(sent)
         /\ Len(sent) \in Nat /\ Len(Tail(sent)) = Len(sent) - 1
BY FrontOf DEF IInv, Types, GoodWrite

LEMMA ProfileCalm ==
  ASSUME IInv, Next, Calm, ProfileStored
  PROVE  Calm'
<1>1. PICK w \in GoodWrite : w = Head(sent) /\ w.kind = "fill" /\ w.id \in Id /\ w.doc \in Filled
  BY FrontIs DEF ProfileStored
<1>2. PICK u \in Member : u = UserOf(w.id, w.doc)
  BY <1>1, UserOfIs
<1>3. u.id = w.id /\ u.pw = w.doc.pw /\ u.course = w.doc.course /\ u.course \in Course /\ u # None
  BY <1>1, <1>2, UserOfIs, NoneApart DEF Member
<1>4. /\ sent # <<>> /\ sent' = Tail(sent) /\ stored' = [stored EXCEPT ![w.id] = w.doc]
      /\ userBox' = saveCourseData(saveUser(Box, u), u.course) /\ user' = u
      /\ Show("main", w.here) /\ UNCHANGED <<calls, ids>>
  BY <1>1, <1>2 DEF ProfileStored, made
<1>5. Control /\ OneHandler /\ InPlace
  BY DEF Calm, Control
<1>6. /\ calls = {} /\ ~LoginReads /\ ~EditReads /\ ~PasswordReads /\ ~EditSent /\ ~EditSent'
      /\ (\A n \in 1 .. Len(sent') : sent'[n].kind \notin Awaited) /\ Remains
  BY <1>1, <1>4, <1>5, AwaitedFront DEF Awaited
<1>7. w.here /\ w.id = user.id /\ screen = "fill" /\ ~InSession
  BY <1>1, <1>4, <1>5, FrontIs DEF InPlace, IInv, Mounted, InSession
<1>8. InSession' /\ screen' = "main"
  BY <1>4, <1>7 DEF Show, InSession
<1>9. Last(userBox') = [user |-> u, data |-> u.course]
  BY <1>3, <1>4, BothSaved DEF IInv
<1>10. stored' \in [Id -> Filled \cup {None}] /\ stored'[w.id] = w.doc
       /\ \A i \in Id : i # w.id => stored'[i] = stored[i]
  BY <1>1, <1>4 DEF IInv, Types
<1>11. Control'
  BY <1>3, <1>4, <1>5, <1>6, <1>7, IdsNat, ControlCall
<1>12. Carried'
  BY <1>4, <1>6 DEF Carried, EditSent
<1>13. Boxed'
  BY <1>4, <1>8, <1>9 DEF Boxed
<1>14. Ordered'
  BY <1>4, <1>6, <1>8 DEF Ordered, PasswordReads, EditReads, Awaited
<1>15. Steady'
  <2> SUFFICES ASSUME NEW i \in Id, ~Excused(i)', stored'[i] # None,
                      NEW n \in 1 .. Len(sent'), sent'[n].op = "update", sent'[n].id = i,
                      sent'[n].kind # "edit"
               PROVE  sent'[n].doc = stored'[i]
    BY DEF Steady, Updates
  <2>1. ~Excused(i)
    BY ExcusedStays
  <2>2. PICK m \in 1 .. Len(sent) : sent'[n] = sent[m]
    BY <1>6, RemainsEach
  <2>3. i # w.id
    BY <1>7, <2>2 DEF Calm, Ordered, Updates
  <2> QED
    BY <1>10, <2>1, <2>2, <2>3 DEF Calm, Steady, Updates
<1>16. BoxAgrees'
  <2>1. PICK box : box = Last(userBox')
    OBVIOUS
  <2>2. box.user = u /\ box.data = u.course
    BY <1>9, <2>1
  <2>3. stored'[w.id] # None
    BY <1>1, <1>10, NoneApart
  <2> QED
    BY <1>3, <1>10, <2>1, <2>2, <2>3 DEF BoxAgrees
<1>17. ImagesAgree'
  BY <1>3, <1>9 DEF ImagesAgree
<1> QED
  BY <1>11, <1>12, <1>13, <1>14, <1>15, <1>16, <1>17 DEF Calm

\* A record stores what is stored already.
LEMMA RecordKept ==
  ASSUME IInv, Next, Calm, sent # <<>>, Applied(Head(sent)),
         Head(sent).op = "update", Head(sent).kind # "edit"
  PROVE  Kept
<1>1. PICK w \in GoodWrite : w = Head(sent) /\ w.id \in Id
  BY FrontIs
<1>2. stored[w.id] # None
  BY <1>1 DEF Applied
<1>3. /\ stored' \in [Id -> Filled \cup {None}]
      /\ \A i \in Id \ {w.id} : stored'[i] = stored[i]
      /\ stored'[w.id] = w.doc
  BY <1>1, AppliedIs DEF IInv
<1>4. Excused(w.id) \/ w.doc = stored[w.id]
  BY <1>1, <1>2, FrontIs DEF Calm, Steady, Updates
<1>5. Excused(w.id)' \/ w.doc = stored[w.id]
  BY <1>4, ExcusedStays
<1> QED
  BY <1>3, <1>5 DEF Kept

\* A write is applied or refused, and nobody here waited for it but for a button.
LEMMA FrontCalm ==
  ASSUME IInv, Next, Calm, sent # <<>>, sent' = Tail(sent), Head(sent).kind # "edit", Kept,
         UNCHANGED <<screen, user, userBox, calls, ids>>
  PROVE  Calm'
<1>1. Remains /\ OldQueue
  BY RemainsIf, QueueKept DEF IInv
<1>2. InSession' <=> InSession
  BY DEF InSession
<1>3. Control'
  BY <1>1, <1>2, ControlRemains DEF Calm
<1>4. EditSent => EditSent'
  BY EditStays DEF IInv
<1>5. GoesOn /\ \A c \in calls' : Kin(c)
  BY <1>4, CallsKept DEF GoesOn, Calm, Control
<1> QED
  BY <1>1, <1>2, <1>3, <1>5, CalmKept

LEMMA RecordStoredCalm ==
  ASSUME IInv, Next, Calm, RecordStored
  PROVE  Calm'
<1>1. /\ sent # <<>> /\ sent' = Tail(sent) /\ Head(sent).kind = "record" /\ Applied(Head(sent))
      /\ UNCHANGED <<screen, user, userBox, calls, ids>>
  BY DEF RecordStored, Front, local
<1>2. Head(sent).op = "update"
  BY <1>1, FrontIs DEF GoodWrite
<1>3. Kept
  BY <1>1, <1>2, RecordKept
<1> QED
  BY <1>1, <1>3, FrontCalm

LEMMA OrphanCalm ==
  ASSUME IInv, Next, Calm, OrphanApplied
  PROVE  Calm'
<1>1. /\ sent # <<>> /\ sent' = Tail(sent) /\ Head(sent).kind = "orphan" /\ Applied(Head(sent))
      /\ UNCHANGED <<screen, user, userBox, calls, ids>>
  BY DEF OrphanApplied, Front, local
<1>2. Head(sent).op = "update"
  BY <1>1, FrontIs DEF Calm, Control, InPlace
<1>3. Kept
  BY <1>1, <1>2, RecordKept
<1> QED
  BY <1>1, <1>3, FrontCalm

LEMMA RefusedCalm ==
  ASSUME IInv, Next, Calm, Clean', Refused
  PROVE  Calm'
<1>1. Head(sent).kind # "edit"
  BY DEF Refused, NoteIf, Note, Clean, Failed, Happened
<1>2. /\ sent # <<>> /\ sent' = Tail(sent)
      /\ UNCHANGED <<screen, user, userBox, calls, stored, ids>>
  BY <1>1 DEF Refused, made
<1> QED
  BY <1>1, <1>2, StillKept, FrontCalm

LEMMA PasswordStoredCalm ==
  ASSUME IInv, Next, Calm, PasswordStored
  PROVE  Calm'
<1>1. PICK w \in GoodWrite : w = Head(sent) /\ w.kind = "change" /\ w.id \in Id
  BY FrontIs DEF PasswordStored, Front
<1>2. PICK e : e = [kind |-> "change", at |-> "read", id |-> w.id, here |-> w.here]
  OBVIOUS
<1>3. /\ sent # <<>> /\ sent' = Tail(sent) /\ Applied(w) /\ calls' = calls \cup {e}
      /\ UNCHANGED <<screen, user, userBox, ids>>
  BY <1>1, <1>2 DEF PasswordStored, Call, Front
<1>4. w.op = "password"
  BY <1>1 DEF GoodWrite
<1>5. stored[w.id] \in Filled /\ stored[w.id] # None
  BY <1>1, <1>3, <1>4, StoredIs DEF Applied, IInv
<1>6. /\ stored' \in [Id -> Filled \cup {None}]
      /\ \A i \in Id \ {w.id} : stored'[i] = stored[i]
  BY <1>3, AppliedIs DEF IInv
<1>7. stored'[w.id] # None /\ stored'[w.id].course = stored[w.id].course
  <2>1. stored' = [stored EXCEPT ![w.id] = [@ EXCEPT !.pw = w.doc.pw]]
    BY <1>3, <1>4 DEF Applied
  <2>2. stored'[w.id] = [stored[w.id] EXCEPT !.pw = w.doc.pw]
    BY <1>1, <2>1 DEF IInv, Types
  <2>3. w.doc.pw \in Hashed
    BY DEF GoodWrite, Filled
  <2>4. stored'[w.id] \in Filled
    BY <1>5, <2>2, <2>3 DEF Filled
  <2> QED
    BY <1>5, <2>2, <2>4, NoneApart DEF Filled
<1>8. Control /\ OneHandler /\ InPlace
  BY DEF Calm, Control
<1>9. /\ calls = {} /\ ~LoginReads /\ ~EditReads /\ ~PasswordReads /\ ~EditSent /\ ~EditSent'
      /\ (\A n \in 1 .. Len(sent') : sent'[n].kind \notin Awaited) /\ Remains
  BY <1>1, <1>3, <1>8, AwaitedFront DEF Awaited
<1>10. InSession /\ w.id = user.id
  BY <1>1, <1>3, <1>8, FrontIs DEF InPlace
<1>11. InSession' /\ user \in Member /\ user # None
  BY <1>3, <1>10, NoneApart DEF InSession, IInv, Sessions
<1>12. calls' = {e} /\ e.at = "read" /\ e.kind = "change" /\ e.id = w.id
  BY <1>2, <1>3, <1>9
<1>13. Control'
  <2>1. SoundCall(e)
    BY <1>11, <1>12 DEF SoundCall
  <2>2. ids' \in Nat /\ ids \in Nat /\ ids <= ids'
    BY <1>3, IdsNat
  <2> QED
    BY <1>3, <1>8, <1>9, <1>11, <1>12, <2>1, <2>2, ControlCall
<1>14. Carried'
  BY <1>3, <1>9, <1>10, <1>12 DEF Carried, EditSent
<1>15. Boxed'
  BY <1>3, <1>10, <1>11 DEF Calm, Boxed, InSession
<1>16. \A n \in 1 .. Len(sent') : ~(sent'[n].op = "update" /\ sent'[n].id = w.id)
  BY <1>1, <1>3, NothingAfter DEF Calm
<1>17. Ordered'
  BY <1>3, <1>9, <1>10, <1>11, <1>16 DEF Ordered, Updates, Awaited, InSession
<1>18. Steady'
  <2> SUFFICES ASSUME NEW i \in Id, ~Excused(i)', stored'[i] # None,
                      NEW n \in 1 .. Len(sent'), sent'[n].op = "update", sent'[n].id = i,
                      sent'[n].kind # "edit"
               PROVE  sent'[n].doc = stored'[i]
    BY DEF Steady, Updates
  <2>1. ~Excused(i)
    BY ExcusedStays
  <2>2. PICK m \in 1 .. Len(sent) : sent'[n] = sent[m]
    BY <1>9, RemainsEach
  <2>3. i # w.id
    BY <1>16
  <2> QED
    BY <1>6, <2>1, <2>2, <2>3 DEF Calm, Steady, Updates
<1>19. BoxAgrees'
  <2>1. PICK box : box = Last(userBox)
    OBVIOUS
  <2>2. box.user = user /\ box = Last(userBox')
    BY <1>3, <1>10, <2>1 DEF Calm, Boxed
  <2>3. Excused(w.id) \/ (box.data = box.user.course /\ stored[w.id].course = box.user.course)
    BY <1>9, <1>10, <1>11, <2>1, <2>2 DEF Calm, BoxAgrees
  <2>4. Excused(w.id) => Excused(w.id)'
    BY ExcusedStays
  <2>5. PasswordReads'
    BY <1>12 DEF PasswordReads
  <2> QED
    BY <1>7, <1>10, <2>2, <2>3, <2>4, <2>5 DEF BoxAgrees
<1>20. ImagesAgree'
  BY <1>3, <1>10, <1>11 DEF ImagesAgree, Calm, Boxed
<1> QED
  BY <1>13, <1>14, <1>15, <1>17, <1>18, <1>19, <1>20 DEF Calm

LEMMA EditStoredCalm ==
  ASSUME IInv, Next, Calm, EditStored
  PROVE  Calm'
<1>1. PICK w \in GoodWrite : w = Head(sent) /\ w.kind = "edit" /\ w.id \in Id
  BY FrontIs DEF EditStored, Front
<1>2. PICK e : e = [kind |-> "edit", at |-> "courses", course |-> w.doc.course, here |-> w.here]
  OBVIOUS
<1>3. /\ sent # <<>> /\ sent' = Tail(sent) /\ Applied(w) /\ calls' = calls \cup {e}
      /\ UNCHANGED <<screen, user, userBox, ids>>
  BY <1>1, <1>2 DEF EditStored, Call, Front
<1>4. w.op = "update" /\ w.doc \in Filled
  BY <1>1 DEF GoodWrite
<1>5. /\ stored' \in [Id -> Filled \cup {None}]
      /\ \A i \in Id \ {w.id} : stored'[i] = stored[i]
      /\ stored'[w.id] = w.doc
  BY <1>3, <1>4, AppliedIs DEF IInv
<1>6. Control /\ OneHandler /\ InPlace
  BY DEF Calm, Control
<1>7. /\ calls = {} /\ ~LoginReads /\ ~EditReads /\ ~PasswordReads /\ ~EditSent'
      /\ (\A n \in 1 .. Len(sent') : sent'[n].kind \notin Awaited) /\ Remains
  BY <1>1, <1>3, <1>6, AwaitedFront DEF Awaited
<1>8. InSession /\ w.id = user.id /\ w.doc = Document(user)
  BY <1>1, <1>3, <1>6, FrontIs DEF InPlace, Calm, Carried
<1>9. InSession' /\ user \in Member /\ user # None
  BY <1>3, <1>8, NoneApart DEF InSession, IInv, Sessions
<1>10. w.doc.pw = user.pw /\ w.doc.course = user.course
  BY <1>8 DEF Document
<1>11. calls' = {e} /\ e.at = "courses" /\ e.kind = "edit" /\ e.course = user.course
  BY <1>2, <1>3, <1>7, <1>10
<1>12. Control'
  <2>1. SoundCall(e)
    BY <1>9, <1>11 DEF SoundCall
  <2>2. ids' \in Nat /\ ids \in Nat /\ ids <= ids'
    BY <1>3, IdsNat
  <2> QED
    BY <1>3, <1>6, <1>7, <1>9, <1>11, <2>1, <2>2, ControlCall
<1>13. Carried'
  BY <1>3, <1>7, <1>11 DEF Carried, EditSent
<1>14. Boxed'
  BY <1>3, <1>8, <1>9 DEF Calm, Boxed, InSession
<1>15. \A n \in 1 .. Len(sent') : ~(sent'[n].op = "update" /\ sent'[n].id = w.id)
  BY <1>1, <1>3, NothingAfter DEF Calm
<1>16. Ordered'
  BY <1>3, <1>7, <1>8, <1>9, <1>15 DEF Ordered, Updates, Awaited, InSession
<1>17. Steady'
  <2> SUFFICES ASSUME NEW i \in Id, ~Excused(i)', stored'[i] # None,
                      NEW n \in 1 .. Len(sent'), sent'[n].op = "update", sent'[n].id = i,
                      sent'[n].kind # "edit"
               PROVE  sent'[n].doc = stored'[i]
    BY DEF Steady, Updates
  <2>1. ~Excused(i)
    BY ExcusedStays
  <2>2. PICK m \in 1 .. Len(sent) : sent'[n] = sent[m]
    BY <1>7, RemainsEach
  <2>3. i # w.id
    BY <1>15
  <2> QED
    BY <1>5, <2>1, <2>2, <2>3 DEF Calm, Steady, Updates
<1>18. BoxAgrees'
  <2>1. PICK box : box = Last(userBox)
    OBVIOUS
  <2>2. box.user = user /\ box = Last(userBox')
    BY <1>3, <1>8, <2>1 DEF Calm, Boxed
  <2>3. EditReads'
    BY <1>11 DEF EditReads
  <2>4. stored'[w.id] # None
    BY <1>4, <1>5, NoneApart
  <2> QED
    BY <1>5, <1>8, <1>10, <2>2, <2>3, <2>4 DEF BoxAgrees
<1>19. ImagesAgree'
  BY <1>3, <1>8, <1>9 DEF ImagesAgree, Calm, Boxed
<1> QED
  BY <1>12, <1>13, <1>14, <1>16, <1>17, <1>18, <1>19 DEF Calm

LEMMA DeletedCalm ==
  ASSUME IInv, Next, Calm, Clean', AccountDeleted
  PROVE  Calm'
<1>1. PICK w \in GoodWrite : w = Head(sent) /\ w.kind = "delete" /\ w.id \in Id
  BY FrontIs DEF AccountDeleted, Front
<1>2. sent # <<>> /\ Applied(w) /\ w.op = "delete" /\ UNCHANGED ids
  BY <1>1 DEF AccountDeleted, Front, GoodWrite
<1>3. \A i \in Id \ {w.id} : stored'[i] = stored[i]
  BY <1>2, AppliedIs DEF IInv
<1>4. stored'[w.id] = None
  BY <1>2, AppliedIs DEF IInv
<1>5. Deleted(w.id)'
  BY <1>1 DEF AccountDeleted, Note, Deleted, Happened
<1>6. CASE w.here
  <2>1. calls = {} /\ Len(sent) <= 1
    BY <1>1, <1>6, Facts DEF AccountDeleted, Note, Clean, Left, Happened
  <2>2. /\ calls' = Unmounted(calls) /\ sent' = UnmountedWrites(Tail(sent))
        /\ userBox' = deleteKeys(Box) /\ user' = None /\ screen' = "auth"
    BY <1>1, <1>6 DEF AccountDeleted, clearData
  <2>3. calls' = {}
    BY <2>1, <2>2 DEF Unmounted
  <2>4. Len(sent') = 0
    <3>1. Tail(sent) \in Seq(GoodWrite) /\ Len(Tail(sent)) = Len(sent) - 1 /\ Len(sent) \in Nat
          /\ 1 \in 1 .. Len(sent)
      BY <1>2, FrontOf DEF IInv, Types
    <3>2. Len(Tail(sent)) = 0
      BY <2>1, <3>1
    <3> QED
      BY <2>2, <3>1, <3>2, LeftQueue
  <2>5. Control' /\ Carried' /\ Ordered' /\ Steady'
    BY <2>2, <2>3, <2>4 DEF Control, OneHandler, NoneAwaited, InPlace, Carried, Ordered, Steady,
                            PasswordReads, EditReads
  <2>6. Boxed'
    <3>1. Last(userBox').user = None
      BY <2>2, BothDeleted DEF IInv
    <3> QED
      BY <2>2, <2>3, <3>1 DEF Boxed, InSession, LoginReads
  <2>7. ~LoginReads /\ ~EditReads /\ ~PasswordReads
    BY <2>1 DEF LoginReads, EditReads, PasswordReads
  <2>8. ~EditSent
    <3>1. \A n \in 1 .. Len(sent) : n = 1
      BY <2>1, Facts
    <3> QED
      BY <1>1, <1>2, <3>1, FrontIs DEF EditSent
  <2>9. \A i \in Id : stored'[i] = stored[i] \/ Excused(i)' \/ Deleted(i)'
    BY <1>3, <1>5
  <2>10. BoxAgrees' /\ ImagesAgree'
    BY <2>2, <2>7, <2>8, <2>9, ClearedImages
  <2> QED
    BY <2>5, <2>6, <2>10 DEF Calm
<1>7. CASE ~w.here
  <2>1. sent' = Tail(sent) /\ UNCHANGED <<screen, user, userBox, calls>>
    BY <1>1, <1>7 DEF AccountDeleted
  <2>2. Excused(w.id)'
    BY <1>1, <1>7 DEF AccountDeleted, Note, Excused, Shared, Happened
  <2>3. Kept
    BY <1>3, <2>2 DEF Kept
  <2> QED
    BY <1>1, <1>2, <2>1, <2>3, FrontCalm
<1> QED
  BY <1>6, <1>7

LEMMA AcknowledgementCalm ==
  ASSUME IInv, Next, Calm, Clean', Acknowledgement
  PROVE  Calm'
BY ProfileCalm, RecordStoredCalm, PasswordStoredCalm, EditStoredCalm, DeletedCalm, RefusedCalm,
   OrphanCalm DEF Acknowledgement

\* The other device changes what is stored of its account, and that is noted if the
\* account is known here.
LEMMA OtherCalm ==
  ASSUME IInv, Next, Calm, OtherDevice
  PROVE  Calm'
<1>1. UNCHANGED <<screen, user, userBox, calls, sent, ids>>
  BY DEF OtherDevice, OtherSession, OtherRecord, OtherChange, OtherEdit, OtherDelete, local, made
<1>2. Kept
  <2>1. CASE \E i \in Id : OtherSession(i)
    BY <2>1, StillKept DEF OtherSession
  <2>2. ASSUME NEW i \in Id, \A j \in Id \ {i} : stored'[j] = stored[j],
               <<"shared", i>> \in history' \/ ~KnownHere(i) \/ stored'[i] = stored[i]
        PROVE  Kept
    BY <2>2 DEF Kept, Excused, Shared, Happened
  <2>3. CASE OtherRecord \/ OtherDelete \/ (\E w \in Word : OtherChange(w))
             \/ \E course \in Course : OtherEdit(course)
    <3>1. other # None
      BY <2>3 DEF OtherRecord, OtherChange, OtherEdit, OtherDelete, OtherFinds
    <3>2. PICK i \in Id : i = other.id
      BY <3>1 DEF IInv, Types, Member
    <3>3. CASE OtherRecord
      BY <2>2, <3>2, <3>3 DEF OtherRecord, NoteShared, NoteIf, Note, IInv, Types
    <3>4. CASE OtherDelete
      BY <2>2, <3>2, <3>4 DEF OtherDelete, Note, IInv, Types
    <3>5. ASSUME NEW w \in Word, OtherChange(w) PROVE Kept
      BY <2>2, <3>2, <3>5 DEF OtherChange, NoteShared, NoteIf, Note, IInv, Types
    <3>6. ASSUME NEW course \in Course, OtherEdit(course) PROVE Kept
      BY <2>2, <3>2, <3>6 DEF OtherEdit, NoteShared, NoteIf, Note, IInv, Types
    <3> QED
      BY <2>3, <3>3, <3>4, <3>5, <3>6
  <2> QED
    BY <2>1, <2>3 DEF OtherDevice
<1>3. OldQueue /\ Remains
  BY <1>1, QueueKept, RemainsIf DEF IInv
<1>4. GoesOn /\ \A c \in calls' : Kin(c)
  BY <1>1, CallsKept DEF GoesOn, EditSent, Calm, Control
<1>5. Control'
  BY <1>1, <1>3, ControlRemains DEF Calm, InSession
<1> QED
  BY <1>1, <1>2, <1>3, <1>4, <1>5, CalmKept DEF InSession

LEMMA StudentCalm ==
  ASSUME IInv, Next, Calm, Numbered, Clean', Student
  PROVE  Calm'
<1>1. ASSUME NEW a \in Address, NEW cap \in BOOLEAN, NEW w \in Word, StartSignUp(a, cap, w)
      PROVE  Calm'
  <2>1. PICK c : c = [kind |-> "signup", at |-> "lookup", address |-> a,
                      capitals |-> cap, word |-> w, here |-> TRUE]
    OBVIOUS
  <2>2. c \in GoodCall /\ c.here /\ c.at = "lookup" /\ c.kind = "signup"
    BY <2>1 DEF GoodCall, SignUpCall
  <2> QED
    BY <1>1, <2>1, <2>2, EnterCalm DEF StartSignUp, Call, cloud, made
<1>2. ASSUME NEW a \in Address, NEW w \in Word, StartLogin(a, w)
      PROVE  Calm'
  <2>1. PICK c : c = [kind |-> "login", at |-> "user", address |-> a, word |-> w, here |-> TRUE]
    OBVIOUS
  <2>2. c \in GoodCall /\ c.here /\ c.at = "user" /\ c.kind = "login"
    BY <2>1 DEF GoodCall, LoginCall
  <2> QED
    BY <1>2, <2>1, <2>2, EnterCalm DEF StartLogin, Call, cloud, made
<1> QED
  BY <1>1, <1>2, SubmitCalm, OpenCalm, LeaveCalm, RecordCalm, LogoutCalm, ChangeCalm, EditCalm,
     DeleteCalm DEF Student

\* A sync touches neither the account nor what is in the box.
LEMMA SyncCalm ==
  ASSUME IInv, Next, Calm, Sync
  PROVE  Calm'
<1>1. UNCHANGED <<screen, user, calls, sent, stored, ids, history>>
  BY SyncIs
<1>2. /\ Last(userBox') = Last(userBox)
      /\ \A n \in 1 .. Len(userBox') : \E m \in 1 .. Len(userBox) : userBox'[n] = userBox[m]
  BY SyncBox DEF IInv
<1>3. /\ LoginReads' = LoginReads /\ EditReads' = EditReads
      /\ PasswordReads' = PasswordReads /\ EditSent' = EditSent /\ InSession' = InSession
  BY <1>1 DEF LoginReads, EditReads, PasswordReads, EditSent, InSession
<1>4. \A i : Excused(i)' = Excused(i) /\ Shared(i)' = Shared(i) /\ Deleted(i)' = Deleted(i)
  BY <1>1 DEF Excused, Shared, Deleted, Out, Happened
<1>5. Control' /\ Carried'
  BY <1>1, <1>3 DEF Calm, Control, OneHandler, NoneAwaited, InPlace, Carried
<1>6. Boxed' /\ Ordered'
  BY <1>1, <1>2, <1>3 DEF Calm, Boxed, Ordered, Updates
<1>7. Steady'
  BY <1>1, <1>4 DEF Calm, Steady, Updates
<1>8. BoxAgrees'
  BY <1>1, <1>2, <1>3, <1>4 DEF Calm, BoxAgrees
<1>9. ImagesAgree'
  BY <1>1, <1>2, <1>4 DEF Calm, ImagesAgree
<1> QED
  BY <1>5, <1>6, <1>7, <1>8, <1>9 DEF Calm

-----------------------------------------------------------------------------
(* The three places.                                                       *)

Settled == Numbered /\ (Clean => Calm)

LEMMA SettledInit == Init => AllBrief /\ Settled
<1> SUFFICES ASSUME Init PROVE AllBrief /\ Settled
  OBVIOUS
<1>1. ASSUME NEW i \in Id PROVE Brief(i)
  <2>1. ~Known(i)
    BY DEF Init, Known, InSession, Deleted, Happened
  <2>2. Sets(i) = {} /\ ~UserIs(i) /\ ~Fresh(i) /\ ~Deleted(i)
    BY DEF Init, Sets, UserIs, Fresh, Deleted, Happened
  <2> QED
    BY <2>1, <2>2 DEF Brief, Given, Once
<1>2. AllBrief /\ Numbered
  BY <1>1 DEF AllBrief, Numbered, Brief
<1>3. /\ screen = "splash" /\ calls = {} /\ Len(sent) = 0 /\ Len(userBox) = 1
      /\ Last(userBox).user = None /\ userBox[1].user = None
  BY DEF Init, Last
<1>4. Control /\ Carried /\ Boxed /\ Ordered
  BY <1>3 DEF Control, OneHandler, NoneAwaited, InPlace, Carried, Boxed, Ordered, InSession, LoginReads,
              PasswordReads, EditReads
<1>5. Steady /\ BoxAgrees /\ ImagesAgree
  BY <1>3 DEF Steady, BoxAgrees, ImagesAgree
<1> QED
  BY <1>2, <1>4, <1>5 DEF Settled, Calm

LEMMA BriefAlways == IInv /\ AllBrief /\ [Next]_vars => AllBrief'
<1> SUFFICES ASSUME IInv, AllBrief, [Next]_vars, NEW i \in Id PROVE Brief(i)'
  BY DEF AllBrief
<1>1. CASE Next
  BY <1>1, BriefStep DEF AllBrief
<1>2. CASE UNCHANGED vars
  <2>1. UNCHANGED <<screen, user, userBox, lists, calls, sent, stored, other, ids, history>>
    BY <1>2 DEF vars, local, cloud, made
  <2>2. Known(i)' = Known(i) /\ Sets(i)' = Sets(i) /\ Fresh(i)' = Fresh(i) /\ UserIs(i)' = UserIs(i)
    BY <2>1 DEF Known, Sets, Fresh, UserIs, InSession, Deleted, Happened
  <2>3. Brief(i)
    BY DEF AllBrief
  <2> QED
    BY <2>1, <2>2, <2>3 DEF Brief, Given, Once, Again, Deleted, Happened
<1> QED
  BY <1>1, <1>2

LEMMA SettledStep ==
  ASSUME IInv, AllBrief, Settled, [Next]_vars
  PROVE  Settled'
<1>1. Numbered'
  BY BriefAlways DEF AllBrief, Brief, Numbered
<1>2. ASSUME Next, Clean' PROVE Calm'
  <2>1. Calm /\ Numbered
    BY <1>2, CleanStays DEF Settled
  <2> QED
    BY <1>2, <2>1, RestoreCalm, StudentCalm, AnswerCalm, AcknowledgementCalm, KillCalm, OtherCalm, SyncCalm
       DEF Next
<1>3. ASSUME UNCHANGED vars, Clean' PROVE Calm'
  <2>1. UNCHANGED <<screen, user, userBox, calls, sent, stored, ids, history>>
    BY <1>3 DEF vars, local, cloud, made
  <2>2. Clean
    BY <1>3, <2>1 DEF Clean, Left, Cut, Failed, Happened
  <2>3. Control' /\ Carried' /\ Boxed' /\ Ordered'
    BY <2>1, <2>2 DEF Settled, Calm, Control, OneHandler, NoneAwaited, InPlace, Carried, Boxed, Ordered,
                      Updates, InSession, LoginReads, PasswordReads, EditReads
  <2>4. Steady' /\ BoxAgrees' /\ ImagesAgree'
    BY <2>1, <2>2 DEF Settled, Calm, Steady, BoxAgrees, ImagesAgree, Updates, LoginReads, PasswordReads,
                      EditReads, EditSent, Excused, Shared, Deleted, Out, Happened
  <2> QED
    BY <2>3, <2>4 DEF Calm
<1> QED
  BY <1>1, <1>2, <1>3 DEF Settled

\* In a session at rest the user in memory, the box, the course data and the document
\* users/{id} agree (authProvider.dart:91, edit_profile.dart:411,
\* change_function.dart:16), for any number of accounts, handlers and writes, unless a
\* handler overlapped another one, was cut by a kill or failed half-way, another device
\* wrote the account, or it was deleted from a screen that was left or in a log-out
\* that did not reach the disk.
THEOREM ThePlacesAgree == Spec => []PlacesAgree
<1>1. Init => IInv /\ AllBrief /\ Settled
  BY InvInit, SettledInit
<1>2. IInv /\ AllBrief /\ Settled /\ [Next]_vars => (IInv /\ AllBrief /\ Settled)'
  BY InvStep, BriefAlways, SettledStep
<1>3. IInv /\ Settled => PlacesAgree
  <2> SUFFICES ASSUME IInv, Calm, AtRest, ~Excused(user.id)
               PROVE  /\ Last(userBox) = [user |-> user, data |-> user.course]
                      /\ stored[user.id] = Document(user)
    BY DEF PlacesAgree, Settled, Clean, Left, Cut, Failed, Excused, Shared, Deleted, Out
  <2>1. /\ ~LoginReads /\ ~EditReads /\ ~PasswordReads /\ ~EditSent /\ InSession
    BY Idle DEF AtRest, Calm, Control, InSession
  <2>2. user \in Member /\ user # None
    BY <2>1, NoneApart DEF IInv, Sessions
  <2>3. PICK box : box = Last(userBox)
    OBVIOUS
  <2>4. box.user = user /\ box \in Image
    BY <2>1, <2>3, BoxIs DEF Calm, Boxed, IInv
  <2>5. /\ box.data = user.course /\ stored[user.id] # None
        /\ stored[user.id].pw = user.pw /\ stored[user.id].course = user.course
    BY <2>1, <2>2, <2>3, <2>4 DEF Calm, BoxAgrees
  <2>6. user.id \in Id
    BY <2>2 DEF Member
  <2>7. stored[user.id] \in Filled
    BY <2>5, <2>6, StoredIs DEF IInv
  <2> QED
    BY <2>3, <2>4, <2>5, <2>7 DEF Image, Filled, Document
<1> QED
  BY <1>1, <1>2, <1>3, PTL DEF Spec

-----------------------------------------------------------------------------
(* The password chosen last.                                               *)

Made == [address : Address, capitals : BOOLEAN, word : Word]

\* Whose identifier has been given out has an account.
Accounts == account \in [Id -> Made \cup {None}] /\ \A i \in 1 .. ids : account[i] \in Made

\* An account that was deleted from a screen that was left is noted as deleted.
Ghosts == \A i \in Id : Happened("ghost", i) => Deleted(i)

OneHash(i) == <<account[i].word, 1>>

\* What holds the password of account i has the hash of the one chosen last.
ChosenOf(i) ==
  \/ Again(i) \/ Happened("shared", i)
  \/ /\ stored[i] # None => stored[i].pw = OneHash(i)
     /\ stored[i] # None /\ other # None /\ other.id = i => other.pw = OneHash(i)
     /\ Fresh(i) => user.pw[1] = account[i].word
     /\ \A n \in Sets(i) : sent[n].doc.pw = OneHash(i)

Chosen == \A i \in Id : ChosenOf(i)

\* A new password is sent hashed.
Rehashed == \A n \in 1 .. Len(sent) : sent[n].op = "password" => sent[n].doc.pw[2] = 1

\* The account before another one of the same address has no profile any more, and
\* gets none, unless the address was typed with capitals.
Newest ==
  \A i, j \in 1 .. ids :
    i < j /\ account[i].address = account[j].address /\ ~account[j].capitals =>
      stored[i] = None /\ Sets(i) = {} /\ ~(screen = "fill" /\ user.id = i)

LEMMA GhostsStep ==
  ASSUME Next, Ghosts
  PROVE  Ghosts'
<1> SUFFICES ASSUME NEW i \in Id, <<"ghost", i>> \in history', <<"deleted", i>> \notin history'
             PROVE  FALSE
  BY DEF Ghosts, Deleted, Happened
<1>1. <<"deleted", i>> \notin history /\ <<"ghost", i>> \notin history
  BY HistoryGrows DEF Ghosts, Deleted, Happened
<1>n. ASSUME NEW condition, NEW what, NEW j, NoteIf(condition, what, j), what # "ghost"
      PROVE  FALSE
  <2>1. history' = history \/ history' = history \cup {<<what, j>>}
    BY <1>n DEF NoteIf, Note
  <2>2. <<what, j>> # <<"ghost", i>>
    BY <1>n
  <2> QED
    BY <1>1, <2>1, <2>2
<1>2. CASE Restore \/ Student
  <2>1. CASE UNCHANGED history
    BY <1>1, <2>1
  <2>2. CASE ~UNCHANGED history
    <3>1. \E condition, what, j : NoteIf(condition, what, j) /\ what \in {"again", "left"}
      BY <1>2, <2>2 DEF Restore, Student, StartSignUp, SubmitProfile, StartLogin, Open, Leave, Record, Logout,
           StartChange, StartEdit, StartDelete, NoteOverlap
    <3> QED
      BY <1>n, <3>1
  <2> QED
    BY <2>1, <2>2
<1>3. CASE Answer
  BY <1>1, <1>3 DEF Answer, LookedUp, UserRead, CoursesRead, QueryFails, PasswordRead, Cleared, NoteIf, Note
<1>4. CASE AccountDeleted
  BY <1>1, <1>4 DEF AccountDeleted, Note
<1>5. CASE Acknowledgement /\ ~AccountDeleted
  BY <1>1, <1>5 DEF Acknowledgement, ProfileStored, RecordStored, PasswordStored, EditStored,
       Refused, OrphanApplied, NoteIf, Note
<1>6. CASE Kill
  <2>1. PICK whats \in SUBSET {"cut", "out"} : history' = history \cup {<<what, 0>> : what \in whats}
    BY <1>6 DEF Kill, Note
  <2> QED
    BY <1>1, <2>1
<1>7. CASE OtherDevice
  <2>1. CASE OtherDelete
    BY <1>1, <2>1 DEF OtherDelete, Note
  <2>2. CASE UNCHANGED history
    BY <1>1, <2>2
  <2>3. CASE ~OtherDelete /\ ~UNCHANGED history
    <3>1. \E condition, j : NoteIf(condition, "shared", j)
      BY <1>7, <2>3 DEF OtherDevice, OtherSession, OtherRecord, OtherChange, OtherEdit, NoteShared
    <3> QED
      BY <1>n, <3>1
  <2> QED
    BY <2>1, <2>2, <2>3
<1>8. CASE Sync
  BY <1>1, <1>8, SyncIs
<1> QED
  BY <1>2, <1>3, <1>4, <1>5, <1>6, <1>7, <1>8 DEF Next

\* A password is changed of an account that was made.
LEMMA AccountsStep ==
  ASSUME IInv, AllBrief, Accounts, Next
  PROVE  /\ Accounts'
         /\ \A i \in 1 .. ids : /\ account'[i].address = account[i].address
                                /\ account'[i].capitals = account[i].capitals
<1>0. ids \in Nat /\ 1 .. ids \subseteq Id
  BY SessionAssumption DEF IInv, Types, Id
<1>1. ASSUME UNCHANGED account, UNCHANGED ids
      PROVE  /\ Accounts'
             /\ \A i \in 1 .. ids : /\ account'[i].address = account[i].address
                                    /\ account'[i].capitals = account[i].capitals
  BY <1>1 DEF Accounts
<1>2. ASSUME NEW i \in 1 .. ids, NEW w \in Word, account' = [account EXCEPT ![i].word = w], UNCHANGED ids
      PROVE  /\ Accounts'
             /\ \A j \in 1 .. ids : /\ account'[j].address = account[j].address
                                    /\ account'[j].capitals = account[j].capitals
  <2>1. i \in Id /\ account[i] \in Made
    BY <1>0 DEF Accounts
  <2>2. account' = [account EXCEPT ![i] = [account[i] EXCEPT !.word = w]]
    BY <1>2
  <2>3. PICK r : r = [account[i] EXCEPT !.word = w]
    OBVIOUS
  <2>4. r \in Made /\ r.address = account[i].address /\ r.capitals = account[i].capitals
    BY <2>1, <2>3 DEF Made
  <2>5. account' = [account EXCEPT ![i] = r]
    BY <2>2, <2>3
  <2> QED
    BY <1>0, <1>2, <2>1, <2>4, <2>5 DEF Accounts
<1>3. ASSUME NEW r \in Made, ids < MaxId, ids' = ids + 1, account' = [account EXCEPT ![ids + 1] = r]
      PROVE  /\ Accounts'
             /\ \A j \in 1 .. ids : /\ account'[j].address = account[j].address
                                    /\ account'[j].capitals = account[j].capitals
  <2>1. ids + 1 \in Id /\ \A j \in 1 .. ids' : j \in 1 .. ids \/ j = ids + 1
    BY <1>0, <1>3, SessionAssumption DEF Id
  <2>2. \A j \in 1 .. ids : j # ids + 1
    BY <1>0
  <2> QED
    BY <1>0, <1>3, <2>1, <2>2 DEF Accounts
\* A write that was stored is of an account with an identifier.
<1>4. ASSUME NEW i \in Id, stored[i] # None PROVE i \in 1 .. ids
  <2>1. i <= ids
    BY <1>4 DEF AllBrief, Brief, Given, Known
  <2> QED
    BY <1>0, <2>1 DEF Id
<1>5. CASE Restore \/ Student \/ Kill
  BY <1>1, <1>5 DEF Restore, Student, StartSignUp, SubmitProfile, StartLogin, Open, Leave, Record, Logout,
       StartChange, StartEdit, StartDelete, Kill, made
<1>6. CASE Answer
  <2>1. PICK c \in calls : \/ LookedUp(c) \/ UserRead(c) \/ CoursesRead(c)
                           \/ QueryFails(c) \/ PasswordRead(c) \/ Cleared(c)
    BY <1>6 DEF Answer
  <2>2. CASE ~LookedUp(c)
    BY <1>1, <2>1, <2>2 DEF UserRead, CoursesRead, QueryFails, PasswordRead, Cleared, made
  <2>3. CASE LookedUp(c)
    <3>1. PICK r : r = [address |-> c.address, capitals |-> c.capitals, word |-> c.word]
      OBVIOUS
    <3>2. r \in Made
      BY <2>3, <3>1, Facts, CallShape DEF LookedUp, SignUpCall, Made
    <3>3. \/ UNCHANGED account /\ UNCHANGED ids
          \/ ids < MaxId /\ ids' = ids + 1 /\ account' = [account EXCEPT ![ids + 1] = r]
      BY <2>3, <3>1 DEF LookedUp, made
    <3> QED
      BY <1>1, <1>3, <3>2, <3>3
  <2> QED
    BY <2>2, <2>3
<1>7. CASE Acknowledgement
  <2>1. CASE ProfileStored \/ Refused
    BY <1>1, <2>1 DEF ProfileStored, Refused, made
  <2>2. CASE RecordStored \/ PasswordStored \/ EditStored \/ AccountDeleted \/ OrphanApplied
    <3>1. sent # <<>> /\ Applied(Head(sent)) /\ UNCHANGED ids
      BY <2>2 DEF RecordStored, PasswordStored, EditStored, AccountDeleted, OrphanApplied, Front
    <3>2. PICK w \in GoodWrite : w = Head(sent) /\ w.id \in Id /\ w.doc \in Filled
      BY <3>1, FrontIs
    <3>3. CASE w.op = "password"
      <4>1. stored[w.id] # None /\ account' = [account EXCEPT ![w.id].word = w.doc.pw[1]]
        BY <3>1, <3>2, <3>3 DEF Applied
      <4>2. w.doc.pw[1] \in Word
        BY <3>2 DEF Filled, Hashed
      <4> QED
        BY <1>2, <1>4, <3>1, <3>2, <4>1, <4>2
    <3>4. CASE w.op # "password"
      BY <1>1, <3>1, <3>2, <3>4 DEF Applied
    <3> QED
      BY <3>3, <3>4
  <2> QED
    BY <1>7, <2>1, <2>2 DEF Acknowledgement
<1>8. CASE OtherDevice
  <2>1. ASSUME NEW w \in Word, OtherChange(w)
        PROVE  /\ Accounts'
               /\ \A i \in 1 .. ids : /\ account'[i].address = account[i].address
                                      /\ account'[i].capitals = account[i].capitals
    <3>1. other # None /\ stored[other.id] # None
      BY <2>1 DEF OtherChange, OtherFinds
    <3>2. PICK i \in Id : i = other.id
      BY <3>1 DEF IInv, Types, Member
    <3>3. i \in 1 .. ids
      BY <1>4, <3>1, <3>2
    <3>4. account' = [account EXCEPT ![i].word = w] /\ UNCHANGED ids
      BY <2>1, <3>2 DEF OtherChange
    <3> QED
      BY <1>2, <3>3, <3>4
  <2>2. CASE ~\E w \in Word : OtherChange(w)
    BY <1>1, <1>8, <2>2 DEF OtherDevice, OtherSession, OtherRecord, OtherEdit, OtherDelete, made
  <2> QED
    BY <2>1, <2>2
<1>9. CASE Sync
  BY <1>1, <1>9, SyncIs
<1> QED
  BY <1>5, <1>6, <1>7, <1>8, <1>9 DEF Next

\* The writes are those there were, or a new one: a profile, or with a password that
\* is hashed once.
SameWrites ==
  \A n \in 1 .. Len(sent') : \E m \in 1 .. Len(sent) :
    sent'[n].op = sent[m].op /\ sent'[n].id = sent[m].id /\ sent'[n].doc = sent[m].doc

NewWrite(w) ==
  /\ Len(sent') = Len(sent) + 1 /\ sent'[Len(sent) + 1] = w
  /\ \A n \in 1 .. Len(sent) : sent'[n] = sent[n]
  /\ w.op = "password" => w.doc.pw[2] = 1
  /\ w.op = "set" => \E course \in Course : SubmitProfile(course)

LEMMA SameWritesIf ==
  ASSUME Types,
         \/ sent' = sent
         \/ sent' = UnmountedWrites(sent)
         \/ sent # <<>> /\ sent' \in {Tail(sent), UnmountedWrites(Tail(sent))}
         \/ \E k \in 0 .. Len(sent) : sent' = Orphans(sent, k)
  PROVE  SameWrites
<1>0. sent \in Seq(GoodWrite) /\ Len(sent) \in Nat /\ \A n \in 1 .. Len(sent) : sent[n] \in GoodWrite
  BY DEF Types
<1>1. \A w \in GoodWrite :
        /\ [w EXCEPT !.here = FALSE].op = w.op
        /\ [w EXCEPT !.here = FALSE].id = w.id
        /\ [w EXCEPT !.here = FALSE].doc = w.doc
        /\ [w EXCEPT !.kind = "orphan", !.here = FALSE].op = w.op
        /\ [w EXCEPT !.kind = "orphan", !.here = FALSE].id = w.id
        /\ [w EXCEPT !.kind = "orphan", !.here = FALSE].doc = w.doc
  BY DEF GoodWrite
<1>2. CASE sent' = sent
  BY <1>2 DEF SameWrites
<1>3. CASE sent' = UnmountedWrites(sent)
  <2>1. Len(sent') = Len(sent) /\ \A n \in 1 .. Len(sent) : sent'[n] = [sent[n] EXCEPT !.here = FALSE]
    BY <1>0, <1>3, LeftQueue
  <2>2. \A n \in 1 .. Len(sent) : /\ sent'[n].op = sent[n].op /\ sent'[n].id = sent[n].id
                                  /\ sent'[n].doc = sent[n].doc
    BY <1>0, <1>1, <2>1
  <2> QED
    BY <2>1, <2>2 DEF SameWrites
<1>4. ASSUME sent # <<>>
      PROVE  /\ Tail(sent) \in Seq(GoodWrite)
             /\ \A n \in 1 .. Len(Tail(sent)) : /\ Tail(sent)[n] \in GoodWrite
                                                /\ \E m \in 1 .. Len(sent) : Tail(sent)[n] = sent[m]
  BY <1>0, <1>4, FrontOf
<1>5. CASE sent # <<>> /\ sent' = Tail(sent)
  BY <1>4, <1>5 DEF SameWrites
<1>6. CASE sent # <<>> /\ sent' = UnmountedWrites(Tail(sent))
  <2>1. PICK rest \in Seq(GoodWrite) : rest = Tail(sent)
    BY <1>4, <1>6
  <2>2. Len(sent') = Len(rest) /\ \A n \in 1 .. Len(rest) : sent'[n] = [rest[n] EXCEPT !.here = FALSE]
    BY <1>6, <2>1, LeftQueue
  <2>3. \A n \in 1 .. Len(rest) : rest[n] \in GoodWrite /\ \E m \in 1 .. Len(sent) : rest[n] = sent[m]
    BY <1>4, <1>6, <2>1
  <2>4. \A n \in 1 .. Len(rest) : /\ sent'[n].op = rest[n].op /\ sent'[n].id = rest[n].id
                                  /\ sent'[n].doc = rest[n].doc
    BY <1>1, <2>2, <2>3
  <2> QED
    BY <2>2, <2>3, <2>4 DEF SameWrites
<1>7. ASSUME NEW k \in 0 .. Len(sent), sent' = Orphans(sent, k) PROVE SameWrites
  <2>1. /\ Len(sent') = k
        /\ \A n \in 1 .. k : /\ sent'[n] = [sent[n] EXCEPT !.kind = "orphan", !.here = FALSE]
                             /\ n \in 1 .. Len(sent)
    BY <1>0, <1>7, OrphanQueue
  <2>2. \A n \in 1 .. k : /\ sent'[n].op = sent[n].op /\ sent'[n].id = sent[n].id
                         /\ sent'[n].doc = sent[n].doc
    BY <1>0, <1>1, <2>1
  <2> QED
    BY <2>1, <2>2 DEF SameWrites
<1> QED
  BY <1>2, <1>3, <1>5, <1>6, <1>7

LEMMA WritesStep ==
  ASSUME IInv, Next
  PROVE  SameWrites \/ \E w : NewWrite(w)
<1>0. Types
  BY DEF IInv
<1>1. ASSUME NEW w, Send(w), w.op = "password" => w.doc.pw[2] = 1,
             w.op = "set" => \E course \in Course : SubmitProfile(course)
      PROVE  \E v : NewWrite(v)
  <2>1. PICK S : S = GoodWrite \cup {w}
    OBVIOUS
  <2>2. sent \in Seq(S) /\ w \in S
    BY <1>0, <2>1 DEF Types
  <2>3. sent' = Append(sent, w)
    BY <1>1 DEF Send
  <2>4. /\ Len(sent') = Len(sent) + 1 /\ sent'[Len(sent) + 1] = w
        /\ \A n \in 1 .. Len(sent) : sent'[n] = sent[n]
    BY <2>2, <2>3, AppendProperties
  <2> QED
    BY <1>1, <2>4 DEF NewWrite
<1>2. CASE Restore \/ Kill \/ OtherDevice
  <2>1. sent' = sent \/ \E k \in 0 .. Len(sent) : sent' = Orphans(sent, k)
    BY <1>2 DEF Restore, Kill, OtherDevice, OtherSession, OtherRecord, OtherChange, OtherEdit, OtherDelete,
           cloud, Orphans
  <2> QED
    BY <1>0, <2>1, SameWritesIf
<1>3. CASE Student
  <2>1. CASE sent' = sent \/ sent' = UnmountedWrites(sent)
    BY <1>0, <2>1, SameWritesIf
  <2>2. CASE ~(sent' = sent \/ sent' = UnmountedWrites(sent))
    <3>1. \/ \E course \in Course : SubmitProfile(course)
          \/ Record \/ StartDelete
          \/ \E old, new \in Word : StartChange(old, new)
      BY <1>3, <2>2 DEF Student, StartSignUp, StartLogin, Open, Leave, Logout, StartEdit, cloud
    <3>2. ASSUME NEW course \in Course, SubmitProfile(course) PROVE \E v : NewWrite(v)
      <4>1. PICK w : /\ Send(w) /\ w.op = "set"
        BY <3>2 DEF SubmitProfile
      <4> QED
        BY <1>1, <3>2, <4>1
    <3>3. ASSUME Record \/ StartDelete PROVE \E v : NewWrite(v)
      <4>1. PICK w : Send(w) /\ w.op \in {"update", "delete"}
        BY <3>3 DEF Record, StartDelete
      <4> QED
        BY <1>1, <4>1
    <3>4. ASSUME NEW old \in Word, NEW new \in Word, StartChange(old, new) PROVE \E v : NewWrite(v)
      <4>1. PICK w : w = [op |-> "password", id |-> user.id,
                          doc |-> [pw |-> hashPassword(<<new, 0>>), course |-> user.course],
                          kind |-> "change", here |-> TRUE]
        OBVIOUS
      <4>2. Send(w) /\ w.op = "password" /\ w.doc.pw[2] = 1
        BY <3>4, <4>1 DEF StartChange, hashPassword
      <4> QED
        BY <1>1, <4>2
    <3> QED
      BY <3>1, <3>2, <3>3, <3>4
  <2> QED
    BY <2>1, <2>2
<1>4. CASE Answer
  <2>1. CASE sent' = sent \/ sent' = UnmountedWrites(sent)
    BY <1>0, <2>1, SameWritesIf
  <2>2. CASE ~(sent' = sent \/ sent' = UnmountedWrites(sent))
    <3>1. PICK c \in calls : Cleared(c)
      BY <1>4, <2>2 DEF Answer, LookedUp, UserRead, CoursesRead, QueryFails, PasswordRead, cloud
    <3>2. PICK w : Send(w) /\ w.op = "update"
      BY <3>1 DEF Cleared
    <3> QED
      BY <1>1, <3>2
  <2> QED
    BY <2>1, <2>2
<1>5. CASE Acknowledgement
  <2>1. sent # <<>> /\ sent' \in {Tail(sent), UnmountedWrites(Tail(sent))}
    BY <1>5 DEF Acknowledgement, ProfileStored, RecordStored, PasswordStored, EditStored, AccountDeleted,
           Refused, OrphanApplied, Front
  <2> QED
    BY <1>0, <2>1, SameWritesIf
<1>6. CASE Sync
  BY <1>0, <1>6, SyncIs, SameWritesIf
<1> QED
  BY <1>2, <1>3, <1>4, <1>5, <1>6 DEF Next

LEMMA RehashedStep ==
  ASSUME IInv, Next, Rehashed
  PROVE  Rehashed'
<1>1. CASE SameWrites
  BY <1>1 DEF Rehashed, SameWrites
<1>2. ASSUME NEW w, NewWrite(w) PROVE Rehashed'
  <2>1. \A n \in 1 .. Len(sent') : n \in 1 .. Len(sent) \/ n = Len(sent) + 1
    BY <1>2, Facts DEF NewWrite
  <2> QED
    BY <1>2, <2>1 DEF Rehashed, NewWrite
<1> QED
  BY <1>1, <1>2, WritesStep

\* Profiles that are on their way are those there were, but for one that is submitted.
OldSets(i) == \A n \in Sets(i)' : \E m \in Sets(i) : sent'[n].doc = sent[m].doc

LEMMA OldSetsIf ==
  ASSUME IInv, Next, NEW i \in Id, ~\E course \in Course : SubmitProfile(course)
  PROVE  OldSets(i)
<1>1. CASE SameWrites
  BY <1>1 DEF OldSets, Sets, SameWrites
<1>2. ASSUME NEW w, NewWrite(w) PROVE OldSets(i)
  <2>1. \A n \in 1 .. Len(sent') : n \in 1 .. Len(sent) \/ n = Len(sent) + 1
    BY <1>2, Facts DEF NewWrite
  <2> QED
    BY <1>2, <2>1 DEF OldSets, Sets, NewWrite
<1> QED
  BY <1>1, <1>2, WritesStep

\* Whose user is replaced by one with a profile, by none or by another one is not fresh.
LEMMA ChosenKept ==
  ASSUME IInv, Next, NEW i \in Id, ChosenOf(i), account'[i] = account[i], OldSets(i),
         \/ stored'[i] = None
         \/ stored[i] # None /\ stored'[i].pw = stored[i].pw
         \/ Happened("shared", i)',
         \/ other' \in {other, None}
         \/ other # None /\ other'.id = other.id /\ other'.pw = other.pw,
         user' = user \/ user' \in Member \cup {None} \/ user'.id # i
  PROVE  ChosenOf(i)'
<1>1. Again(i) => Again(i)'
  BY AgainStays
<1>2. Happened("shared", i) => Happened("shared", i)'
  BY HistoryGrows DEF Happened
<1>3. CASE ~(Again(i) \/ Happened("shared", i)) /\ ~Happened("shared", i)'
  <2>1. stored'[i] # None => stored[i] # None /\ stored'[i].pw = stored[i].pw
    BY <1>3
  <2>2. stored'[i] # None => stored'[i].pw = <<account'[i].word, 1>>
    BY <1>3, <2>1 DEF ChosenOf, OneHash
  <2>3. stored'[i] # None /\ other' # None /\ other'.id = i => other'.pw = <<account'[i].word, 1>>
    BY <1>3, <2>1 DEF ChosenOf, OneHash
  <2>4. \A u \in Member : u.pw[2] # 0
    BY DEF Member, Hashed
  <2>5. Fresh(i)' => Fresh(i) /\ user' = user
    BY <2>4 DEF Fresh
  <2>6. Fresh(i)' => user'.pw[1] = account'[i].word
    BY <1>3, <2>5 DEF ChosenOf
  <2>7. \A n \in Sets(i)' : sent'[n].doc.pw = <<account'[i].word, 1>>
    BY <1>3 DEF ChosenOf, OldSets, OneHash
  <2> QED
    BY <2>2, <2>3, <2>6, <2>7 DEF ChosenOf, OneHash
<1> QED
  BY <1>1, <1>2, <1>3 DEF ChosenOf

\* An account that is excused was written by the other device, or deleted and so is
\* not stored.
LEMMA ExcusedHash ==
  ASSUME Ghosts', AllBrief', NEW i \in Id, Excused(i)'
  PROVE  Again(i)' \/ Happened("shared", i)' \/ stored'[i] = None
<1>1. Happened("shared", i)' \/ Deleted(i)'
  BY DEF Excused, Shared, Ghosts
<1>2. Again(i)' \/ (Deleted(i)' => stored'[i] = None)
  BY DEF AllBrief, Brief, Once
<1> QED
  BY <1>1, <1>2

\* An account that is stored has been known before, so that it is not signing up.
LEMMA StoredIsOld ==
  ASSUME AllBrief, NEW i \in Id, stored[i] # None, ~Again(i)
  PROVE  ~Fresh(i) /\ Sets(i) = {}
BY DEF AllBrief, Brief, Once, Known

LEMMA ChosenStays ==
  ASSUME Next, NEW i
  PROVE  /\ Again(i) => ChosenOf(i)'
         /\ Happened("shared", i) => ChosenOf(i)'
<1>1. Again(i) => Again(i)'
  BY AgainStays
<1>2. Happened("shared", i) => Happened("shared", i)'
  BY HistoryGrows DEF Happened
<1> QED
  BY <1>1, <1>2 DEF ChosenOf

LEMMA ChosenStudent ==
  ASSUME IInv, Next, NEW i \in Id, ChosenOf(i), Student \/ Restore \/ Kill,
         ~\E course \in Course : SubmitProfile(course)
  PROVE  ChosenOf(i)'
<1>1. UNCHANGED <<stored, other, account>>
  BY DEF Student, StartSignUp, SubmitProfile, StartLogin, Open, Leave, Record, Logout,
         StartChange, StartEdit, StartDelete, Restore, Kill, cloud, made
<1>2. user' = user \/ user' \in Member \cup {None}
  <2>1. CASE Restore
    <3>1. Last(userBox).user \in Member \cup {None}
      BY BoxIs DEF IInv, Image
    <3> QED
      BY <2>1, <3>1 DEF Restore
  <2>2. CASE Student \/ Kill
    BY <2>2 DEF Student, StartSignUp, SubmitProfile, StartLogin, Open, Leave, Record, Logout,
           StartChange, StartEdit, StartDelete, clearData, Kill
  <2> QED
    BY <2>1, <2>2
<1>3. OldSets(i)
  BY OldSetsIf
<1> QED
  BY <1>1, <1>2, <1>3, ChosenKept

\* The password of a profile that is submitted is hashed, and that is noted if it was
\* a hash already.
LEMMA ChosenSubmit ==
  ASSUME IInv, Next, NEW i \in Id, ChosenOf(i), NEW course \in Course, SubmitProfile(course)
  PROVE  ChosenOf(i)'
<1>a. Types /\ Sessions
  BY DEF IInv
<1>1. screen = "fill" /\ user \in User /\ user.pw \in Password /\ user # None
  BY <1>a, NoneApart DEF SubmitProfile, Sessions, User
<1>2. PICK u : u = [user EXCEPT !.pw = hashPassword(@), !.course = course]
  OBVIOUS
<1>3. u.id = user.id /\ u.pw = <<user.pw[1], user.pw[2] + 1>>
  BY <1>1, <1>2 DEF User, hashPassword
<1>4. u \in Member /\ Document(u) \in Filled
  <2>1. hashPassword(user.pw) \in Hashed
    BY <1>1, HashIs DEF SubmitProfile
  <2>2. u \in Member
    BY <1>1, <1>2, <2>1 DEF User, Member
  <2> QED
    BY <2>2 DEF Document, Filled, Member
<1>5. PICK w : w = [op |-> "set", id |-> u.id, doc |-> Document(u), kind |-> "fill", here |-> TRUE]
  OBVIOUS
<1>6. w \in GoodWrite /\ w.op = "set" /\ w.id = user.id /\ w.doc.pw = u.pw
  BY <1>3, <1>4, <1>5 DEF GoodWrite, Member, Document
<1>7. /\ sent' = Append(sent, w) /\ user' = u
      /\ UNCHANGED <<stored, other, account>>
      /\ NoteIf(user.pw[2] > 0, "again", u.id)
  BY <1>2, <1>5 DEF SubmitProfile, Send, made
<1>8. /\ Len(sent) \in Nat /\ Len(sent') = Len(sent) + 1
      /\ (\A n \in 1 .. Len(sent) : sent'[n] = sent[n])
      /\ sent'[Len(sent) + 1] = w
  BY <1>a, <1>6, <1>7, SentOne DEF Types
<1>9. \A n \in 1 .. Len(sent') : n \in 1 .. Len(sent) \/ n = Len(sent) + 1
  BY <1>8
<1>10. \A n \in Sets(i)' : \/ n \in Sets(i) /\ sent'[n] = sent[n]
                           \/ user.id = i /\ sent'[n].doc.pw = u.pw
  BY <1>6, <1>8, <1>9 DEF Sets
<1>11. CASE user.id # i
  <2>1. OldSets(i)
    BY <1>10, <1>11 DEF OldSets
  <2> QED
    BY <1>3, <1>7, <1>11, <2>1, ChosenKept
<1>12. CASE user.id = i /\ ~Again(i)' /\ ~Happened("shared", i)
  <2>1. ~(user.pw[2] > 0)
    BY <1>3, <1>7, <1>12 DEF NoteIf, Note, Again, Happened
  <2>2. user.pw[2] = 0
    BY <1>1, <2>1 DEF Password
  <2>3. ~Again(i) /\ Fresh(i)
    BY <1>1, <1>12, <2>2, AgainStays DEF Fresh
  <2>4. u.pw = <<account'[i].word, 1>>
    BY <1>3, <1>7, <1>12, <2>2, <2>3 DEF ChosenOf
  <2>5. ~Fresh(i)'
    BY <1>4, <1>7 DEF Fresh, Member, Hashed
  <2>6. \A n \in Sets(i)' : sent'[n].doc.pw = <<account'[i].word, 1>>
    BY <1>7, <1>10, <1>12, <2>3, <2>4 DEF ChosenOf, OneHash
  <2> QED
    BY <1>7, <1>12, <2>3, <2>5, <2>6 DEF ChosenOf, OneHash
<1>13. CASE Again(i)' \/ Happened("shared", i)
  BY <1>13, ChosenStays DEF ChosenOf
<1> QED
  BY <1>11, <1>12, <1>13

LEMMA ChosenAnswer ==
  ASSUME IInv, Next, AllBrief, Accounts, NEW i \in Id, ChosenOf(i), Answer
  PROVE  ChosenOf(i)'
<1>1. PICK c \in calls : \/ LookedUp(c) \/ UserRead(c) \/ CoursesRead(c)
                         \/ QueryFails(c) \/ PasswordRead(c) \/ Cleared(c)
  BY DEF Answer
<1>2. UNCHANGED <<stored, other>> /\ c \in GoodCall
  BY <1>1, Facts DEF LookedUp, UserRead, CoursesRead, QueryFails, PasswordRead, Cleared, cloud
<1>3. CASE Born(c)
  <2>1. PICK r : r = [address |-> c.address, capitals |-> c.capitals, word |-> c.word]
    OBVIOUS
  <2>2. /\ account' = [account EXCEPT ![ids + 1] = r] /\ sent' = sent /\ ids < MaxId
        /\ user' = [id |-> ids + 1, pw |-> <<c.word, 0>>, course |-> None]
    BY <1>3, <2>1 DEF Born, LookedUp, cloud
  <2>3. account \in [Id -> Made \cup {None}]
    BY DEF Accounts
  <2>4. CASE i # ids + 1
    <3>1. account'[i] = account[i] /\ user'.id # i
      BY <2>2, <2>3, <2>4
    <3>2. OldSets(i)
      BY <2>2 DEF OldSets, Sets
    <3> QED
      BY <1>2, <3>1, <3>2, ChosenKept
  <2>5. CASE i = ids + 1
    <3>1. ~(i <= ids)
      BY <2>5, IdsNat
    <3>2. ~Known(i) /\ Sets(i) = {}
      BY <3>1 DEF AllBrief, Brief, Given
    <3>3. stored'[i] = None /\ Sets(i)' = {}
      BY <1>2, <2>2, <3>2 DEF Known, Sets
    <3>4. account'[i].word = c.word /\ user'.pw[1] = c.word
      BY <2>1, <2>2, <2>3, <2>5
    <3> QED
      BY <3>3, <3>4 DEF ChosenOf
  <2> QED
    BY <2>4, <2>5
<1>4. CASE ~Born(c)
  <2>1. account' = account
    BY <1>1, <1>4 DEF LookedUp, Born, UserRead, CoursesRead, QueryFails, PasswordRead, Cleared, made
  <2>2. user' = user \/ user' \in Member
    <3>1. CASE LookedUp(c) \/ CoursesRead(c) \/ QueryFails(c)
      BY <1>4, <3>1 DEF LookedUp, Born, CoursesRead, QueryFails
    <3>2. CASE UserRead(c)
      <4>1. CASE user' = user
        BY <4>1
      <4>2. CASE user' # user
        <5>1. PICK j \in Having(c.address) : user' = UserOf(j, stored[j])
          BY <3>2, <4>2 DEF UserRead
        <5>2. j \in Id /\ stored[j] # None
          BY DEF Having
        <5> QED
          BY <5>1, <5>2, StoredIs, UserOfIs DEF IInv
      <4> QED
        BY <4>1, <4>2
    <3>3. CASE PasswordRead(c)
      <4>1. c.id \in Id
        BY <1>2, <3>3, CallShape DEF PasswordRead, ReadCall
      <4> QED
        BY <3>3, <4>1, StoredIs, UserOfIs DEF PasswordRead, IInv
    <3>4. CASE Cleared(c)
      BY <1>2, <3>4, CallShape DEF Cleared, ClearCall
    <3> QED
      BY <1>1, <3>1, <3>2, <3>3, <3>4
  <2>3. OldSets(i)
    <3>1. CASE sent' = sent
      BY <3>1 DEF OldSets, Sets
    <3>2. CASE \E course \in Course : SubmitProfile(course)
      <4>1. calls' = calls
        BY <3>2 DEF SubmitProfile
      <4>2. c \notin calls' \/ \E e \in calls' : e \notin calls
        BY <1>1 DEF LookedUp, UserRead, CoursesRead, QueryFails, PasswordRead, Cleared, Answered
      <4> QED
        BY <4>1, <4>2
    <3> QED
      BY <3>2, OldSetsIf
  <2> QED
    BY <1>2, <2>1, <2>2, <2>3, ChosenKept
<1> QED
  BY <1>3, <1>4

\* The front of the queue is taken off it.
LEMMA FrontTaken ==
  ASSUME IInv, Next, NEW i \in Id, Acknowledgement
  PROVE  sent # <<>> /\ other' = other /\ OldSets(i)
<1>1. sent # <<>> /\ other' = other /\ sent' # sent /\ Len(sent') < Len(sent)
  <2>1. sent # <<>> /\ other' = other /\ sent' \in {Tail(sent), UnmountedWrites(Tail(sent))}
    BY DEF Acknowledgement, ProfileStored, RecordStored, PasswordStored, EditStored, AccountDeleted,
           Refused, OrphanApplied, Front, clearData, local
  <2>2. Tail(sent) \in Seq(GoodWrite) /\ Len(Tail(sent)) = Len(sent) - 1 /\ Len(sent) \in Nat
    BY <2>1, FrontOf DEF IInv, Types
  <2>3. Len(sent') = Len(sent) - 1
    BY <2>1, <2>2, LeftQueue
  <2> QED
    BY <2>1, <2>2, <2>3
<1>2. ~\E course \in Course : SubmitProfile(course)
  <2>1. ASSUME NEW course \in Course, SubmitProfile(course) PROVE FALSE
    <3>1. PICK w : sent' = Append(sent, w)
      BY <2>1 DEF SubmitProfile, Send
    <3>2. PICK S : S = GoodWrite \cup {w}
      OBVIOUS
    <3>3. sent \in Seq(S) /\ w \in S /\ Len(sent) \in Nat
      BY <3>2 DEF IInv, Types
    <3>4. Len(sent') = Len(sent) + 1
      BY <3>1, <3>3, AppendProperties
    <3> QED
      BY <1>1, <3>3, <3>4
  <2> QED
    BY <2>1
<1> QED
  BY <1>1, <1>2, OldSetsIf

\* A write of another account.
LEMMA ChosenElsewhere ==
  ASSUME IInv, Next, NEW i \in Id, ChosenOf(i), Acknowledgement, Head(sent).id # i
  PROVE  ChosenOf(i)'
<1>1. sent # <<>> /\ other' = other /\ OldSets(i)
  BY FrontTaken
<1>2. PICK w \in GoodWrite : w = Head(sent) /\ w.id \in Id /\ w.doc \in Filled
  BY <1>1, FrontIs
<1>3. account'[i] = account[i] /\ stored'[i] = stored[i]
  <2>1. CASE Refused
    BY <2>1 DEF Refused, made
  <2>2. CASE ProfileStored
    BY <1>2, <2>2 DEF ProfileStored, made, IInv, Types
  <2>3. CASE Applied(Head(sent))
    <3>1. stored'[i] = stored[i]
      BY <1>2, <2>3, AppliedIs DEF IInv
    <3>2. account'[i] = account[i]
      BY <1>2, <2>3 DEF Applied
    <3> QED
      BY <3>1, <3>2
  <2> QED
    BY <2>1, <2>2, <2>3 DEF Acknowledgement, RecordStored, PasswordStored, EditStored, AccountDeleted,
       OrphanApplied
<1>4. user' \in Member \cup {None} \/ user' = user
  <2>1. CASE ProfileStored
    BY <1>2, <2>1, UserOfIs DEF ProfileStored
  <2>2. CASE ~ProfileStored
    BY <2>2 DEF Acknowledgement, RecordStored, PasswordStored, EditStored, AccountDeleted,
       Refused, OrphanApplied, clearData, local
  <2> QED
    BY <2>1, <2>2
<1> QED
  BY <1>1, <1>3, <1>4, ChosenKept

\* The profile that is stored has the hash of the password chosen at sign-up.
LEMMA ChosenProfile ==
  ASSUME IInv, Next, AllBrief, NEW i \in Id, ChosenOf(i), ProfileStored, Head(sent).id = i
  PROVE  ChosenOf(i)'
<1>1. sent # <<>> /\ other' = other /\ OldSets(i)
  BY FrontTaken DEF Acknowledgement
<1>2. PICK w \in GoodWrite : w = Head(sent) /\ w.id = i /\ w.kind = "fill" /\ w.doc \in Filled
  BY <1>1, FrontIs DEF ProfileStored
<1>3. 1 \in Sets(i) /\ sent[1] = w
  BY <1>1, <1>2, FrontIs DEF Sets, GoodWrite
<1>4. UNCHANGED account /\ stored'[i] = w.doc /\ user' \in Member
  BY <1>2, UserOfIs DEF ProfileStored, made, IInv, Types
<1>5. CASE Again(i) \/ Happened("shared", i)
  BY <1>5, ChosenStays
<1>6. CASE ~(Again(i) \/ Happened("shared", i))
  <2>1. w.doc.pw = OneHash(i) /\ \A n \in Sets(i) : sent[n].doc.pw = OneHash(i)
    BY <1>3, <1>6 DEF ChosenOf
  <2>2. ~Known(i)
    BY <1>3, <1>6 DEF AllBrief, Brief, Once
  <2>3. ~(other' # None /\ other'.id = i)
    BY <1>1, <2>2 DEF Known
  <2>4. ~Fresh(i)'
    BY <1>4 DEF Fresh, Member, Hashed
  <2>5. stored'[i].pw = <<account'[i].word, 1>>
    BY <1>4, <2>1 DEF OneHash
  <2>6. \A n \in Sets(i)' : sent'[n].doc.pw = <<account'[i].word, 1>>
    BY <1>1, <1>4, <2>1 DEF OldSets, OneHash
  <2> QED
    BY <2>3, <2>4, <2>5, <2>6 DEF ChosenOf, OneHash
<1> QED
  BY <1>5, <1>6

\* The new password is stored with the word that was chosen.
LEMMA ChosenPassword ==
  ASSUME IInv, Next, AllBrief, Accounts, Rehashed, NEW i \in Id, ChosenOf(i),
         PasswordStored, Head(sent).id = i
  PROVE  ChosenOf(i)'
<1>1. sent # <<>> /\ other' = other /\ OldSets(i)
  BY FrontTaken DEF Acknowledgement
<1>2. PICK w \in GoodWrite : w = Head(sent) /\ w.id = i /\ w.kind = "change" /\ w.doc \in Filled
  BY <1>1, FrontIs DEF PasswordStored, Front
<1>3. w.op = "password" /\ Applied(w) /\ user' = user
  BY <1>2 DEF PasswordStored, GoodWrite
<1>4. w.doc.pw[2] = 1 /\ w.doc.pw \in Hashed
  BY <1>1, <1>2, <1>3, FrontIs DEF Rehashed, Filled
<1>5. w.doc.pw = <<w.doc.pw[1], 1>>
  BY <1>4 DEF Hashed
<1>6. stored[i] # None /\ stored[i] \in Filled
  BY <1>2, <1>3, StoredIs DEF Applied, IInv
<1>7. stored'[i].pw = w.doc.pw
  <2>1. stored' = [stored EXCEPT ![i] = [stored[i] EXCEPT !.pw = w.doc.pw]]
    BY <1>2, <1>3 DEF Applied
  <2>2. stored'[i] = [stored[i] EXCEPT !.pw = w.doc.pw]
    BY <2>1 DEF IInv, Types
  <2> QED
    BY <1>6, <2>2 DEF Filled
<1>8. account'[i].word = w.doc.pw[1]
  <2>1. account' = [account EXCEPT ![i] = [account[i] EXCEPT !.word = w.doc.pw[1]]]
    BY <1>2, <1>3 DEF Applied
  <2>2. account'[i] = [account[i] EXCEPT !.word = w.doc.pw[1]]
    BY <2>1 DEF Accounts
  <2>3. i \in 1 .. ids
    BY <1>6, IdsNat DEF AllBrief, Brief, Given, Known, Id
  <2>4. account[i] \in Made
    BY <2>3 DEF Accounts
  <2> QED
    BY <2>2, <2>4 DEF Made
<1>9. stored'[i].pw = <<account'[i].word, 1>>
  BY <1>5, <1>7, <1>8
<1>10. other' # None /\ other'.id = i => Happened("shared", i)'
  BY <1>1, <1>2 DEF PasswordStored, KnownThere, NoteIf, Note, Happened
<1>11. CASE Again(i) \/ Happened("shared", i)
  BY <1>11, ChosenStays
<1>12. CASE ~(Again(i) \/ Happened("shared", i))
  <2>1. ~Fresh(i) /\ Sets(i) = {}
    BY <1>6, <1>12, StoredIsOld
  <2>2. ~Fresh(i)' /\ Sets(i)' = {}
    BY <1>1, <1>3, <2>1 DEF Fresh, OldSets
  <2> QED
    BY <1>9, <1>10, <2>2 DEF ChosenOf, OneHash
<1> QED
  BY <1>11, <1>12

\* What is recorded or edited is stored with the password there is.
LEMMA ChosenUpdate ==
  ASSUME IInv, Next, Calm, AllBrief', Ghosts', NEW i \in Id, ChosenOf(i),
         RecordStored \/ EditStored \/ OrphanApplied, Head(sent).id = i
  PROVE  ChosenOf(i)'
<1>1. sent # <<>> /\ other' = other /\ OldSets(i)
  BY FrontTaken DEF Acknowledgement
<1>2. PICK w \in GoodWrite : w = Head(sent) /\ w.id = i /\ w.doc \in Filled
  BY <1>1, FrontIs
<1>3. w.op = "update"
  <2>1. CASE RecordStored \/ EditStored
    BY <1>2, <2>1 DEF RecordStored, EditStored, Front, GoodWrite
  <2>2. CASE OrphanApplied
    BY <1>1, <1>2, <2>2, FrontIs DEF OrphanApplied, Front, Calm, Control, InPlace
  <2> QED
    BY <2>1, <2>2
<1>4. Applied(w) /\ user' = user
  BY <1>2 DEF RecordStored, EditStored, OrphanApplied, local
<1>5. account' = account /\ stored[i] # None
  BY <1>2, <1>3, <1>4 DEF Applied
<1>6. \/ stored[i] # None /\ stored'[i].pw = stored[i].pw
      \/ Excused(i)'
  <2>1. CASE w.kind # "edit"
    <3>1. Kept
      BY <1>1, <1>2, <1>3, <1>4, <2>1, RecordKept
    <3>2. KnownHere(i)
      BY <1>1, <1>2, FrontIs DEF KnownHere
    <3> QED
      BY <1>5, <3>1, <3>2 DEF Kept
  <2>2. CASE w.kind = "edit"
    <3>1. sent' = Tail(sent) /\ Control
      BY <1>2, <2>2 DEF RecordStored, EditStored, OrphanApplied, Front, Calm
    <3>2. ~LoginReads /\ ~PasswordReads
      BY <1>1, <1>2, <2>2, <3>1, AwaitedFront DEF Awaited
    <3>3. InSession /\ w.id = user.id /\ w.doc = Document(user)
      BY <1>1, <1>2, <2>2, <3>1, FrontIs DEF Control, InPlace, Carried, Calm
    <3>4. user \in Member /\ user # None
      BY <3>3, NoneApart DEF IInv, Sessions
    <3>5. PICK box : box = Last(userBox)
      OBVIOUS
    <3>6. box.user = user
      BY <3>3, <3>5 DEF Calm, Boxed
    <3>7. Excused(i) \/ stored[i].pw = user.pw
      BY <1>2, <3>2, <3>3, <3>4, <3>5, <3>6 DEF Calm, BoxAgrees
    <3>8. stored'[i] = w.doc
      BY <1>2, <1>3, <1>4, AppliedIs DEF IInv
    <3>9. stored'[i].pw = user.pw
      BY <3>3, <3>8 DEF Document
    <3> QED
      BY <1>5, <3>7, <3>9, ExcusedStays
  <2> QED
    BY <2>1, <2>2
<1>7. CASE Again(i)'
  BY <1>7 DEF ChosenOf
<1>8. CASE ~Again(i)'
  BY <1>1, <1>4, <1>5, <1>6, <1>8, ExcusedHash, ChosenKept
<1> QED
  BY <1>7, <1>8

LEMMA ChosenAcknowledgement ==
  ASSUME IInv, Next, Calm, AllBrief, AllBrief', Accounts, Ghosts', Rehashed, NEW i \in Id, ChosenOf(i),
         Acknowledgement
  PROVE  ChosenOf(i)'
<1>1. sent # <<>> /\ other' = other /\ OldSets(i)
  BY FrontTaken
<1>2. CASE Head(sent).id # i
  BY <1>2, ChosenElsewhere
<1>3. CASE Head(sent).id = i /\ Refused
  BY <1>1, <1>3, ChosenKept DEF Refused, made
<1>4. CASE Head(sent).id = i /\ AccountDeleted
  <2>1. PICK w \in GoodWrite : w = Head(sent) /\ w.kind = "delete" /\ w.id = i
    BY <1>4, FrontIs DEF AccountDeleted, Front
  <2>2. Applied(w) /\ w.op = "delete" /\ (user' = user \/ user' = None)
    BY <1>4, <2>1 DEF AccountDeleted, GoodWrite, clearData
  <2>3. stored'[i] = None /\ account' = account
    BY <2>1, <2>2 DEF Applied, IInv, Types
  <2> QED
    BY <1>1, <2>2, <2>3, ChosenKept
<1> QED
  BY <1>2, <1>3, <1>4, ChosenProfile, ChosenPassword, ChosenUpdate DEF Acknowledgement

\* The other device has the document's password, and stores it or another one.
LEMMA ChosenOther ==
  ASSUME IInv, Next, AllBrief, Accounts, NEW i \in Id, ChosenOf(i), OtherDevice
  PROVE  ChosenOf(i)'
<1>1. UNCHANGED <<user, sent>>
  BY DEF OtherDevice, OtherSession, OtherRecord, OtherChange, OtherEdit, OtherDelete, local
<1>2. OldSets(i) /\ Sets(i)' = Sets(i) /\ Fresh(i)' = Fresh(i)
  BY <1>1 DEF OldSets, Sets, Fresh
<1>3. CASE Again(i) \/ Happened("shared", i)
  BY <1>3, ChosenStays
<1>4. ASSUME ~Again(i), ~Happened("shared", i), NEW j \in Id, OtherSession(j)
      PROVE  ChosenOf(i)'
  <2>1. UNCHANGED <<stored, account>> /\ (other' = None \/ (stored[j] # None /\ other' = UserOf(j, stored[j])))
    BY <1>4 DEF OtherSession, made
  <2>2. other' # None /\ other'.id = i => other'.pw = stored[i].pw
    BY <2>1 DEF UserOf
  <2>3. stored'[i] # None => stored'[i].pw = <<account'[i].word, 1>>
    BY <1>4, <2>1 DEF ChosenOf, OneHash
  <2>4. stored'[i] # None /\ other' # None /\ other'.id = i => other'.pw = <<account'[i].word, 1>>
    BY <2>1, <2>2, <2>3
  <2>5. Fresh(i)' => user'.pw[1] = account'[i].word
    BY <1>1, <1>2, <1>4, <2>1 DEF ChosenOf
  <2>6. \A n \in Sets(i)' : sent'[n].doc.pw = <<account'[i].word, 1>>
    BY <1>1, <1>2, <1>4, <2>1 DEF ChosenOf, OneHash
  <2> QED
    BY <2>3, <2>4, <2>5, <2>6 DEF ChosenOf, OneHash
<1>5. CASE ~Again(i) /\ ~Happened("shared", i) /\ (OtherRecord \/ OtherDelete \/ \E course \in Course : OtherEdit(course))
  <2>1. PICK j \in Id : other # None /\ j = other.id /\ other \in Member
    BY <1>5, NoneApart DEF OtherRecord, OtherDelete, OtherEdit, OtherFinds, IInv, Types, Member
  <2>2. account' = account
    BY <1>5 DEF OtherRecord, OtherDelete, OtherEdit, made
  <2>3. other' \in {other, None} \/ (other'.id = other.id /\ other'.pw = other.pw)
    <3>1. ASSUME NEW course \in Course, OtherEdit(course) PROVE other'.id = other.id /\ other'.pw = other.pw
      <4>1. other' = [other EXCEPT !.course = course]
        BY <3>1 DEF OtherEdit
      <4> QED
        BY <2>1, <4>1 DEF Member
    <3> QED
      BY <1>5, <3>1 DEF OtherRecord, OtherDelete
  <2>4. stored'[i] = None \/ (stored[i] # None /\ stored'[i].pw = stored[i].pw)
    <3>1. CASE i # j
      <4>1. stored'[i] = stored[i]
        BY <1>5, <2>1, <3>1 DEF OtherRecord, OtherDelete, OtherEdit, IInv, Types
      <4> QED
        BY <4>1
    <3>2. CASE i = j /\ OtherDelete
      BY <2>1, <3>2 DEF OtherDelete, IInv, Types
    <3>3. CASE i = j /\ ~OtherDelete
      <4>1. stored[i] # None /\ stored[i].pw = OneHash(i) /\ other.pw = OneHash(i)
        BY <1>5, <2>1, <3>3 DEF ChosenOf, OtherRecord, OtherEdit, OtherFinds
      <4>2. CASE OtherRecord
        <5>1. stored'[i] = Document(other)
          BY <2>1, <3>3, <4>2 DEF OtherRecord, IInv, Types
        <5> QED
          BY <4>1, <5>1 DEF Document
      <4>3. ASSUME NEW course \in Course, OtherEdit(course)
            PROVE  stored[i] # None /\ stored'[i].pw = stored[i].pw
        <5>1. PICK u : u = [other EXCEPT !.course = course]
          OBVIOUS
        <5>2. u.pw = other.pw /\ other' = u
          BY <2>1, <4>3, <5>1 DEF OtherEdit, Member
        <5>3. stored' = [stored EXCEPT ![i] = Document(u)]
          BY <2>1, <3>3, <4>3, <5>2 DEF OtherEdit, Document
        <5>4. stored'[i] = Document(u)
          BY <5>3 DEF IInv, Types
        <5> QED
          BY <4>1, <5>2, <5>4 DEF Document
      <4> QED
        BY <1>5, <3>3, <4>2, <4>3
    <3> QED
      BY <3>1, <3>2, <3>3
  <2> QED
    BY <1>1, <1>2, <2>1, <2>2, <2>3, <2>4, ChosenKept
<1>6. ASSUME ~Again(i), ~Happened("shared", i), NEW new \in Word, OtherChange(new)
      PROVE  ChosenOf(i)'
  <2>1. PICK j \in Id : other # None /\ j = other.id /\ stored[j] # None
    BY <1>6 DEF OtherChange, OtherFinds, IInv, Types, Member
  <2>2. /\ stored' = [stored EXCEPT ![j] = [stored[j] EXCEPT !.pw = hashPassword(<<new, 0>>)]]
        /\ account' = [account EXCEPT ![j] = [account[j] EXCEPT !.word = new]]
        /\ other' = UserOf(j, stored'[j])
    BY <1>6, <2>1 DEF OtherChange
  <2>3. CASE i # j
    <3>1. stored'[i] = stored[i] /\ account'[i] = account[i] /\ other'.id # i
      BY <2>1, <2>2, <2>3 DEF UserOf, IInv, Types, Accounts
    <3>2. stored'[i] # None => stored'[i].pw = <<account'[i].word, 1>>
      BY <1>6, <3>1 DEF ChosenOf, OneHash
    <3>3. Fresh(i)' => user'.pw[1] = account'[i].word
      BY <1>1, <1>2, <1>6, <3>1 DEF ChosenOf
    <3>4. \A n \in Sets(i)' : sent'[n].doc.pw = <<account'[i].word, 1>>
      BY <1>1, <1>2, <1>6, <3>1 DEF ChosenOf, OneHash
    <3> QED
      BY <3>1, <3>2, <3>3, <3>4 DEF ChosenOf, OneHash
  <2>4. CASE i = j
    <3>1. stored[i] \in Filled
      BY <2>1, <2>4, StoredIs DEF IInv
    <3>2. stored'[i] = [stored[i] EXCEPT !.pw = hashPassword(<<new, 0>>)]
      BY <2>2, <2>4 DEF IInv, Types
    <3>3. stored'[i].pw = <<new, 1>> /\ other'.pw = <<new, 1>>
      BY <2>2, <2>4, <3>1, <3>2 DEF Filled, hashPassword, UserOf
    <3>4. i \in 1 .. ids
      BY <2>1, <2>4, IdsNat DEF AllBrief, Brief, Given, Known, Id
    <3>5. account[i] \in Made
      BY <3>4 DEF Accounts
    <3>6. account'[i].word = new
      BY <2>2, <2>4, <3>5 DEF Accounts, Made
    <3>7. ~Fresh(i)' /\ Sets(i)' = {}
      BY <1>2, <1>6, <2>1, <2>4, StoredIsOld
    <3> QED
      BY <3>3, <3>6, <3>7 DEF ChosenOf, OneHash
  <2> QED
    BY <2>3, <2>4
<1> QED
  BY <1>3, <1>4, <1>5, <1>6 DEF OtherDevice

LEMMA ChosenStep ==
  ASSUME IInv, Next, Calm, AllBrief, AllBrief', Accounts, Ghosts', Rehashed, Chosen
  PROVE  Chosen'
<1> SUFFICES ASSUME NEW i \in Id PROVE ChosenOf(i)'
  BY DEF Chosen
<1>1. ChosenOf(i)
  BY DEF Chosen
<1>2. CASE \E course \in Course : SubmitProfile(course)
  BY <1>1, <1>2, ChosenSubmit
<1>3. CASE ~(\E course \in Course : SubmitProfile(course)) /\ ~Sync
  BY <1>1, <1>3, ChosenStudent, ChosenAnswer, ChosenAcknowledgement, ChosenOther DEF Next
<1>4. CASE ~(\E course \in Course : SubmitProfile(course)) /\ Sync
  <2>1. UNCHANGED <<user, stored, other, account>> /\ OldSets(i)
    BY <1>4, SyncIs, OldSetsIf
  <2> QED
    BY <1>1, <2>1, ChosenKept
<1> QED
  BY <1>2, <1>3, <1>4

\* What no profile is stored of gets one only from a profile that is on its way.
LEMMA StillNothing ==
  ASSUME IInv, Next, NEW i \in Id, stored[i] = None, Sets(i) = {}
  PROVE  stored'[i] = None
<1>1. CASE Restore \/ Student \/ Answer \/ Kill \/ Refused
  <2>1. stored' = stored
    BY <1>1 DEF Restore, Student, StartSignUp, SubmitProfile, StartLogin, Open, Leave, Record, Logout,
           StartChange, StartEdit, StartDelete, Kill, Refused, Answer, LookedUp, UserRead, CoursesRead,
           QueryFails, PasswordRead, Cleared, cloud
  <2> QED
    BY <2>1
<1>2. CASE Acknowledgement /\ ~Refused
  <2>1. sent # <<>>
    BY <1>2, FrontTaken
  <2>2. PICK w \in GoodWrite : w = Head(sent) /\ w.id \in Id
    BY <2>1, FrontIs
  <2>3. ~(w.op = "set" /\ w.id = i)
    BY <2>1, <2>2, FrontIs DEF Sets
  <2>4. CASE ProfileStored
    <3>1. w.id # i
      BY <2>2, <2>3, <2>4 DEF ProfileStored, GoodWrite
    <3> QED
      BY <2>2, <2>4, <3>1 DEF ProfileStored, IInv, Types
  <2>5. CASE Applied(w)
    <3>1. CASE w.id # i
      BY <2>5, <3>1, AppliedIs DEF IInv
    <3>2. CASE w.id = i
      <4>1. w.op = "delete"
        BY <2>3, <2>5, <3>2 DEF Applied, GoodWrite
      <4> QED
        BY <2>5, <3>2, <4>1 DEF Applied, IInv, Types
    <3> QED
      BY <3>1, <3>2
  <2> QED
    BY <1>2, <2>2, <2>4, <2>5 DEF Acknowledgement, RecordStored, PasswordStored, EditStored,
       AccountDeleted, OrphanApplied
<1>3. CASE OtherDevice
  <2>1. CASE \E j \in Id : OtherSession(j)
    BY <2>1 DEF OtherSession
  <2>2. CASE OtherDelete
    BY <2>2 DEF OtherDelete, IInv, Types
  <2>3. CASE OtherRecord \/ (\E new \in Word : OtherChange(new)) \/ \E course \in Course : OtherEdit(course)
    <3>1. other.id # i
      BY <2>3 DEF OtherRecord, OtherChange, OtherEdit, OtherFinds
    <3> QED
      BY <2>3, <3>1 DEF OtherRecord, OtherChange, OtherEdit, IInv, Types
  <2> QED
    BY <1>3, <2>1, <2>2, <2>3 DEF OtherDevice
<1>4. CASE Sync
  BY <1>4, SyncIs
<1> QED
  BY <1>1, <1>2, <1>3, <1>4 DEF Next

\* The profile screen is that of the account made last.
LEMMA StillElsewhere ==
  ASSUME IInv, Next, Calm, \A c \in calls : ~Born(c), NEW i,
         ~(screen = "fill" /\ user.id = i)
  PROVE  ~(screen = "fill" /\ user.id = i)'
<1> SUFFICES ASSUME screen' = "fill" PROVE screen = "fill" /\ user'.id = user.id
  OBVIOUS
<1>0. InPlace /\ Types /\ Mounted
  BY DEF Calm, Control, IInv
<1>1. CASE Restore \/ Kill
  BY <1>1 DEF Restore, Kill
<1>2. CASE Student
  <2>1. ASSUME NEW course \in Course, SubmitProfile(course) PROVE screen = "fill" /\ user'.id = user.id
    <3>1. user \in User /\ screen = "fill"
      BY <2>1 DEF SubmitProfile, IInv, Sessions
    <3>2. user' = [user EXCEPT !.pw = hashPassword(@), !.course = course]
      BY <2>1 DEF SubmitProfile
    <3> QED
      BY <3>1, <3>2 DEF User
  <2>2. CASE UNCHANGED <<screen, user>>
    BY <2>2
  <2> QED
    BY <1>2, <2>1, <2>2 DEF Student, StartSignUp, StartLogin, Open, Leave, Record, Logout,
       StartChange, StartEdit, StartDelete, clearData
<1>3. CASE Answer
  <2>1. PICK c \in calls : \/ LookedUp(c) \/ UserRead(c) \/ CoursesRead(c)
                           \/ QueryFails(c) \/ PasswordRead(c) \/ Cleared(c)
    BY <1>3 DEF Answer
  <2>2. c \in GoodCall
    BY Facts
  <2>3. CASE LookedUp(c) \/ QueryFails(c)
    BY <2>1, <2>3 DEF LookedUp, Born, QueryFails
  <2>4. CASE CoursesRead(c)
    BY <2>4 DEF CoursesRead, Show
  <2>5. CASE UserRead(c)
    <3>1. c.kind = "login" /\ c.here /\ screen' = screen
      BY <1>0, <2>2, <2>5, CallShape DEF UserRead, InPlace, LoginCall
    <3> QED
      BY <1>0, <3>1 DEF Mounted, ScreenOf
  <2>6. CASE PasswordRead(c) \/ Cleared(c)
    <3>1. c.kind \in {"change", "edit"} /\ screen' \in {screen, "main"}
      BY <2>2, <2>6, CallShape DEF PasswordRead, Cleared, ReadCall, ClearCall, Show
    <3>2. InSession
      BY <1>0, <3>1 DEF InPlace
    <3> QED
      BY <3>1, <3>2 DEF InSession
  <2> QED
    BY <2>1, <2>3, <2>4, <2>5, <2>6
<1>4. CASE Acknowledgement
  <2>1. CASE ProfileStored
    <3>1. PICK w \in GoodWrite : w = Head(sent) /\ w.kind = "fill" /\ sent # <<>>
      BY <2>1, FrontIs DEF ProfileStored
    <3>2. w.here
      BY <1>0, <3>1, FrontIs DEF InPlace
    <3> QED
      BY <2>1, <3>1, <3>2 DEF ProfileStored, Show
  <2>2. CASE ~ProfileStored
    BY <1>4, <2>2 DEF Acknowledgement, RecordStored, PasswordStored, EditStored, AccountDeleted,
       Refused, OrphanApplied, clearData, local
  <2> QED
    BY <2>1, <2>2
<1>5. CASE OtherDevice
  BY <1>5 DEF OtherDevice, OtherSession, OtherRecord, OtherChange, OtherEdit, OtherDelete, local
<1>6. CASE Sync
  BY <1>6, SyncIs
<1> QED
  BY <1>1, <1>2, <1>3, <1>4, <1>5, <1>6 DEF Next

LEMMA NewestStep ==
  ASSUME IInv, Next, Calm, AllBrief, Accounts, Newest
  PROVE  Newest'
<1>0. ids \in Nat /\ 1 .. ids \subseteq Id
  BY SessionAssumption DEF IInv, Types, Id
<1>1. CASE \E c \in calls : Born(c)
  <2>1. PICK c \in calls : Born(c)
    BY <1>1
  <2>2. PICK r : r = [address |-> c.address, capitals |-> c.capitals, word |-> c.word]
    OBVIOUS
  <2>3. /\ account' = [account EXCEPT ![ids + 1] = r] /\ sent' = sent /\ stored' = stored
        /\ ids < MaxId /\ ids' = ids + 1 /\ user'.id = ids + 1 /\ c.here /\ c.at = "lookup"
    BY <2>1, <2>2 DEF Born, LookedUp, cloud
  <2>4. \A i \in 1 .. ids : account'[i] = account[i]
    BY <1>0, <2>3 DEF Accounts
  <2>5. account'[ids + 1] = r /\ ids + 1 \in Id
    <3>1. ids + 1 \in Id
      BY <1>0, <2>3, SessionAssumption DEF Id
    <3> QED
      BY <2>3, <3>1 DEF Accounts
  <2> SUFFICES ASSUME NEW i \in 1 .. ids', NEW j \in 1 .. ids', i < j,
                      account'[i].address = account'[j].address, ~account'[j].capitals
               PROVE  stored'[i] = None /\ Sets(i)' = {} /\ user'.id # i
    BY DEF Newest
  <2>6. i \in 1 .. ids /\ i \in Id /\ (j \in 1 .. ids \/ j = ids + 1)
    BY <1>0, <2>3
  <2>7. user'.id # i /\ Sets(i)' = Sets(i)
    BY <1>0, <2>3, <2>6 DEF Sets
  <2>8. CASE j \in 1 .. ids
    BY <2>3, <2>4, <2>6, <2>7, <2>8 DEF Newest
  <2>9. CASE j = ids + 1
    <3>1. ~c.capitals /\ account[i].address = c.address
      BY <2>2, <2>4, <2>5, <2>6, <2>9
    <3>2. stored[i] = None
      BY <2>1, <2>6, <3>1 DEF Born, Having
    <3>3. screen = "auth"
      <4>1. c.kind = "signup"
        BY <2>3, Facts, CallShape DEF SignUpCall
      <4> QED
        BY <2>3, <4>1 DEF IInv, Mounted, ScreenOf
    <3>4. Sets(i) = {}
      <4> SUFFICES ASSUME NEW n \in 1 .. Len(sent), sent[n].op = "set" PROVE FALSE
        BY DEF Sets
      <4>1. sent[n] \in GoodWrite
        BY DEF IInv, Types
      <4>2. sent[n].kind = "fill"
        BY <4>1 DEF GoodWrite, Calm, Control, InPlace
      <4>3. sent[n].here
        BY <4>2 DEF Calm, Control, InPlace
      <4> QED
        BY <3>3, <4>2, <4>3 DEF IInv, Mounted
    <3> QED
      BY <2>3, <2>7, <3>2, <3>4
  <2> QED
    BY <2>6, <2>8, <2>9
<1>2. CASE \A c \in calls : ~Born(c)
  <2>1. ids' = ids
    <3>1. CASE Answer
      BY <1>2, <3>1 DEF Answer, LookedUp, Born, UserRead, CoursesRead, QueryFails, PasswordRead, Cleared, made
    <3>2. CASE ~Answer
      BY <3>2, SyncIs DEF Next, Restore, Student, StartSignUp, SubmitProfile, StartLogin, Open, Leave, Record, Logout,
         StartChange, StartEdit, StartDelete, Kill, made, Acknowledgement, ProfileStored, RecordStored,
         PasswordStored, EditStored, AccountDeleted, Refused, OrphanApplied, OtherDevice, OtherSession,
         OtherRecord, OtherChange, OtherEdit, OtherDelete
    <3> QED
      BY <3>1, <3>2
  <2> SUFFICES ASSUME NEW i \in 1 .. ids, NEW j \in 1 .. ids, i < j,
                      account'[i].address = account'[j].address, ~account'[j].capitals
               PROVE  stored'[i] = None /\ Sets(i)' = {} /\ ~(screen = "fill" /\ user.id = i)'
    BY <2>1 DEF Newest
  <2>2. account[i].address = account[j].address /\ ~account[j].capitals
    BY AccountsStep
  <2>3. stored[i] = None /\ Sets(i) = {} /\ ~(screen = "fill" /\ user.id = i)
    BY <2>2 DEF Newest
  <2>4. i \in Id
    BY <1>0
  <2>5. stored'[i] = None
    BY <2>3, <2>4, StillNothing
  <2>6. ~(screen = "fill" /\ user.id = i)'
    BY <1>2, <2>3, StillElsewhere
  <2>7. Sets(i)' = {}
    <3>1. CASE ~\E course \in Course : SubmitProfile(course)
      BY <2>3, <2>4, <3>1, OldSetsIf DEF OldSets
    <3>2. ASSUME NEW course \in Course, SubmitProfile(course) PROVE Sets(i)' = {}
      <4>1. PICK w : w.id = user.id /\ Send(w) /\ screen = "fill"
        <5>1. user \in User
          BY <3>2 DEF SubmitProfile, IInv, Sessions
        <5>2. PICK u : u = [user EXCEPT !.pw = hashPassword(@), !.course = course]
          OBVIOUS
        <5>3. u.id = user.id
          BY <5>1, <5>2 DEF User
        <5> QED
          BY <3>2, <5>2, <5>3 DEF SubmitProfile
      <4>2. PICK S : S = GoodWrite \cup {w}
        OBVIOUS
      <4>3. sent \in Seq(S) /\ w \in S /\ sent' = Append(sent, w) /\ Len(sent) \in Nat
        BY <4>1, <4>2 DEF IInv, Types, Send
      <4>4. /\ Len(sent') = Len(sent) + 1 /\ sent'[Len(sent) + 1] = w
            /\ \A n \in 1 .. Len(sent) : sent'[n] = sent[n]
        BY <4>3, AppendProperties
      <4>5. \A n \in 1 .. Len(sent') : n \in 1 .. Len(sent) \/ n = Len(sent) + 1
        BY <4>3, <4>4
      <4> QED
        BY <2>3, <4>1, <4>4, <4>5 DEF Sets
    <3> QED
      BY <3>1, <3>2
  <2> QED
    BY <2>5, <2>6, <2>7
<1> QED
  BY <1>1, <1>2

\* What whoever signs in finds.
Found == Accounts /\ Ghosts /\ Rehashed /\ (Clean => Chosen /\ Newest)

LEMMA FoundInit == Init => Found
<1> SUFFICES ASSUME Init PROVE Found
  OBVIOUS
<1>1. /\ screen = "splash" /\ Len(sent) = 0 /\ history = {} /\ ids = 0 /\ user = None
      /\ account = [i \in Id |-> None] /\ stored = [i \in Id |-> None]
  BY DEF Init
<1>2. 1 .. ids = {}
  BY <1>1
<1>3. Accounts /\ Ghosts /\ Rehashed /\ Newest
  BY <1>1, <1>2 DEF Accounts, Ghosts, Rehashed, Newest, Happened
<1>4. Chosen
  BY <1>1 DEF Chosen, ChosenOf, Fresh, Sets
<1> QED
  BY <1>3, <1>4 DEF Found

LEMMA FoundStep ==
  ASSUME IInv, AllBrief, Settled, Found, [Next]_vars
  PROVE  Found'
<1>1. CASE Next
  <2>1. Accounts' /\ Ghosts' /\ Rehashed' /\ AllBrief'
    BY <1>1, AccountsStep, GhostsStep, RehashedStep, BriefAlways DEF Found
  <2>2. ASSUME Clean' PROVE Chosen' /\ Newest'
    <3>1. Calm /\ Chosen /\ Newest
      BY <1>1, <2>2, CleanStays DEF Settled, Found
    <3> QED
      BY <1>1, <2>1, <3>1, ChosenStep, NewestStep DEF Found
  <2> QED
    BY <2>1, <2>2 DEF Found
<1>2. CASE UNCHANGED vars
  <2>1. UNCHANGED <<screen, user, sent, stored, other, account, ids, history>>
    BY <1>2 DEF vars, local, cloud, made
  <2>2. Accounts' /\ Ghosts' /\ Rehashed'
    BY <2>1 DEF Found, Accounts, Ghosts, Rehashed, Deleted, Happened
  <2>3. ASSUME Clean' PROVE Chosen' /\ Newest'
    <3>1. Chosen /\ Newest
      BY <2>1, <2>3 DEF Found, Clean, Left, Cut, Failed, Happened
    <3>2. Newest'
      BY <2>1, <3>1 DEF Newest, Sets
    <3>3. Chosen'
      BY <2>1, <3>1 DEF Chosen, ChosenOf, OneHash, Fresh, Sets, Again, Happened
    <3> QED
      BY <3>2, <3>3
  <2> QED
    BY <2>2, <2>3 DEF Found
<1> QED
  BY <1>1, <1>2

\* Whoever has an account can sign in with the password chosen last, for any number of
\* accounts, addresses and passwords: the document has its hash, and no later account
\* has the same address (signin.dart takes the first document it finds), unless the
\* address was typed with capitals (signup.dart:541), a profile was submitted twice
\* (fill_profile.dart:370), or an old user was stored over the new password by a handler
\* that overlapped, was cut or failed half-way, or with a second device
\* (authProvider.dart:91).
THEOREM WhoeverHasAnAccountSignsIn == Spec => []CanSignIn
<1>1. Init => IInv /\ AllBrief /\ Settled /\ Found
  BY InvInit, SettledInit, FoundInit
<1>2. IInv /\ AllBrief /\ Settled /\ Found /\ [Next]_vars => (IInv /\ AllBrief /\ Settled /\ Found)'
  BY InvStep, BriefAlways, SettledStep, FoundStep
<1>3. IInv /\ AllBrief /\ Found => CanSignIn
  <2> SUFFICES ASSUME IInv, AllBrief, Found, Clean, NEW i \in Id, stored[i] # None,
                      ~Again(i), ~Happened("shared", i)
               PROVE  /\ stored[i].pw = hashPassword(<<account[i].word, 0>>)
                      /\ \A j \in Having(account[i].address) : j > i => account[j].capitals
    BY DEF CanSignIn, Clean, Left, Cut, Failed, Again
  <2>1. stored[i].pw = OneHash(i)
    BY DEF Found, Chosen, ChosenOf
  <2>2. stored[i].pw = hashPassword(<<account[i].word, 0>>)
    BY <2>1 DEF OneHash, hashPassword
  <2>3. ASSUME NEW j \in Id, stored[j] # None PROVE j \in 1 .. ids
    <3>1. j <= ids
      BY <2>3 DEF AllBrief, Brief, Given, Known
    <3> QED
      BY <3>1, IdsNat, SessionAssumption DEF Id
  <2>4. ASSUME NEW j \in Having(account[i].address), j > i PROVE account[j].capitals
    <3>1. j \in 1 .. ids /\ account[j].address = account[i].address
      BY <2>3, <2>4 DEF Having
    <3>2. i \in 1 .. ids
      BY <2>3
    <3>3. i < j
      BY <2>4, <3>1, <3>2, IdsNat
    <3> QED
      BY <3>1, <3>2, <3>3 DEF Found, Newest
  <2> QED
    BY <2>2, <2>4
<1> QED
  BY <1>1, <1>2, <1>3, PTL DEF Spec

=============================================================================
