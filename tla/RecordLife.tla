----------------------------- MODULE RecordLife -----------------------------
(***************************************************************************)
(* What becomes of a student's records, without devices, syncs, calls or   *)
(* documents.  A record is pending until a copy of it is stored in the     *)
(* cloud; a pending record may be lost, for good; a stored one leaves the  *)
(* cloud only by being erased, and may be stored again from a copy that    *)
(* was still pending.  RecordSync is shown to implement this.              *)
(***************************************************************************)
EXTENDS Naturals

CONSTANT MaxStamp

Record == 1 .. MaxStamp

VARIABLE life   \* life[t]: the stage of record t

Stage == {"none", "pending", "stored", "erased", "lost"}

Init == life = [t \in Record |-> "none"]

Become(T, from, to) ==
  /\ \A t \in T : life[t] \in from
  /\ life' = [t \in Record |-> IF t \in T THEN to ELSE life[t]]

\* The student records a result.
Create(t) == Become({t}, {"none"}, "pending")

\* A copy of the record is stored in the cloud.
Save(t) == Become({t}, {"pending", "stored", "erased"}, "stored")

\* Records that only existed on a device cease to exist.
Lose(T) == Become(T, {"pending"}, "lost")

\* Stored records are deleted from the cloud.
Erase(T) == Become(T, {"stored"}, "erased")

Next ==
  \/ \E t \in Record : Create(t) \/ Save(t)
  \/ \E T \in SUBSET Record : Lose(T) \/ Erase(T)

Spec == Init /\ [][Next]_life

=============================================================================
