---------------------------- MODULE MCRecordSync ----------------------------
(* Instances of RecordSync for TLC. *)
EXTENDS RecordSync, TLC

Symmetric == Permutations(Device) \cup Permutations(Account) \cup Permutations(Slot)

=============================================================================
