------------------------------ MODULE MCLedger ------------------------------
(* Instances of Ledger for TLC. *)
EXTENDS Ledger

\* A student who types the sentinel, as '-1'.
TypedSentinel == {Unset}

\* A student who never edits the profile, and a process that is not killed.
SpecUninterrupted == Init /\ [][Recording \/ Editing \/ Storage]_vars

\* One who changes only the semester the home tab shows.
SpecFromHome == Init /\ [][Next /\ screen' # "past"]_vars

=============================================================================
