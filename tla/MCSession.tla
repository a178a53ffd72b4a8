----------------------------- MODULE MCSession ------------------------------
(* Instances of Session for TLC. *)
EXTENDS Session, TLC

Symmetric == Permutations(Word) \cup Permutations(Course)

\* Bound: behaviours are followed until a second of the things happened that excuse
\* a property.
OneMishap == Cardinality({h \in history : h[1] # "deleted"}) + (IF mixed THEN 1 ELSE 0) <= 1

\* Bound: two handlers and syncs wait for an answer together.
TwoAtOnce == Cardinality(calls) + Cardinality(syncs) <= 2

=============================================================================
