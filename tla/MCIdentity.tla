----------------------------- MODULE MCIdentity -----------------------------
(* Small instances of Identity. *)
EXTENDS Identity, TLC

CONSTANT MaxCrossed

\* At most MaxCrossed kinds of overlap in one behaviour: what a property says
\* of the others is excused after one of its own.
MCSpec == Init /\ [][Next /\ Cardinality(crossed') <= MaxCrossed]_vars

Symmetry == Permutations(User) \cup Permutations(Token) \cup Permutations(Login)
               \cup Permutations(Subject) \cup Permutations(Address)
=============================================================================
