--------------------------- MODULE MCIdentifiers ---------------------------
(* Model checking of Identifiers. *)
EXTENDS Identifiers, TLC

\* No property tells one name from another.
Symmetry == Permutations(Names)
=============================================================================
