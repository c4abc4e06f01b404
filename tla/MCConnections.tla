--------------------------- MODULE MCConnections ---------------------------
(* Model checking of Connections. *)
EXTENDS Connections, TLC

CONSTANTS i1, i2, c1

\* Two identifiers connected with one contact.
MCPairs == {<<i1, c1>>, <<i2, c1>>}

\* No property tells one identifier from another.
Symmetry == Permutations({i1, i2})
=============================================================================
