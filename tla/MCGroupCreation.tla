--------------------------- MODULE MCGroupCreation ---------------------------
(* Model checking of GroupCreation. *)
EXTENDS GroupCreation

CONSTANTS alice, bob, g1, g2

OneInitiator == [n \in Names |-> alice]
=============================================================================
