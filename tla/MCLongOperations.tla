-------------------------- MODULE MCLongOperations --------------------------
(* Model checking of LongOperations. *)
EXTENDS LongOperations
=============================================================================
