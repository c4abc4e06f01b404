------------------------- MODULE MCCredentialExchange -------------------------
(* Model checking of CredentialExchange. *)
EXTENDS CredentialExchange
=============================================================================
