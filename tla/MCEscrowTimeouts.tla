-------------------------- MODULE MCEscrowTimeouts --------------------------
(* EscrowTimeouts on a small instance. *)
EXTENDS EscrowTimeouts
=============================================================================
