-------------------------- MODULE MCBreakerClients --------------------------
(* An instance of BreakerClients for TLC. *)
EXTENDS BreakerClients

=============================================================================
