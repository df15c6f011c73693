------------------------------ MODULE MCWatchdog ----------------------------
(***************************************************************************)
(* A gateway with its authenticated probe, and a service without any.      *)
(***************************************************************************)
EXTENDS Watchdog

=============================================================================
