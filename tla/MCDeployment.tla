---------------------------- MODULE MCDeployment ----------------------------
(* A task and the watchdog. *)
EXTENDS Deployment

TaskAndWatchdog == <<"Gateway", "Watchdog">>

=============================================================================
