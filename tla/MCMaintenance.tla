---------------------------- MODULE MCMaintenance ----------------------------
(***************************************************************************)
(* Maintenance for TLC: two jobs of the three that main.py registers.  The *)
(* third cleans up a table that nothing writes, and delays the others as   *)
(* the first does.                                                         *)
(***************************************************************************)
EXTENDS Maintenance

RegisteredJobs == <<"cleanup_webhooks", "reconciliation">>
===============================================================================
