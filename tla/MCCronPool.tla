----------------------------- MODULE MCCronPool -----------------------------
(* Instances of CronPool for TLC. *)
EXTENDS CronPool
=============================================================================
