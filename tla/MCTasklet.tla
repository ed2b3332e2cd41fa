------------------------------ MODULE MCTasklet ------------------------------
(* Instances of Tasklet for TLC. *)
EXTENDS Tasklet
==============================================================================
