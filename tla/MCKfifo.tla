------------------------------- MODULE MCKfifo -------------------------------
(* Instances of Kfifo for TLC. *)
EXTENDS Kfifo
==============================================================================
