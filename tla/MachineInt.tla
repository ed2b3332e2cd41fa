----------------------------- MODULE MachineInt -----------------------------
(***************************************************************************)
(* The ints of the machine.  Counters and indices of the kernel run freely *)
(* and wrap; unsigned and two's complement arithmetic agree on their       *)
(* values modulo 2^32, for which Modulus stands.                           *)
(***************************************************************************)
EXTENDS Integers

CONSTANT Modulus     \* an int wraps here: 2^32 in the code

\* A sum or difference of two values below Modulus.
Wrap(x) == IF x < 0 THEN x + Modulus ELSE IF x >= Modulus THEN x - Modulus ELSE x
=============================================================================
