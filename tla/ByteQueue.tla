------------------------------ MODULE ByteQueue ------------------------------
(***************************************************************************)
(* What a bounded byte FIFO promises: bytes come out in the order and with *)
(* the values they were put in, none is lost, repeated or made up, and no  *)
(* more than the capacity are ever inside.                                 *)
(***************************************************************************)
EXTENDS Naturals, Sequences

CONSTANTS Data, MaxSize

VARIABLES capacity,    \* fixed when the FIFO is made
          queue,       \* the bytes inside, oldest first
          accepted,    \* the bytes the last Put took
          fetched      \* the bytes the last Get returned

vars == <<capacity, queue, accepted, fetched>>

Init == /\ capacity \in 1..MaxSize
        /\ queue = <<>> /\ accepted = <<>> /\ fetched = <<>>

Put == \E n \in 0 .. capacity - Len(queue) : \E bytes \in [1..n -> Data] :
          /\ queue' = queue \o bytes
          /\ accepted' = bytes
          /\ UNCHANGED <<capacity, fetched>>

Get == \E n \in 0..Len(queue) :
          /\ fetched' = SubSeq(queue, 1, n)
          /\ queue' = SubSeq(queue, n + 1, Len(queue))
          /\ UNCHANGED <<capacity, accepted>>

Reset == queue' = <<>> /\ UNCHANGED <<capacity, accepted, fetched>>

Next == Put \/ Get

Spec == Init /\ [][Next]_vars

\* A queue that may also be emptied.
ResettableSpec == Init /\ [][Next \/ Reset]_vars
==============================================================================
