----------------------------- MODULE FifoRwLock ------------------------------
(***************************************************************************)
(* What a fair readers/writer lock promises: requests queue up in order of *)
(* arrival, and after every request, release or downgrade as many of them  *)
(* are admitted from the front as may hold the lock together: one writer   *)
(* alone, or every reader up to the next writer.                           *)
(***************************************************************************)
EXTENDS Naturals, Sequences

CONSTANT Tasks

VARIABLES readers, writers,   \* the tasks the lock was given to
          queue               \* the requests not admitted yet, <<task, kind>>

vars == <<readers, writers, queue>>

Init == readers = {} /\ writers = {} /\ queue = <<>>

\* The requests of q in front of its first writer.
ReadPrefix(q) == CHOOSE n \in 0..Len(q) :
                    /\ \A i \in 1..n : q[i][2] = "read"
                    /\ n < Len(q) => q[n + 1][2] = "write"

\* The lock is held by rs or ws, requests q are queued: admit what can be.
Settle(rs, ws, q) ==
    IF ws = {} /\ rs = {} /\ q # <<>> /\ Head(q)[2] = "write"
    THEN readers' = {} /\ writers' = {Head(q)[1]} /\ queue' = Tail(q)
    ELSE LET n == IF ws = {} THEN ReadPrefix(q) ELSE 0
         IN  /\ readers' = rs \cup {q[i][1] : i \in 1..n}
             /\ writers' = ws
             /\ queue' = SubSeq(q, n + 1, Len(q))

Inside(t) == \/ t \in readers \cup writers
             \/ \E i \in 1..Len(queue) : queue[i][1] = t

Request(t, k) == ~Inside(t) /\ Settle(readers, writers, Append(queue, <<t, k>>))

Release(t) == /\ t \in readers \cup writers
              /\ Settle(readers \ {t}, writers \ {t}, queue)

Downgrade(t) == t \in writers /\ Settle({t}, {}, queue)

Next == \E t \in Tasks : \/ \E k \in {"read", "write"} : Request(t, k)
                         \/ Release(t)
                         \/ Downgrade(t)

Spec == Init /\ [][Next]_vars
==============================================================================
