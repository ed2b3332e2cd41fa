---------------------------- MODULE FifoSemaphore ----------------------------
(***************************************************************************)
(* What a counting semaphore promises, without sleeping, signals, timers   *)
(* or a lock: permits that are free or held, and a queue that is served    *)
(* strictly in order.  Nobody takes a permit past the queue, a permit that *)
(* is released while tasks wait goes to the first of them, and a task that *)
(* gives up waiting leaves without a permit and without costing one.       *)
(***************************************************************************)
EXTENDS KList

CONSTANTS Tasks, InitCount

VARIABLES avail,      \* free permits
          queue,      \* the tasks that wait, in order of arrival
          holders     \* the tasks that own a permit

vars == <<avail, queue, holders>>

Init == avail = InitCount /\ queue = <<>> /\ holders = {}

Outside(t) == t \notin holders /\ t \notin Members(queue)

Take(t) == /\ Outside(t)
           /\ queue = <<>>
           /\ avail > 0
           /\ avail' = avail - 1
           /\ holders' = holders \cup {t}
           /\ UNCHANGED queue

Join(t) == /\ Outside(t)
           /\ avail = 0
           /\ queue' = list_add_tail(queue, t)
           /\ UNCHANGED <<avail, holders>>

GiveUp(t) == /\ t \in Members(queue)
             /\ queue' = list_del(queue, t)
             /\ UNCHANGED <<avail, holders>>

\* A permit comes back while the tasks of hs hold theirs.
Return(hs) == \/ /\ queue = <<>>
                 /\ avail' = avail + 1
                 /\ holders' = hs
                 /\ UNCHANGED queue
              \/ /\ queue # <<>>
                 /\ queue' = Tail(queue)
                 /\ holders' = hs \cup {Head(queue)}
                 /\ UNCHANGED avail

Release(t) == t \in holders /\ Return(holders \ {t})

Produce == Return(holders)

Next == \/ \E t \in Tasks : Take(t) \/ Join(t) \/ GiveUp(t) \/ Release(t)
        \/ Produce

Spec == Init /\ [][Next]_vars
==============================================================================
