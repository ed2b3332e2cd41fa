---------------------------- MODULE ExclusiveLock ----------------------------
(***************************************************************************)
(* What a sleeping lock promises, however its users meet: it is owned by   *)
(* at most one task, a task gets it only while nobody owns it, and nobody  *)
(* but its owner lets go of it.                                            *)
(***************************************************************************)
CONSTANT Tasks

VARIABLE owners     \* the set of tasks that own the lock

Init == owners = {}

Acquire(t) == owners = {} /\ owners' = {t}

Release(t) == owners = {t} /\ owners' = {}

Next == \E t \in Tasks : Acquire(t) \/ Release(t)

Spec == Init /\ [][Next]_owners
==============================================================================
