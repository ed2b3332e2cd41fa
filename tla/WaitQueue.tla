------------------------------ MODULE WaitQueue ------------------------------
(***************************************************************************)
(* Wait queues: the scan of a queue by __wake_up_common() in               *)
(* kernel/sched.c, over the task states of TaskState.                      *)
(*                                                                         *)
(* try_to_wake_up() reports success only for a task that had already been  *)
(* taken off its run queue.  A task that announced its sleep and did not   *)
(* get as far as schedule() is made TASK_RUNNING all the same, but it does *)
(* not count as the one exclusive task to be woken and the scan goes on.   *)
(* That is why the run queue, on which TaskState does not depend, is a     *)
(* variable here.                                                          *)
(***************************************************************************)
EXTENDS TaskState, KList, FiniteSets

VARIABLE on_rq      \* task_struct.se.on_rq

wqVars == <<taskVars, on_rq>>

WaitQueueTypeOK == /\ TaskTypeOK
                   /\ on_rq \in [Tasks -> BOOLEAN]

WaitQueueInit == /\ TaskInit
                 /\ on_rq = [t \in Tasks |-> TRUE]

\* TASK_NORMAL, the mask of the wake-ups of wait queues.
TASK_NORMAL == TASK_ALL

\* The tasks whose try_to_wake_up() would return 1.
WakesUp(mask) == {t \in Tasks : state[t] \cap mask # {} /\ ~on_rq[t]}

\* The entries of q whose wake-up function is called: the scan ends after the
\* nr-th exclusive entry whose function succeeds, and never if nr is 0.
Scanned(q, nr, exclusive, succeeds) ==
    {q[i] : i \in {k \in 1..Len(q) :
                      nr = 0 \/ Cardinality({j \in 1 .. k - 1 :
                                  q[j] \in exclusive \cap succeeds}) < nr}}

\* try_to_wake_up() on each of the tasks in ts.
wake_up_all(ts, mask) ==
    /\ state' = [t \in Tasks |-> IF t \in ts /\ state[t] \cap mask # {}
                                 THEN TASK_RUNNING ELSE state[t]]
    /\ on_rq' = [t \in Tasks |-> on_rq[t] \/ state'[t] = TASK_RUNNING]

\* schedule(), first half: t still wants to sleep and leaves the run queue.
schedule_out(t) ==
    /\ on_rq[t]
    /\ state[t] # TASK_RUNNING
    /\ ~signal_pending_state(state[t], t)
    /\ on_rq' = [on_rq EXCEPT ![t] = FALSE]
    /\ UNCHANGED taskVars

\* schedule(), second half: t is on the run queue and is given the CPU again.
schedule_in(t) ==
    /\ on_rq[t]
    /\ schedule(t)
    /\ UNCHANGED <<pending, on_rq>>

\* The signal sig reaches t; a sleeper that reacts to it is put on the run queue.
deliver_signal(t, sig) ==
    /\ signal_wake_up(t, sig)
    /\ on_rq' = [on_rq EXCEPT ![t] = @ \/ state'[t] = TASK_RUNNING]
==============================================================================
