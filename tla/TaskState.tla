------------------------------ MODULE TaskState ------------------------------
(***************************************************************************)
(* The sleep/wake-up contract of the scheduler that every blocking         *)
(* primitive of the kernel is written against: the state word of a task,   *)
(* the signals pending for it, wake-ups filtered by a mask of states, and  *)
(* schedule(), which gives up the CPU only if the state word still says    *)
(* that the task wants to sleep.                                           *)
(*                                                                         *)
(* The state word is the set of its bits; TASK_RUNNING has none.  The run  *)
(* queues are left out: try_to_wake_up() sets the state to TASK_RUNNING    *)
(* whether or not the task had already been taken off its queue, so a task *)
(* can return from schedule() exactly when its state is TASK_RUNNING.      *)
(***************************************************************************)
EXTENDS Naturals

CONSTANT Tasks

VARIABLES state,      \* task_struct.state, as a set of bits
          pending     \* the most severe signal pending for the task

taskVars == <<state, pending>>

TASK_RUNNING         == {}
TASK_INTERRUPTIBLE   == {"INTERRUPTIBLE"}
TASK_UNINTERRUPTIBLE == {"UNINTERRUPTIBLE"}
TASK_KILLABLE        == {"UNINTERRUPTIBLE", "WAKEKILL"}
TASK_ALL             == {"INTERRUPTIBLE", "UNINTERRUPTIBLE"}

SleepStates == {TASK_INTERRUPTIBLE, TASK_UNINTERRUPTIBLE, TASK_KILLABLE}

\* "signal": TIF_SIGPENDING is set; "fatal": SIGKILL is pending as well.
Signals == {"none", "signal", "fatal"}

TaskTypeOK == /\ state \in [Tasks -> SleepStates \cup {TASK_RUNNING}]
              /\ pending \in [Tasks -> Signals]

TaskInit == /\ state = [t \in Tasks |-> TASK_RUNNING]
            /\ pending = [t \in Tasks |-> "none"]

\* Is a sleep in state st to be broken off by the signals pending for t?
signal_pending_state(st, t) ==
    \/ "INTERRUPTIBLE" \in st /\ pending[t] # "none"
    \/ "WAKEKILL" \in st /\ pending[t] = "fatal"

\* The states after waking task p if it sleeps in one of the states of mask.
try_to_wake_up(p, mask) ==
    [state EXCEPT ![p] = IF @ \cap mask = {} THEN @ ELSE TASK_RUNNING]

wake_up_process(p) == try_to_wake_up(p, TASK_ALL)

\* A signal is delivered to t: it is marked pending, and t is woken if it
\* sleeps interruptibly, or killably and the signal is fatal.
signal_wake_up(t, sig) ==
    /\ \/ pending[t] = "none" /\ sig \in {"signal", "fatal"}
       \/ pending[t] = "signal" /\ sig = "fatal"
    /\ pending' = [pending EXCEPT ![t] = sig]
    /\ state' = try_to_wake_up(t, IF sig = "fatal"
                                  THEN {"INTERRUPTIBLE", "WAKEKILL"}
                                  ELSE {"INTERRUPTIBLE"})

\* Task t returns from schedule(): it was woken, or schedule() noticed a
\* signal that its sleep must give way to and put it back to TASK_RUNNING.
schedule(t) ==
    /\ state[t] = TASK_RUNNING \/ signal_pending_state(state[t], t)
    /\ state' = [state EXCEPT ![t] = TASK_RUNNING]
==============================================================================
