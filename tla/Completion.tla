------------------------------ MODULE Completion -----------------------------
(***************************************************************************)
(* Completions (kernel/sched.c, include/linux/completion.h).  Everything   *)
(* done under x->wait.lock is one step; a waiter gives the lock up around  *)
(* schedule_timeout(), where completions, signals, timers and other        *)
(* waiters that take the event interleave.                                 *)
(*                                                                         *)
(* done is an unsigned int: Modulus stands for 2^32.                       *)
(***************************************************************************)
EXTENDS WaitQueue, MachineInt

CONSTANT Victims      \* bound: the tasks that signals are sent to

ASSUME CompletionAssumption == /\ Modulus \in Nat /\ Modulus >= 4
                               /\ IsFiniteSet(Tasks)

VARIABLES done,     \* x->done
          wait,     \* x->wait.task_list, the waiting tasks in order
          pc,       \* where the task is
          frame     \* the parameters of do_wait_for_common()

eventVars == <<done, wait, pc, frame>>
completionVars == <<wqVars, eventVars>>

\* A timeout is MAX_SCHEDULE_TIMEOUT, a number of jiffies (0 is one that the
\* timer ends at once), or 0 as the result of schedule_timeout().
Frames   == [state : SleepStates, timeout : {"max", "finite", "expired"}]
NoFrame  == [state |-> TASK_UNINTERRUPTIBLE, timeout |-> "max"]

CompletionTypeOK ==
    /\ WaitQueueTypeOK
    /\ done \in 0 .. Modulus - 1
    /\ wait \in Seq(Tasks)
    /\ pc \in [Tasks -> {"idle", "sched", "relock"}]
    /\ frame \in [Tasks -> Frames]

CompletionInit ==
    /\ WaitQueueInit
    /\ done = 0
    /\ wait = <<>>
    /\ pc = [t \in Tasks |-> "idle"]
    /\ frame = [t \in Tasks |-> NoFrame]

------------------------------------------------------------------------------
\* The end of a wait: t is off the queue, and its event if it had one is gone.
leave(t, q, left) ==
    /\ wait' = q
    /\ done' = left
    /\ pc' = [pc EXCEPT ![t] = "idle"]
    /\ frame' = [frame EXCEPT ![t] = NoFrame]
    /\ UNCHANGED state

\* Faulty variant: a waiter that is interrupted stays on the queue.
wait_round_keeps_entry(t, q, f) ==
    \/ /\ signal_pending_state(f.state, t)
       /\ leave(t, q, done)
    \/ /\ ~signal_pending_state(f.state, t)
       /\ wait' = q
       /\ state' = [state EXCEPT ![t] = f.state]
       /\ pc' = [pc EXCEPT ![t] = "sched"]
       /\ frame' = [frame EXCEPT ![t] = f]
       /\ UNCHANGED done

\* One pass through the body of the loop of do_wait_for_common(), entered with
\* the lock held and done = 0: leave on a signal, or announce the sleep.
wait_round(t, q, f) ==
    \/ /\ signal_pending_state(f.state, t)
       /\ leave(t, list_del(q, t), done)
    \/ /\ ~signal_pending_state(f.state, t)
       /\ wait' = q
       /\ state' = [state EXCEPT ![t] = f.state]
       /\ pc' = [pc EXCEPT ![t] = "sched"]
       /\ frame' = [frame EXCEPT ![t] = f]
       /\ UNCHANGED done

\* The call: take an event that is already there, or queue up.
wait_for_common(t, st, tmo) ==
    /\ pc[t] = "idle"
    /\ \/ done # 0 /\ leave(t, wait, done - 1)
       \/ done = 0 /\ wait_round(t, list_add_tail(wait, t),
                                 [state |-> st, timeout |-> tmo])
    /\ UNCHANGED <<pending, on_rq>>

wait_for_completion(t)         == wait_for_common(t, TASK_UNINTERRUPTIBLE, "max")
wait_for_completion_timeout(t) == wait_for_common(t, TASK_UNINTERRUPTIBLE, "finite")
wait_for_completion_interruptible(t) ==
    wait_for_common(t, TASK_INTERRUPTIBLE, "max")
wait_for_completion_interruptible_timeout(t) ==
    wait_for_common(t, TASK_INTERRUPTIBLE, "finite")
wait_for_completion_killable(t) == wait_for_common(t, TASK_KILLABLE, "max")

\* Failing changes nothing, so only the success is a step.
try_wait_for_completion(t) ==
    /\ pc[t] = "idle"
    /\ done # 0
    /\ done' = done - 1
    /\ UNCHANGED <<wqVars, wait, pc, frame>>

\* schedule_timeout() gives up the CPU ...
timeout_sleep(t) == /\ pc[t] = "sched"
                    /\ schedule_out(t)
                    /\ UNCHANGED eventVars

\* ... and returns the jiffies that are left, perhaps none although it was
\* not the timer that ended the sleep.
schedule_timeout(t) ==
    /\ pc[t] = "sched"
    /\ schedule_in(t)
    /\ pc' = [pc EXCEPT ![t] = "relock"]
    /\ \E left \in {frame[t].timeout} \cup
                   (IF frame[t].timeout = "finite" THEN {"expired"} ELSE {}) :
          frame' = [frame EXCEPT ![t] = [state |-> @.state, timeout |-> left]]
    /\ UNCHANGED <<done, wait>>

\* The timer of schedule_timeout() expires and wakes the sleeper.
process_timeout(t) ==
    /\ pc[t] = "sched"
    /\ frame[t].timeout = "finite"
    /\ frame' = [frame EXCEPT ![t] = [state |-> @.state, timeout |-> "expired"]]
    /\ wake_up_all({t}, TASK_ALL)
    /\ UNCHANGED <<pending, done, wait, pc>>

\* The waiter has the lock again: an event is there, or its time is up, or it
\* goes round.
wait_relock(t) ==
    /\ pc[t] = "relock"
    /\ \/ done # 0 /\ leave(t, list_del(wait, t), done - 1)
       \/ done = 0 /\ frame[t].timeout = "expired" /\ leave(t, list_del(wait, t), 0)
       \/ done = 0 /\ frame[t].timeout # "expired" /\ wait_round(t, wait, frame[t])
    /\ UNCHANGED <<pending, on_rq>>

\* Faulty variant: only the first waiter is looked at, woken already or not.
wake_up_common_first(nr) ==
    wake_up_all(IF wait # <<>> THEN {Head(wait)} ELSE {}, TASK_NORMAL)

\* Faulty variant: only interruptible sleeps are ended.
wake_up_common_interruptible(nr) ==
    wake_up_all(Scanned(wait, nr, Tasks, WakesUp(TASK_INTERRUPTIBLE)), TASK_INTERRUPTIBLE)

\* All waiters of a completion are exclusive.
wake_up_common(nr) ==
    wake_up_all(Scanned(wait, nr, Tasks, WakesUp(TASK_NORMAL)), TASK_NORMAL)

\* The event count goes up by n; a wrap of done would take 2^31 complete()s
\* or several complete_all()s without INIT_COMPLETION().
post(n, nr) ==
    /\ done + n < Modulus
    /\ done' = done + n
    /\ wake_up_common(nr)
    /\ UNCHANGED <<pending, wait, pc, frame>>

complete == post(1, 1)

complete_all == post((Modulus - 1) \div 2, 0)

\* INIT_COMPLETION() puts done back to 0 without the lock: the caller sees to
\* it that nobody waits or completes.
INIT_COMPLETION ==
    /\ wait = <<>>
    /\ done' = 0
    /\ UNCHANGED <<wqVars, wait, pc, frame>>

Signal(t) == /\ t \in Victims
             /\ \E sig \in {"signal", "fatal"} : deliver_signal(t, sig)
             /\ UNCHANGED eventVars

HandleSignal(t) == /\ pc[t] = "idle"
                   /\ pending[t] # "none"
                   /\ pending' = [pending EXCEPT ![t] = "none"]
                   /\ UNCHANGED <<state, on_rq, eventVars>>

WaitCall(t) == \/ wait_for_completion(t)
               \/ wait_for_completion_timeout(t)
               \/ wait_for_completion_interruptible(t)
               \/ wait_for_completion_interruptible_timeout(t)
               \/ wait_for_completion_killable(t)

KernelStep(t) == \/ timeout_sleep(t) \/ schedule_timeout(t)
                 \/ process_timeout(t) \/ wait_relock(t)

CompletionNext ==
    \/ \E t \in Tasks : \/ WaitCall(t) \/ try_wait_for_completion(t)
                        \/ KernelStep(t) \/ Signal(t) \/ HandleSignal(t)
    \/ complete \/ complete_all \/ INIT_COMPLETION

CompletionSpec == CompletionInit /\ [][CompletionNext]_completionVars

(***************************************************************************)
(* Fairness: a runnable task is given the CPU, x->wait.lock is held for a  *)
(* few instructions only, and a timer that is set expires.                 *)
(***************************************************************************)
CompletionFairSpec == CompletionSpec /\ \A t \in Tasks : WF_completionVars(KernelStep(t))

------------------------------------------------------------------------------
Waiting(t) == pc[t] # "idle"

\* The waiters that will look at done again without being woken.
Awake == {t \in Members(wait) : state[t] = TASK_RUNNING}

\* As many waiters are awake as there are events for them: whichever waiter a
\* complete() woke may time out, be signalled, or lose the event to another
\* task, but no event is left over while one that could take it sleeps.
NoWaiterForgotten ==
    Cardinality(Awake) >= (IF done < Len(wait) THEN done ELSE Len(wait))

\* The wait queue holds exactly the tasks inside do_wait_for_common(), each
\* once, so that no wake-up ever writes to a frame that has been left.
QueueExact == /\ Members(wait) = {t \in Tasks : Waiting(t)}
              /\ NoDup(wait)

\* Events, waiters and their sleeps stay in their types, and the queue is the
\* set of those inside do_wait_for_common(), whichever way they leave it.
Consistent == CompletionTypeOK /\ QueueExact

\* Nobody calls anything new: the steps that are left are those of tasks
\* inside a wait.
Quiet == \E t \in Tasks : KernelStep(t) \/ Signal(t)

\* Once no new calls come in, the events and the waiters cancel out: nobody
\* keeps waiting beside an event.
DrainedWhenQuiet ==
    <>[][Quiet]_completionVars => <>[](done = 0 \/ wait = <<>>)
==============================================================================
