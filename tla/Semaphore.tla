------------------------------ MODULE Semaphore ------------------------------
(***************************************************************************)
(* The counting semaphore of kernel/semaphore.c.  Everything done under    *)
(* sem->lock is one step; a waiter drops the lock between announcing that  *)
(* it will sleep and calling schedule_timeout(), so ups, signals and timer *)
(* expiries interleave there.                                              *)
(*                                                                         *)
(* A task that returned 0 from a down is "held" until it calls up(); up()  *)
(* may also be called by an interrupt or a task that never called down().  *)
(***************************************************************************)
EXTENDS TaskState, KList, FiniteSets

CONSTANTS InitCount,    \* the value given to sema_init()
          MaxSurplus    \* bound: how many ups are made by non-holders

ASSUME SemaphoreAssumption == /\ InitCount \in Nat
                              /\ MaxSurplus \in Nat
                              /\ IsFiniteSet(Tasks)

VARIABLES count,        \* sem->count
          wait_list,    \* sem->wait_list, the waiting tasks in order
          pc,           \* where the task is
          waiter,       \* the frame of __down_common on the task's stack
          surplus       \* history: ups made by callers that never did a down

semVars == <<count, wait_list, pc, waiter, surplus>>
vars == <<taskVars, semVars>>

\* A timeout is MAX_SCHEDULE_TIMEOUT, some positive number of jiffies, or <= 0.
Timeouts == {"max", "finite", "expired"}

\* What __down_common keeps while a task waits: waiter.up, and the parameters
\* state and timeout.  NoWaiter stands for the dead frame of a task that does
\* not wait.
Waiters  == [up : BOOLEAN, state : SleepStates, timeout : Timeouts]
Waiter(granted, st, tmo) == [up |-> granted, state |-> st, timeout |-> tmo]
NoWaiter == Waiter(FALSE, TASK_UNINTERRUPTIBLE, "max")

TypeOK ==
    /\ TaskTypeOK
    /\ count \in Nat
    /\ wait_list \in Seq(Tasks)
    /\ pc \in [Tasks -> {"idle", "sched", "relock", "held"}]
    /\ waiter \in [Tasks -> Waiters]
    /\ surplus \in 0..MaxSurplus

Init ==
    /\ TaskInit
    /\ count = InitCount
    /\ wait_list = <<>>
    /\ pc = [t \in Tasks |-> "idle"]
    /\ waiter = [t \in Tasks |-> NoWaiter]
    /\ surplus = 0

------------------------------------------------------------------------------
\* One round of the loop of __down_common, entered with sem->lock held by a
\* waiter w that is queued in q: leave on a signal or on an expired timeout,
\* otherwise announce the sleep and drop the lock.
down_round(t, q, w) ==
    \/ /\ signal_pending_state(w.state, t) \/ w.timeout = "expired"
       /\ wait_list' = list_del(q, t)
       /\ waiter' = [waiter EXCEPT ![t] = NoWaiter]
       /\ pc' = [pc EXCEPT ![t] = "idle"]
       /\ UNCHANGED state
    \/ /\ ~signal_pending_state(w.state, t) /\ w.timeout # "expired"
       /\ wait_list' = q
       /\ waiter' = [waiter EXCEPT ![t] = w]
       /\ pc' = [pc EXCEPT ![t] = "sched"]
       /\ state' = [state EXCEPT ![t] = w.state]

\* The uncontended case of a down: a permit is free and is taken.
take_count(t) ==
    /\ count > 0
    /\ count' = count - 1
    /\ pc' = [pc EXCEPT ![t] = "held"]
    /\ UNCHANGED <<taskVars, wait_list, waiter, surplus>>

\* Faulty variant: list_add() instead of list_add_tail().
down_common_at_head(t, st, tmo) ==
    /\ count = 0
    /\ down_round(t, <<t>> \o wait_list, Waiter(FALSE, st, tmo))
    /\ UNCHANGED <<count, pending, surplus>>

\* The contended case: queue a waiter at the tail and go into the first round.
down_common(t, st, tmo) ==
    /\ count = 0
    /\ down_round(t, list_add_tail(wait_list, t), Waiter(FALSE, st, tmo))
    /\ UNCHANGED <<count, pending, surplus>>

down_any(t, st, tmo) ==
    /\ pc[t] = "idle"
    /\ take_count(t) \/ down_common(t, st, tmo)

down(t)               == down_any(t, TASK_UNINTERRUPTIBLE, "max")
down_interruptible(t) == down_any(t, TASK_INTERRUPTIBLE, "max")
down_killable(t)      == down_any(t, TASK_KILLABLE, "max")
down_timeout(t)       == \E tmo \in {"finite", "expired"} :
                            down_any(t, TASK_UNINTERRUPTIBLE, tmo)

\* Failing changes nothing, so only the success is a step.
down_trylock(t) == pc[t] = "idle" /\ take_count(t)

\* schedule_timeout() returns the jiffies that are left, which may have run
\* out although it was not the timer that ended the sleep.
schedule_timeout(t) ==
    /\ pc[t] = "sched"
    /\ schedule(t)
    /\ pc' = [pc EXCEPT ![t] = "relock"]
    /\ \E left \in {waiter[t].timeout} \cup
                   (IF waiter[t].timeout = "finite" THEN {"expired"} ELSE {}) :
          waiter' = [waiter EXCEPT ![t] = Waiter(@.up, @.state, left)]
    /\ UNCHANGED <<pending, count, wait_list, surplus>>

\* The on-stack timer of schedule_timeout() expires and wakes the sleeper.
process_timeout(t) ==
    /\ pc[t] = "sched"
    /\ waiter[t].timeout = "finite"
    /\ waiter' = [waiter EXCEPT ![t] = Waiter(@.up, @.state, "expired")]
    /\ state' = wake_up_process(t)
    /\ UNCHANGED <<pending, count, wait_list, pc, surplus>>

\* Faulty variant: the timeout is looked at before waiter.up.
down_relock_timeout_first(t) ==
    /\ pc[t] = "relock"
    /\ \/ /\ waiter[t].up
          /\ pc' = [pc EXCEPT ![t] = IF waiter[t].timeout = "expired" THEN "idle"
                                                                    ELSE "held"]
          /\ waiter' = [waiter EXCEPT ![t] = NoWaiter]
          /\ UNCHANGED <<state, wait_list>>
       \/ /\ ~waiter[t].up
          /\ down_round(t, wait_list, waiter[t])
    /\ UNCHANGED <<pending, count, surplus>>

\* The waiter has taken sem->lock again: it owns a permit, or goes round.
down_relock(t) ==
    /\ pc[t] = "relock"
    /\ \/ /\ waiter[t].up
          /\ pc' = [pc EXCEPT ![t] = "held"]
          /\ waiter' = [waiter EXCEPT ![t] = NoWaiter]
          /\ UNCHANGED <<state, wait_list>>
       \/ /\ ~waiter[t].up
          /\ down_round(t, wait_list, waiter[t])
    /\ UNCHANGED <<pending, count, surplus>>

\* Faulty variant: the first waiter gets the permit but is not woken.
release_no_wake ==
    \/ /\ wait_list = <<>>
       /\ count' = count + 1
       /\ UNCHANGED <<state, wait_list, waiter>>
    \/ /\ wait_list # <<>>
       /\ wait_list' = Tail(wait_list)
       /\ waiter' = [waiter EXCEPT ![Head(wait_list)] =
                                      Waiter(TRUE, @.state, @.timeout)]
       /\ UNCHANGED <<state, count>>

\* Faulty variant: the last waiter is served first.
release_lifo ==
    \/ /\ wait_list = <<>>
       /\ count' = count + 1
       /\ UNCHANGED <<state, wait_list, waiter>>
    \/ /\ wait_list # <<>>
       /\ LET last == wait_list[Len(wait_list)]
          IN  /\ wait_list' = SubSeq(wait_list, 1, Len(wait_list) - 1)
              /\ waiter' = [waiter EXCEPT ![last] = Waiter(TRUE, @.state, @.timeout)]
              /\ state' = wake_up_process(last)
       /\ UNCHANGED count

\* up(): the permit goes back to count, or straight to the first waiter.
release ==
    \/ /\ wait_list = <<>>
       /\ count' = count + 1
       /\ UNCHANGED <<state, wait_list, waiter>>
    \/ /\ wait_list # <<>>
       /\ wait_list' = Tail(wait_list)
       /\ waiter' = [waiter EXCEPT ![Head(wait_list)] =
                                      Waiter(TRUE, @.state, @.timeout)]
       /\ state' = wake_up_process(Head(wait_list))
       /\ UNCHANGED count

up(t) ==
    /\ pc[t] = "held"
    /\ pc' = [pc EXCEPT ![t] = "idle"]
    /\ release
    /\ UNCHANGED <<pending, surplus>>

\* up() from an interrupt or by a task that never called down().
up_foreign ==
    /\ surplus < MaxSurplus
    /\ surplus' = surplus + 1
    /\ release
    /\ UNCHANGED <<pending, pc>>

\* A signal reaches t at any moment ...
Signal(t) == /\ \E sig \in {"signal", "fatal"} : signal_wake_up(t, sig)
             /\ UNCHANGED semVars

\* ... and is taken off on the way back to user space, outside the kernel.
HandleSignal(t) == /\ pc[t] = "idle"
                   /\ pending[t] # "none"
                   /\ pending' = [pending EXCEPT ![t] = "none"]
                   /\ UNCHANGED <<state, semVars>>

Next ==
    \/ \E t \in Tasks :
          \/ down(t) \/ down_interruptible(t) \/ down_killable(t)
          \/ down_timeout(t) \/ down_trylock(t)
          \/ schedule_timeout(t) \/ process_timeout(t) \/ down_relock(t)
          \/ up(t) \/ Signal(t) \/ HandleSignal(t)
    \/ up_foreign

Spec == Init /\ [][Next]_vars

------------------------------------------------------------------------------
(***************************************************************************)
(* Fairness.  The kernel steps of a task are weakly fair: a runnable task  *)
(* is eventually given the CPU, sem->lock is held for a few instructions   *)
(* only, and a pending timer expires.  That a holder eventually calls up() *)
(* is an assumption on the callers, stated separately.                     *)
(***************************************************************************)
KernelStep(t) == schedule_timeout(t) \/ process_timeout(t) \/ down_relock(t)

FairSpec == Spec /\ \A t \in Tasks : WF_vars(KernelStep(t))

HoldersRelease == \A t \in Tasks : WF_vars(up(t))

------------------------------------------------------------------------------
Waiting(t) == pc[t] \in {"sched", "relock"}
Granted(t) == Waiting(t) /\ waiter[t].up
Holders    == {t \in Tasks : pc[t] = "held" \/ Granted(t)}

\* No permit is lost or made up, whatever the order in which ups, signals
\* and timeouts meet a waiter: the free ones and the ones held or granted by
\* __up() add up to what sema_init() and the foreign ups put in.
PermitsConserved == count + Cardinality(Holders) = InitCount + surplus

\* A waiter that __up() has handed a permit is runnable: the wake-up is not
\* lost although the waiter may be between dropping sem->lock and schedule().
GrantedIsAwake == \A t \in Tasks : Granted(t) => state[t] = TASK_RUNNING

\* wait_list holds exactly the waiters without a permit, each once, and they
\* only wait while no permit is free.
QueueExact ==
    /\ Members(wait_list) = {t \in Tasks : Waiting(t) /\ ~Granted(t)}
    /\ NoDup(wait_list)
    /\ wait_list # <<>> => count = 0

Fifo == INSTANCE FifoSemaphore
            WITH avail <- count, queue <- wait_list, holders <- Holders

\* The semaphore behaves like the strictly ordered one: no down gets past the
\* queue, an up goes to the first waiter, and a waiter leaves on a signal or a
\* timeout only if it was not given a permit in the meantime.
FifoSpec == Fifo!Spec

\* Liveness is stated for one task, whichever, as they are all alike.
AnyTask == CHOOSE t \in Tasks : TRUE

\* If holders release, a waiter is not starved by others that come and go.
NoStarvation == HoldersRelease => (Waiting(AnyTask) ~> ~Waiting(AnyTask))
==============================================================================
