-------------------------------- MODULE RwSem --------------------------------
(***************************************************************************)
(* The read/write semaphore of lib/rwsem-spinlock.c (the one ARM uses).    *)
(* What is done under sem->wait_lock to the activity and to the wait list  *)
(* is one step.  The waker still holds wait_lock while it tells the tasks  *)
(* it took off the list, one after the other, by clearing waiter->task and *)
(* waking them; they look at their waiter.task without taking the lock.    *)
(***************************************************************************)
EXTENDS TaskState, KList, Integers, FiniteSets

ASSUME RwSemAssumption == IsFiniteSet(Tasks)

VARIABLES activity,   \* sem->activity: -1 a writer, n > 0 readers, 0 free
          wait_list,  \* sem->wait_list
          flags,      \* waiter.flags
          task,       \* waiter.task: TRUE until the waker clears it
          todo,       \* tasks off the list that the waker has not woken yet
          cleared,    \* it has cleared waiter->task of the first of them
          pc          \* where the task is

rwVars == <<activity, wait_list, flags, task, todo, cleared, pc>>
vars == <<taskVars, rwVars>>

PCs == {"idle", "read", "write",         \* holds nothing, or the lock
        "check", "sched", "set",         \* the loop that waits for the lock
        "wake_up", "wake_downgrade"}     \* has wait_lock and wakes others

TypeOK ==
    /\ TaskTypeOK
    /\ activity \in -1 .. Cardinality(Tasks)
    /\ wait_list \in Seq(Tasks)
    /\ flags \in [Tasks -> {"read", "write"}]
    /\ task \in [Tasks -> BOOLEAN]
    /\ todo \in Seq(Tasks)
    /\ cleared \in BOOLEAN
    /\ pc \in [Tasks -> PCs]

\* __init_rwsem()
Init ==
    /\ TaskInit
    /\ activity = 0
    /\ wait_list = <<>>
    /\ flags = [t \in Tasks |-> "read"]
    /\ task = [t \in Tasks |-> FALSE]
    /\ todo = <<>>
    /\ cleared = FALSE
    /\ pc = [t \in Tasks |-> "idle"]

wait_lock_free == todo = <<>>

------------------------------------------------------------------------------
\* The uncontended path: nobody waits and the lock can be had.
CanRead_barging == activity >= 0                       \* faulty variant
CanRead  == activity >= 0 /\ wait_list = <<>>
CanWrite == activity = 0 /\ wait_list = <<>>

grant(t, kind) ==
    /\ activity' = IF kind = "read" THEN activity + 1 ELSE -1
    /\ pc' = [pc EXCEPT ![t] = kind]
    /\ UNCHANGED <<taskVars, wait_list, flags, task, todo, cleared>>

\* Faulty variant: list_add() instead of list_add_tail().
enqueue_at_head(t, kind) ==
    /\ state' = [state EXCEPT ![t] = TASK_UNINTERRUPTIBLE]
    /\ task' = [task EXCEPT ![t] = TRUE]
    /\ flags' = [flags EXCEPT ![t] = kind]
    /\ wait_list' = <<t>> \o wait_list
    /\ pc' = [pc EXCEPT ![t] = "check"]
    /\ UNCHANGED <<pending, activity, todo, cleared>>

\* The contended path, up to the release of wait_lock.
enqueue(t, kind) ==
    /\ state' = [state EXCEPT ![t] = TASK_UNINTERRUPTIBLE]
    /\ task' = [task EXCEPT ![t] = TRUE]
    /\ flags' = [flags EXCEPT ![t] = kind]
    /\ wait_list' = list_add_tail(wait_list, t)
    /\ pc' = [pc EXCEPT ![t] = "check"]
    /\ UNCHANGED <<pending, activity, todo, cleared>>

down_read(t) == /\ pc[t] = "idle" /\ wait_lock_free
                /\ \/ CanRead /\ grant(t, "read")
                   \/ ~CanRead /\ enqueue(t, "read")

down_write(t) == /\ pc[t] = "idle" /\ wait_lock_free
                 /\ \/ CanWrite /\ grant(t, "write")
                    \/ ~CanWrite /\ enqueue(t, "write")

\* A trylock that fails changes nothing.
down_read_trylock(t)  == /\ pc[t] = "idle" /\ wait_lock_free
                         /\ CanRead /\ grant(t, "read")
down_write_trylock(t) == /\ pc[t] = "idle" /\ wait_lock_free
                         /\ CanWrite /\ grant(t, "write")

\* Faulty variant: a waiter leaves when it is off the list.
wait_check_by_list(t) ==
    /\ pc[t] = "check"
    /\ \/ /\ t \in Members(wait_list)
          /\ pc' = [pc EXCEPT ![t] = "sched"]
          /\ UNCHANGED state
       \/ /\ t \notin Members(wait_list)
          /\ state' = [state EXCEPT ![t] = TASK_RUNNING]
          /\ pc' = [pc EXCEPT ![t] = flags[t]]
    /\ UNCHANGED <<pending, activity, wait_list, flags, task, todo, cleared>>

\* The loop of __down_read and __down_write_nested.
wait_check(t) ==
    /\ pc[t] = "check"
    /\ \/ /\ task[t]
          /\ pc' = [pc EXCEPT ![t] = "sched"]
          /\ UNCHANGED state
       \/ /\ ~task[t]
          /\ state' = [state EXCEPT ![t] = TASK_RUNNING]
          /\ pc' = [pc EXCEPT ![t] = flags[t]]
    /\ UNCHANGED <<pending, activity, wait_list, flags, task, todo, cleared>>

wait_schedule(t) ==
    /\ pc[t] = "sched"
    /\ schedule(t)
    /\ pc' = [pc EXCEPT ![t] = "set"]
    /\ UNCHANGED <<pending, activity, wait_list, flags, task, todo, cleared>>

wait_set_state(t) ==
    /\ pc[t] = "set"
    /\ state' = [state EXCEPT ![t] = TASK_UNINTERRUPTIBLE]
    /\ pc' = [pc EXCEPT ![t] = "check"]
    /\ UNCHANGED <<pending, activity, wait_list, flags, task, todo, cleared>>

------------------------------------------------------------------------------
\* Task t gives wait_lock back with activity act and is then at control point
\* new; before that it wakes the first n waiters, if any, at control point via.
wake_first(t, n, act, via, new) ==
    /\ activity' = act
    /\ todo' = SubSeq(wait_list, 1, n)
    /\ wait_list' = SubSeq(wait_list, n + 1, Len(wait_list))
    /\ pc' = [pc EXCEPT ![t] = IF n = 0 THEN new ELSE via]
    /\ UNCHANGED <<taskVars, flags, task, cleared>>

\* Faulty variant: at most one reader is woken.
FrontReaders_one ==
    IF wait_list # <<>> /\ flags[Head(wait_list)] = "read" THEN 1 ELSE 0

\* How many waiters there are in front of the first writer.
FrontReaders == CHOOSE n \in 0..Len(wait_list) :
                   /\ \A i \in 1..n : flags[wait_list[i]] = "read"
                   /\ n < Len(wait_list) => flags[wait_list[n + 1]] = "write"

\* __rwsem_wake_one_writer() takes the first waiter for a writer.
up_read(t) ==
    /\ pc[t] = "read" /\ wait_lock_free
    /\ IF activity - 1 = 0 /\ wait_list # <<>>
       THEN wake_first(t, 1, -1, "wake_up", "idle")
       ELSE wake_first(t, 0, activity - 1, "wake_up", "idle")

\* __rwsem_do_wake(sem, 1): one writer, or all the readers in front.
up_write(t) ==
    /\ pc[t] = "write" /\ wait_lock_free
    /\ IF wait_list # <<>> /\ flags[Head(wait_list)] = "write"
       THEN wake_first(t, 1, -1, "wake_up", "idle")
       ELSE wake_first(t, FrontReaders, FrontReaders, "wake_up", "idle")

\* __rwsem_do_wake(sem, 0): the readers in front, if any.
downgrade_write(t) ==
    /\ pc[t] = "write" /\ wait_lock_free
    /\ wake_first(t, FrontReaders, 1 + FrontReaders, "wake_downgrade", "read")

\* The waker clears waiter->task, from where on the waiter may be gone ...
wake_clear(t) ==
    /\ pc[t] \in {"wake_up", "wake_downgrade"}
    /\ ~cleared
    /\ task' = [task EXCEPT ![Head(todo)] = FALSE]
    /\ cleared' = TRUE
    /\ UNCHANGED <<taskVars, activity, wait_list, flags, todo, pc>>

\* Faulty variant: only interruptible sleepers are woken.
wake_task_interruptible(t) ==
    /\ pc[t] \in {"wake_up", "wake_downgrade"}
    /\ cleared
    /\ state' = try_to_wake_up(Head(todo), TASK_INTERRUPTIBLE)
    /\ todo' = Tail(todo)
    /\ cleared' = FALSE
    /\ pc' = [pc EXCEPT ![t] = IF Len(todo) > 1 THEN @
                               ELSE IF @ = "wake_up" THEN "idle" ELSE "read"]
    /\ UNCHANGED <<pending, activity, wait_list, flags, task>>

\* ... and wakes the task, which it remembers in tsk.  After the last one it
\* releases wait_lock.
wake_task(t) ==
    /\ pc[t] \in {"wake_up", "wake_downgrade"}
    /\ cleared
    /\ state' = wake_up_process(Head(todo))
    /\ todo' = Tail(todo)
    /\ cleared' = FALSE
    /\ pc' = [pc EXCEPT ![t] = IF Len(todo) > 1 THEN @
                               ELSE IF @ = "wake_up" THEN "idle" ELSE "read"]
    /\ UNCHANGED <<pending, activity, wait_list, flags, task>>

\* A wake-up left over from an earlier sleep of the task.
StrayWakeup(t) ==
    /\ pc[t] = "sched"
    /\ state' = wake_up_process(t)
    /\ UNCHANGED <<pending, rwVars>>

KernelStep(t) == \/ wait_check(t) \/ wait_schedule(t) \/ wait_set_state(t)
                 \/ wake_clear(t) \/ wake_task(t)

Next == \E t \in Tasks :
           \/ down_read(t) \/ down_write(t)
           \/ down_read_trylock(t) \/ down_write_trylock(t)
           \/ up_read(t) \/ up_write(t) \/ downgrade_write(t)
           \/ KernelStep(t) \/ StrayWakeup(t)

Spec == Init /\ [][Next]_vars

\* A runnable task is given the CPU, wait_lock is held for a few instructions
\* only, and holders release.
FairSpec == /\ Spec
            /\ \A t \in Tasks : WF_vars(KernelStep(t) \/ up_read(t) \/ up_write(t))

------------------------------------------------------------------------------
Waiting(t) == pc[t] \in {"check", "sched", "set"}
Granted(t) == Waiting(t) /\ t \notin Members(wait_list)

\* The tasks the lock was given to, whether they have noticed it yet or not.
Readers == {t \in Tasks : \/ pc[t] \in {"read", "wake_downgrade"}
                          \/ Granted(t) /\ flags[t] = "read"}
Writers == {t \in Tasks : \/ pc[t] = "write"
                          \/ Granted(t) /\ flags[t] = "write"}

\* A writer owns the semaphore alone, and sem->activity counts exactly the
\* tasks it was given to, those that were handed it in their sleep included.
ActivityExact ==
    \/ activity = -1 /\ Readers = {} /\ Cardinality(Writers) = 1
    \/ activity = Cardinality(Readers) /\ Writers = {}

\* Nobody waits without a reason; in particular the first waiter is a writer
\* while readers are active, which __rwsem_wake_one_writer() relies on.
HeadMustWait ==
    wait_list # <<>> => \/ activity = -1
                        \/ activity > 0 /\ flags[Head(wait_list)] = "write"

\* sem->activity, the tasks that own the semaphore and the wait list agree at
\* every instant: the count is exact, and nobody queues without a reason.
Consistent == TypeOK /\ ActivityExact /\ HeadMustWait

\* A waiter whose waiter.task was cleared does not sleep on: it is awake, or
\* the waker is just about to wake it.
HandoffSeen ==
    \A t \in Tasks : pc[t] = "sched" /\ ~task[t] =>
        state[t] = TASK_RUNNING \/ (cleared /\ Head(todo) = t)

\* The waker only touches stack frames that are alive: a waiter on the list,
\* or one off it whose task pointer was not cleared, is still in its loop.
FramesAlive ==
    \A t \in Tasks :
        \/ t \in Members(wait_list)
        \/ \E i \in 1..Len(todo) : todo[i] = t /\ (i > 1 \/ ~cleared)
        => Waiting(t) /\ task[t]

Fifo == INSTANCE FifoRwLock
            WITH readers <- Readers, writers <- Writers,
                 queue <- [i \in 1..Len(wait_list) |->
                              <<wait_list[i], flags[wait_list[i]]>>]

\* The semaphore is the fair readers/writer lock: the down and up functions
\* serve tasks in the order they came, readers in front together, and
\* sem->activity with the list is all there is to the lock.
FifoSpec == Fifo!Spec

\* Neither readers nor writers starve if holders release: a task, whichever
\* one as they are all alike, does not wait forever.
NoStarvation == LET t == CHOOSE s \in Tasks : TRUE IN Waiting(t) ~> ~Waiting(t)
==============================================================================
