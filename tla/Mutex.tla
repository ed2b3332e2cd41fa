-------------------------------- MODULE Mutex --------------------------------
(***************************************************************************)
(* The mutex of kernel/mutex.c with the fastpaths it can be built on:      *)
(* ARMv6 ldrex/strex, atomic exchange (ARM before v6), atomic decrement,   *)
(* and none (CONFIG_DEBUG_MUTEXES).  lock->count is 1: unlocked, 0:        *)
(* locked, negative: locked, possible waiters.                             *)
(*                                                                         *)
(* The fastpaths change lock->count without lock->wait_lock, so a slowpath *)
(* is one step per access to the count; what else it does under wait_lock  *)
(* is only seen by other holders of wait_lock and joins that step.         *)
(***************************************************************************)
EXTENDS TaskState, KList, Integers

CONSTANTS Archs,     \* the fastpaths to consider
          Victims    \* bound: the tasks that signals are sent to

ASSUME MutexAssumption == Archs \subseteq {"armv6", "xchg", "dec", "null"}

VARIABLES arch,       \* the fastpath the kernel was built with
          count,      \* lock->count
          wait_list,  \* lock->wait_list
          pc,         \* where the task is
          sleep       \* the parameter state of __mutex_lock_common

mutexVars == <<arch, count, wait_list, pc, sleep>>
vars == <<taskVars, mutexVars>>

PCs == {"idle", "held",
        "lock_slow",    \* the fastpath failed, __mutex_lock_slowpath is called
        "retry",        \* has wait_lock, before the exchange in the loop
        "sched",        \* gave up wait_lock and is in schedule()
        "relock",       \* is back from schedule()
        "done",         \* has wait_lock, at the label done
        "unlock_slow",  \* the fastpath failed, __mutex_unlock_slowpath is called
        "restore"}      \* mutex-xchg.h: trylock must mark the lock contended again

TypeOK ==
    /\ TaskTypeOK
    /\ arch \in Archs
    /\ count \in Int /\ (arch = "xchg" => count >= -1)
    /\ wait_list \in Seq(Tasks)
    /\ pc \in [Tasks -> PCs]
    /\ sleep \in [Tasks -> SleepStates]

\* __mutex_init()
Init ==
    /\ TaskInit
    /\ arch \in Archs
    /\ count = 1
    /\ wait_list = <<>>
    /\ pc = [t \in Tasks |-> "idle"]
    /\ sleep = [t \in Tasks |-> TASK_UNINTERRUPTIBLE]

------------------------------------------------------------------------------
\* Faulty variant: the flag of the store-exclusive is ignored.
fastpath_lock_ignores_flag(ok) ==
    \/ arch = "null"  /\ count' = count     /\ ~ok
    \/ arch = "xchg"  /\ count' = 0         /\ ok = (count = 1)
    \/ arch = "dec"   /\ count' = count - 1 /\ ok = (count - 1 >= 0)
    \/ arch = "armv6" /\ count' = count - 1 /\ ok = (count - 1 = 0)
    \/ arch = "armv6" /\ count' = count     /\ ok = (count - 1 = 0)

\* The fastpaths' access to the count; unless ok, fail_fn is called next.  On
\* ARMv6 the store-exclusive may fail: the count stays, and fail_fn is called.
fastpath_lock(ok) ==
    \/ arch = "null"  /\ count' = count     /\ ~ok
    \/ arch = "xchg"  /\ count' = 0         /\ ok = (count = 1)
    \/ arch = "dec"   /\ count' = count - 1 /\ ok = (count - 1 >= 0)
    \/ arch = "armv6" /\ count' = count - 1 /\ ok = (count - 1 = 0)
    \/ arch = "armv6" /\ count' = count     /\ ~ok

fastpath_unlock(ok) ==
    \/ arch = "null"  /\ count' = count     /\ ~ok
    \/ arch = "xchg"  /\ count' = 1         /\ ok = (count = 0)
    \/ arch = "dec"   /\ count' = count + 1 /\ ok = (count + 1 > 0)
    \/ arch = "armv6" /\ count' = count + 1 /\ ok = (count = 0)
    \/ arch = "armv6" /\ count' = count     /\ ~ok

\* Does a failed unlock fastpath leave the mutex locked?
slowpath_needs_to_unlock == arch # "xchg"

\* lock->wait_lock is held from one step to the next only at these places.
wait_lock_free == \A t \in Tasks : pc[t] \notin {"retry", "done"}

------------------------------------------------------------------------------
lock_any(t, st) ==
    /\ pc[t] = "idle"
    /\ \E ok \in BOOLEAN :
          /\ fastpath_lock(ok)
          /\ pc' = [pc EXCEPT ![t] = IF ok THEN "held" ELSE "lock_slow"]
    /\ sleep' = [sleep EXCEPT ![t] = st]
    /\ UNCHANGED <<taskVars, arch, wait_list>>

mutex_lock(t)               == lock_any(t, TASK_UNINTERRUPTIBLE)
mutex_lock_interruptible(t) == lock_any(t, TASK_INTERRUPTIBLE)
mutex_lock_killable(t)      == lock_any(t, TASK_KILLABLE)

\* __mutex_lock_common up to its first exchange.
lock_slowpath(t) ==
    /\ pc[t] = "lock_slow"
    /\ wait_lock_free
    /\ wait_list' = list_add_tail(wait_list, t)
    /\ count' = -1
    /\ pc' = [pc EXCEPT ![t] = IF count = 1 THEN "done" ELSE "retry"]
    /\ UNCHANGED <<taskVars, arch, sleep>>

\* One round of its loop: get the lock, give up on a signal, or announce the
\* sleep and drop wait_lock.
lock_retry(t) ==
    /\ \/ pc[t] = "retry"
       \/ pc[t] = "relock" /\ wait_lock_free
    /\ count' = -1
    /\ \/ /\ count = 1
          /\ pc' = [pc EXCEPT ![t] = "done"]
          /\ UNCHANGED <<state, wait_list>>
       \/ /\ count # 1
          /\ signal_pending_state(sleep[t], t)
          /\ wait_list' = list_del(wait_list, t)
          /\ pc' = [pc EXCEPT ![t] = "idle"]
          /\ UNCHANGED state
       \/ /\ count # 1
          /\ ~signal_pending_state(sleep[t], t)
          /\ state' = [state EXCEPT ![t] = sleep[t]]
          /\ pc' = [pc EXCEPT ![t] = "sched"]
          /\ UNCHANGED wait_list
    /\ UNCHANGED <<pending, arch, sleep>>

lock_schedule(t) ==
    /\ pc[t] = "sched"
    /\ schedule(t)
    /\ pc' = [pc EXCEPT ![t] = "relock"]
    /\ UNCHANGED <<pending, arch, count, wait_list, sleep>>

\* Faulty variant: the new owner always clears the mark for waiters.
lock_done_clears(t) ==
    /\ pc[t] = "done"
    /\ wait_list' = list_del(wait_list, t)
    /\ count' = 0
    /\ pc' = [pc EXCEPT ![t] = "held"]
    /\ UNCHANGED <<taskVars, arch, sleep>>

\* The label done of __mutex_lock_common.
lock_done(t) ==
    /\ pc[t] = "done"
    /\ wait_list' = list_del(wait_list, t)
    /\ count' = IF wait_list' = <<>> THEN 0 ELSE count
    /\ pc' = [pc EXCEPT ![t] = "held"]
    /\ UNCHANGED <<taskVars, arch, sleep>>

mutex_unlock(t) ==
    /\ pc[t] = "held"
    /\ \E ok \in BOOLEAN :
          /\ fastpath_unlock(ok)
          /\ pc' = [pc EXCEPT ![t] = IF ok THEN "idle" ELSE "unlock_slow"]
    /\ UNCHANGED <<taskVars, arch, wait_list, sleep>>

\* Faulty variant: nobody is woken.
unlock_slowpath_no_wake(t) ==
    /\ pc[t] = "unlock_slow"
    /\ wait_lock_free
    /\ count' = IF slowpath_needs_to_unlock THEN 1 ELSE count
    /\ pc' = [pc EXCEPT ![t] = "idle"]
    /\ UNCHANGED <<taskVars, arch, wait_list, sleep>>

unlock_slowpath(t) ==
    /\ pc[t] = "unlock_slow"
    /\ wait_lock_free
    /\ count' = IF slowpath_needs_to_unlock THEN 1 ELSE count
    /\ state' = IF wait_list = <<>> THEN state
                                    ELSE wake_up_process(Head(wait_list))
    /\ pc' = [pc EXCEPT ![t] = "idle"]
    /\ UNCHANGED <<pending, arch, wait_list, sleep>>

\* __mutex_trylock_slowpath; all count accesses of this build hold wait_lock.
trylock_slowpath(t) ==
    /\ arch = "null"
    /\ wait_lock_free
    /\ count' = IF wait_list = <<>> THEN 0 ELSE -1
    /\ pc' = [pc EXCEPT ![t] = IF count = 1 THEN "held" ELSE "idle"]

\* __mutex_fastpath_trylock of ARMv6 (which retries a failed store) and of
\* mutex-dec.h: leave the count alone unless it is 1.
trylock_cmpxchg(t) ==
    /\ arch \in {"armv6", "dec"}
    /\ count = 1
    /\ count' = 0
    /\ pc' = [pc EXCEPT ![t] = "held"]

\* That of mutex-xchg.h.
trylock_xchg(t) ==
    /\ arch = "xchg"
    /\ count' = 0
    /\ pc' = [pc EXCEPT ![t] = IF count = 1 THEN "held"
                               ELSE IF count < 0 THEN "restore" ELSE "idle"]

mutex_trylock(t) ==
    /\ pc[t] = "idle"
    /\ trylock_slowpath(t) \/ trylock_cmpxchg(t) \/ trylock_xchg(t)
    /\ UNCHANGED <<taskVars, arch, wait_list, sleep>>

\* Faulty variant: any value that is not negative is taken for success.
trylock_restore_at_zero(t) ==
    /\ pc[t] = "restore"
    /\ count' = -1
    /\ pc' = [pc EXCEPT ![t] = IF count >= 0 THEN "held" ELSE "idle"]
    /\ UNCHANGED <<taskVars, arch, wait_list, sleep>>

\* The second exchange of mutex-xchg.h puts the negative value back, which is
\* always -1 on this build, and finds out whether the lock was freed meanwhile.
trylock_restore(t) ==
    /\ pc[t] = "restore"
    /\ count' = -1
    /\ pc' = [pc EXCEPT ![t] = IF count > 0 THEN "held" ELSE "idle"]
    /\ UNCHANGED <<taskVars, arch, wait_list, sleep>>

Signal(t) == /\ t \in Victims
             /\ \E sig \in {"signal", "fatal"} : signal_wake_up(t, sig)
             /\ UNCHANGED mutexVars

\* Signals are taken off on the way back to user space.
HandleSignal(t) == /\ pc[t] = "idle"
                   /\ pending[t] # "none"
                   /\ pending' = [pending EXCEPT ![t] = "none"]
                   /\ UNCHANGED <<state, mutexVars>>

KernelStep(t) == \/ lock_slowpath(t) \/ lock_retry(t) \/ lock_schedule(t)
                 \/ lock_done(t) \/ unlock_slowpath(t) \/ trylock_restore(t)

Next == \E t \in Tasks :
           \/ mutex_lock(t) \/ mutex_lock_interruptible(t)
           \/ mutex_lock_killable(t) \/ mutex_trylock(t) \/ mutex_unlock(t)
           \/ KernelStep(t)
           \/ Signal(t) \/ HandleSignal(t)

Spec == Init /\ [][Next]_vars

\* A runnable task is given the CPU and wait_lock is only held for a few
\* instructions, so what a task has begun goes on; owners unlock.
FairSpec == /\ Spec
            /\ \A t \in Tasks : WF_vars(KernelStep(t) \/ mutex_unlock(t))

------------------------------------------------------------------------------
\* From the access to the count that took the lock to the one that frees it.
Owns(t) == \/ pc[t] \in {"held", "done"}
           \/ pc[t] = "unlock_slow" /\ slowpath_needs_to_unlock
Owners  == {t \in Tasks : Owns(t)}

Queued(t) == pc[t] \in {"retry", "sched", "relock", "done"}

\* Sooner or later t looks at the count, or wakes a waiter, by itself.
WillAct(t) == \/ pc[t] \in {"lock_slow", "retry", "relock", "unlock_slow", "restore"}
              \/ pc[t] = "sched" /\ state[t] = TASK_RUNNING

\* At most one task is between mutex_lock() and mutex_unlock(), whichever
\* mixture of fastpaths, slowpaths and trylocks let it in.
MutualExclusion == \A t, u \in Tasks : Owns(t) /\ Owns(u) => t = u

\* The count is 1 exactly while nobody owns the lock: no path frees a lock
\* that is taken, and none leaves a free lock marked as taken.
CountTellsOwner == count <= 1 /\ (count = 1 <=> Owners = {})

\* No lost wake-up: while tasks are queued, either the count is negative, so
\* that the owner's unlock goes to the slowpath and wakes the first of them,
\* or some task is still under way that will make it so or retry.
WakeupPromised == wait_list # <<>> /\ count >= 0 => \E t \in Tasks : WillAct(t)

Lock == INSTANCE ExclusiveLock WITH owners <- Owners

\* The mutex behaves like a lock that is handed over only by its owner
\* releasing it, whichever fastpaths and slowpaths the tasks went through.
LockSpec == Lock!Spec

NoNewCalls == \A t \in Tasks : pc[t] = "idle" => pc'[t] = "idle"

\* Mutexes are not fair, but once no new calls come in everybody queued is
\* served: neither a wake-up nor the wait_lock is lost on the way.
ServedWhenQuiet ==
    <>[][NoNewCalls]_vars => <>[](\A t \in Tasks : pc[t] = "idle")
==============================================================================
