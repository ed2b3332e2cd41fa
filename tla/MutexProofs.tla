----------------------------- MODULE MutexProofs -----------------------------
(***************************************************************************)
(* Proofs about kernel/mutex.c for any set of tasks and all four           *)
(* fastpaths.                                                              *)
(***************************************************************************)
EXTENDS Mutex, KernelLemmas

\* The wait list holds each task that is inside __mutex_lock_common, once.
ListInv == /\ Members(wait_list) = {t \in Tasks : Queued(t)}
           /\ NoDup(wait_list)

\* Mutual exclusion rests on what the count says about the owner.
IInv == TypeOK /\ ListInv /\ MutualExclusion /\ CountTellsOwner /\ WakeupPromised

------------------------------------------------------------------------------
USE DEF TASK_RUNNING, TASK_INTERRUPTIBLE, TASK_UNINTERRUPTIBLE, TASK_KILLABLE,
        TASK_ALL

\* A step of task t takes the lock from count 1, frees it to count 1, or
\* leaves both the ownership of t and whether the count is 1 as they are.
OwnStep(t) ==
    /\ arch' = arch
    /\ \A u \in Tasks \ {t} : pc'[u] = pc[u]
    /\ count' \in Int /\ count' <= 1
    /\ \/ (Owns(t)' <=> Owns(t)) /\ (count' = 1 <=> count = 1)
       \/ ~Owns(t) /\ Owns(t)' /\ count = 1 /\ count' # 1
       \/ Owns(t) /\ ~Owns(t)' /\ count' = 1

\* Such a step keeps the owner unique and known, and is a step, or a stutter,
\* of the abstract lock.
LEMMA OwnStepKeeps ==
    ASSUME IInv, NEW t \in Tasks, OwnStep(t)
    PROVE  /\ MutualExclusion'
           /\ CountTellsOwner'
           /\ Owners' = Owners \/ Lock!Acquire(t) \/ Lock!Release(t)
<1>1. \A u \in Tasks \ {t} : Owns(u)' <=> Owns(u)
  BY DEF OwnStep, Owns, slowpath_needs_to_unlock
<1>2. CASE (Owns(t)' <=> Owns(t)) /\ (count' = 1 <=> count = 1)
  <2>1. Owners' = Owners
    BY <1>1, <1>2 DEF Owners
  <2>2. MutualExclusion'
    BY <1>1, <1>2 DEF MutualExclusion, IInv
  <2> QED BY <1>2, <2>1, <2>2 DEF CountTellsOwner, IInv, OwnStep
<1>3. CASE ~Owns(t) /\ Owns(t)' /\ count = 1 /\ count' # 1
  <2>1. Owners = {}
    BY <1>3 DEF IInv, CountTellsOwner
  <2>2. Owners' = {t}
    BY <1>1, <1>3, <2>1 DEF Owners
  <2>3. MutualExclusion'
    BY <1>1, <2>1 DEF MutualExclusion, Owners
  <2> QED BY <1>3, <2>1, <2>2, <2>3 DEF CountTellsOwner, OwnStep, Lock!Acquire
<1>4. CASE Owns(t) /\ ~Owns(t)' /\ count' = 1
  <2>1. Owners = {t}
    BY <1>4 DEF IInv, MutualExclusion, Owners
  <2>2. Owners' = {}
    BY <1>1, <1>4, <2>1 DEF Owners
  <2>3. MutualExclusion'
    BY <2>2 DEF MutualExclusion, Owners
  <2> QED BY <1>4, <2>1, <2>2, <2>3 DEF CountTellsOwner, OwnStep, Lock!Release
<1> QED BY <1>2, <1>3, <1>4 DEF OwnStep

\* While the lock is owned the count is below 1, otherwise it is 1.
LEMMA OwnedCount ==
    ASSUME IInv, NEW t \in Tasks
    PROVE  /\ count \in Int /\ count <= 1
           /\ Owns(t) => count <= 0
BY DEF IInv, TypeOK, CountTellsOwner, Owners

------------------------------------------------------------------------------
\* __mutex_init() establishes the invariant.
LEMMA InitIInv == Init => IInv /\ Lock!Init
<1> SUFFICES ASSUME Init PROVE IInv /\ Lock!Init
  OBVIOUS
<1> USE DEF Init, TaskInit
<1>1. TypeOK
  BY MutexAssumption DEF TypeOK, TaskTypeOK, SleepStates, Signals, PCs
<1>2. ListInv
  BY DEF ListInv, Queued, Members, NoDup
<1>3. \A t \in Tasks : ~Owns(t)
  BY DEF Owns
<1>4. Owners = {} /\ MutualExclusion
  BY <1>3 DEF Owners, MutualExclusion
<1> QED BY <1>1, <1>2, <1>4 DEF IInv, CountTellsOwner, WakeupPromised, Lock!Init

\* The first access to the count by one of the lock operations.
LEMMA LockStep ==
    ASSUME IInv, NEW t \in Tasks, NEW st \in SleepStates, lock_any(t, st)
    PROVE  IInv' /\ OwnStep(t)
<1>0. PICK ok \in BOOLEAN :
         /\ fastpath_lock(ok)
         /\ pc' = [pc EXCEPT ![t] = IF ok THEN "held" ELSE "lock_slow"]
  BY DEF lock_any
<1>1. /\ count' \in Int /\ count' <= 1
      /\ ok => count = 1 /\ count' = 0
      /\ ~ok => (count' = 1 <=> count = 1)
      /\ arch = "xchg" => count' >= -1
  BY <1>0, OwnedCount DEF fastpath_lock, IInv, TypeOK
<1>2. /\ UNCHANGED <<taskVars, state, pending, arch, wait_list>>
      /\ pc[t] = "idle"
      /\ sleep' = [sleep EXCEPT ![t] = st]
  BY DEF lock_any, taskVars
<1>3. TypeOK'
  BY <1>0, <1>1, <1>2 DEF IInv, TypeOK, TaskTypeOK, PCs
<1>4. /\ \A u \in Tasks \ {t} : pc'[u] = pc[u]
      /\ pc'[t] = IF ok THEN "held" ELSE "lock_slow"
  BY <1>0 DEF IInv, TypeOK
<1>5. ListInv'
  BY <1>2, <1>4 DEF ListInv, IInv, Queued
<1>6. OwnStep(t)
  BY <1>0, <1>1, <1>2, <1>4 DEF OwnStep, Owns
<1>7. WakeupPromised'
  <2>1. CASE ok
    <3>1. \A u \in Tasks : WillAct(u) => WillAct(u)'
      BY <1>2, <1>4 DEF WillAct
    <3> QED BY <1>0, <1>1, <1>2, <2>1, <3>1 DEF IInv, WakeupPromised
  <2>2. CASE ~ok
    BY <1>4, <2>2 DEF WakeupPromised, WillAct
  <2> QED BY <1>1, <2>1, <2>2
<1> QED BY <1>3, <1>5, <1>6, <1>7, OwnStepKeeps DEF IInv

\* __mutex_lock_common up to the first exchange.
LEMMA LockSlowStep ==
    ASSUME IInv, NEW t \in Tasks, lock_slowpath(t)
    PROVE  IInv' /\ OwnStep(t)
<1>1. /\ UNCHANGED <<taskVars, state, pending, arch, sleep>>
      /\ pc[t] = "lock_slow" /\ count' = -1
      /\ wait_list' = list_add_tail(wait_list, t)
      /\ pc' = [pc EXCEPT ![t] = IF count = 1 THEN "done" ELSE "retry"]
  BY DEF lock_slowpath, taskVars
<1>2. /\ \A u \in Tasks \ {t} : pc'[u] = pc[u]
      /\ pc'[t] = IF count = 1 THEN "done" ELSE "retry"
  BY <1>1 DEF IInv, TypeOK
<1>3. /\ wait_list' \in Seq(Tasks) /\ NoDup(wait_list')
      /\ Members(wait_list') = Members(wait_list) \cup {t}
  <2>1. t \notin Members(wait_list)
    BY <1>1 DEF IInv, ListInv, Queued
  <2> QED BY <1>1, <2>1, AddTailProperties DEF IInv, ListInv, TypeOK
<1>4. TypeOK'
  BY <1>1, <1>3 DEF IInv, TypeOK, TaskTypeOK, PCs
<1>5. ListInv'
  BY <1>2, <1>3 DEF ListInv, IInv, Queued
<1>6. OwnStep(t)
  BY <1>1, <1>2 DEF OwnStep, Owns
<1>7. WakeupPromised'
  BY <1>1 DEF WakeupPromised
<1> QED BY <1>4, <1>5, <1>6, <1>7, OwnStepKeeps DEF IInv

\* A round of the loop of __mutex_lock_common.
LEMMA RetryStep ==
    ASSUME IInv, NEW t \in Tasks, lock_retry(t)
    PROVE  IInv' /\ OwnStep(t)
<1>1. /\ UNCHANGED <<pending, arch, sleep>>
      /\ pc[t] \in {"retry", "relock"} /\ count' = -1
  BY DEF lock_retry
<1>2. t \in Members(wait_list) /\ wait_list \in Seq(Tasks) /\ NoDup(wait_list)
  BY <1>1 DEF IInv, ListInv, TypeOK, Queued
<1>3. PICK new \in {"done", "idle", "sched"} :
         /\ pc' = [pc EXCEPT ![t] = new]
         /\ new = "done" <=> count = 1
         /\ wait_list' = IF new = "idle" THEN list_del(wait_list, t)
                                         ELSE wait_list
  BY DEF lock_retry
<1>4. /\ \A u \in Tasks \ {t} : pc'[u] = pc[u]
      /\ pc'[t] = new
  BY <1>3 DEF IInv, TypeOK
<1>5. /\ wait_list' \in Seq(Tasks) /\ NoDup(wait_list')
      /\ Members(wait_list') = IF new = "idle" THEN Members(wait_list) \ {t}
                                               ELSE Members(wait_list)
  BY <1>2, <1>3, ListDelProperties
<1>6. TypeOK'
  <2>1. state' \in [Tasks -> SleepStates \cup {TASK_RUNNING}]
    BY DEF lock_retry, IInv, TypeOK, TaskTypeOK
  <2>2. pc' \in [Tasks -> PCs]
    BY <1>3 DEF IInv, TypeOK, PCs
  <2> QED BY <1>1, <1>5, <2>1, <2>2 DEF IInv, TypeOK, TaskTypeOK
<1>7. ListInv'
  BY <1>1, <1>4, <1>5 DEF ListInv, IInv, Queued
<1>8. OwnStep(t)
  BY <1>1, <1>3, <1>4 DEF OwnStep, Owns
<1>9. WakeupPromised'
  BY <1>1 DEF WakeupPromised
<1> QED BY <1>6, <1>7, <1>8, <1>9, OwnStepKeeps DEF IInv

\* A waiter returns from schedule().
LEMMA ScheduleStep ==
    ASSUME IInv, NEW t \in Tasks, lock_schedule(t)
    PROVE  IInv' /\ OwnStep(t)
<1>1. /\ UNCHANGED <<pending, arch, count, wait_list, sleep>>
      /\ pc[t] = "sched" /\ pc' = [pc EXCEPT ![t] = "relock"]
      /\ state' = [state EXCEPT ![t] = TASK_RUNNING]
  BY DEF lock_schedule, schedule
<1>2. /\ \A u \in Tasks \ {t} : pc'[u] = pc[u] /\ state'[u] = state[u]
      /\ pc'[t] = "relock"
  BY <1>1 DEF IInv, TypeOK, TaskTypeOK
<1>3. TypeOK'
  BY <1>1 DEF IInv, TypeOK, TaskTypeOK, PCs
<1>4. ListInv'
  BY <1>1, <1>2 DEF ListInv, IInv, Queued
<1>5. OwnStep(t)
  BY <1>1, <1>2, OwnedCount DEF OwnStep, Owns
<1>6. WakeupPromised'
  <2>1. \A u \in Tasks : WillAct(u) => WillAct(u)'
    BY <1>1, <1>2 DEF WillAct
  <2> QED BY <1>1, <2>1 DEF IInv, WakeupPromised
<1> QED BY <1>3, <1>4, <1>5, <1>6, OwnStepKeeps DEF IInv

\* The label done: the new owner leaves the list.
LEMMA DoneStep ==
    ASSUME IInv, NEW t \in Tasks, lock_done(t)
    PROVE  IInv' /\ OwnStep(t)
<1>1. /\ UNCHANGED <<taskVars, state, pending, arch, sleep>>
      /\ pc[t] = "done" /\ pc' = [pc EXCEPT ![t] = "held"]
      /\ wait_list' = list_del(wait_list, t)
      /\ count' = IF wait_list' = <<>> THEN 0 ELSE count
  BY DEF lock_done, taskVars
<1>2. /\ \A u \in Tasks \ {t} : pc'[u] = pc[u]
      /\ pc'[t] = "held"
  BY <1>1 DEF IInv, TypeOK
<1>3. t \in Members(wait_list) /\ wait_list \in Seq(Tasks) /\ NoDup(wait_list)
  BY <1>1 DEF IInv, ListInv, TypeOK, Queued
<1>4. /\ wait_list' \in Seq(Tasks) /\ NoDup(wait_list')
      /\ Members(wait_list') = Members(wait_list) \ {t}
  BY <1>1, <1>3, ListDelProperties
<1>5. TypeOK'
  BY <1>1, <1>4 DEF IInv, TypeOK, TaskTypeOK, PCs
<1>6. ListInv'
  BY <1>2, <1>4 DEF ListInv, IInv, Queued
<1>7. Owns(t) /\ Owns(t)' /\ count <= 0
  BY <1>1, <1>2, OwnedCount DEF Owns
<1>8. OwnStep(t)
  BY <1>1, <1>2, <1>7, OwnedCount DEF OwnStep
<1>9. WakeupPromised'
  <2>1. \A u \in Tasks : WillAct(u) => WillAct(u)'
    BY <1>1, <1>2 DEF WillAct
  <2>2. wait_list # <<>>
    BY <1>3 DEF Members
  <2> QED BY <1>1, <2>1, <2>2 DEF IInv, WakeupPromised
<1> QED BY <1>5, <1>6, <1>8, <1>9, OwnStepKeeps DEF IInv

\* The unlock fastpath.
LEMMA UnlockStep ==
    ASSUME IInv, NEW t \in Tasks, mutex_unlock(t)
    PROVE  IInv' /\ OwnStep(t)
<1>0. PICK ok \in BOOLEAN :
         /\ fastpath_unlock(ok)
         /\ pc' = [pc EXCEPT ![t] = IF ok THEN "idle" ELSE "unlock_slow"]
  BY DEF mutex_unlock
<1>1. /\ UNCHANGED <<taskVars, state, pending, arch, wait_list, sleep>>
      /\ pc[t] = "held"
  BY DEF mutex_unlock, taskVars
<1>2. Owns(t) /\ count <= 0 /\ count \in Int
  BY <1>1, OwnedCount DEF Owns
<1>3. /\ count' \in Int /\ count' <= 1
      /\ ok => count = 0 /\ count' = 1
      /\ ~ok => count' = 1 <=> ~slowpath_needs_to_unlock
      /\ arch = "xchg" => count' >= -1
  BY <1>0, <1>2 DEF fastpath_unlock, slowpath_needs_to_unlock
<1>4. /\ \A u \in Tasks \ {t} : pc'[u] = pc[u]
      /\ pc'[t] = IF ok THEN "idle" ELSE "unlock_slow"
  BY <1>0 DEF IInv, TypeOK
<1>5. TypeOK'
  BY <1>0, <1>1, <1>3 DEF IInv, TypeOK, TaskTypeOK, PCs
<1>6. ListInv'
  BY <1>1, <1>4 DEF ListInv, IInv, Queued
<1>7. OwnStep(t)
  <2>1. Owns(t)' <=> ~ok /\ slowpath_needs_to_unlock
    BY <1>1, <1>4 DEF Owns, slowpath_needs_to_unlock
  <2> QED BY <1>1, <1>2, <1>3, <1>4, <2>1 DEF OwnStep
<1>8. WakeupPromised'
  <2>1. CASE ok
    <3>1. \A u \in Tasks : WillAct(u) => WillAct(u)'
      BY <1>1, <1>4 DEF WillAct
    <3> QED BY <1>1, <1>3, <2>1, <3>1 DEF IInv, WakeupPromised
  <2>2. CASE ~ok
    BY <1>4, <2>2 DEF WakeupPromised, WillAct
  <2> QED BY <2>1, <2>2
<1> QED BY <1>5, <1>6, <1>7, <1>8, OwnStepKeeps DEF IInv

\* The unlock slowpath: the first waiter is woken and will look again.
LEMMA UnlockSlowStep ==
    ASSUME IInv, NEW t \in Tasks, unlock_slowpath(t)
    PROVE  IInv' /\ OwnStep(t)
<1>1. /\ UNCHANGED <<pending, arch, wait_list, sleep>>
      /\ pc[t] = "unlock_slow" /\ pc' = [pc EXCEPT ![t] = "idle"]
      /\ count' = IF slowpath_needs_to_unlock THEN 1 ELSE count
      /\ wait_lock_free
  BY DEF unlock_slowpath
<1>2. /\ \A u \in Tasks \ {t} : pc'[u] = pc[u]
      /\ pc'[t] = "idle"
  BY <1>1 DEF IInv, TypeOK
<1>3. ASSUME wait_list # <<>>
      PROVE  /\ Head(wait_list) \in Tasks
             /\ Head(wait_list) \in Members(wait_list)
             /\ state' = wake_up_process(Head(wait_list))
  BY <1>3, TailMembers DEF IInv, ListInv, TypeOK, unlock_slowpath
<1>4. TypeOK'
  <2>1. state' \in [Tasks -> SleepStates \cup {TASK_RUNNING}]
    <3>1. CASE wait_list = <<>>
      BY <3>1 DEF unlock_slowpath, IInv, TypeOK, TaskTypeOK
    <3>2. CASE wait_list # <<>>
      BY <1>3, <3>2 DEF try_to_wake_up, TaskTypeOK, wake_up_process, IInv, TypeOK
    <3> QED BY <3>1, <3>2
  <2>2. pc' \in [Tasks -> PCs]
    BY <1>1 DEF IInv, TypeOK, PCs
  <2>3. count' \in Int /\ (arch = "xchg" => count' >= -1)
    BY <1>1 DEF IInv, TypeOK
  <2> QED BY <1>1, <2>1, <2>2, <2>3 DEF IInv, TypeOK, TaskTypeOK
<1>5. ListInv'
  BY <1>1, <1>2 DEF ListInv, IInv, Queued
<1>6. OwnStep(t)
  BY <1>1, <1>2, OwnedCount DEF OwnStep, Owns
<1>7. WakeupPromised'
  <2> SUFFICES ASSUME wait_list # <<>>
               PROVE  \E u \in Tasks : WillAct(u)'
    BY <1>1 DEF WakeupPromised
  <2>1. PICK h \in Tasks : /\ h \in Members(wait_list)
                           /\ state' = wake_up_process(h)
    BY <1>3
  <2>2. pc[h] \in {"sched", "relock"}
    BY <1>1, <2>1 DEF IInv, ListInv, Queued, wait_lock_free
  <2>3. pc'[h] = pc[h]
    BY <1>1, <1>2, <2>2
  <2>4. state'[h] = TASK_RUNNING
    BY <2>1 DEF wake_up_process, try_to_wake_up, TaskTypeOK, SleepStates, IInv, TypeOK
  <2>5. WillAct(h)'
    BY <2>2, <2>3, <2>4 DEF WillAct
  <2> QED BY <2>5
<1> QED BY <1>4, <1>5, <1>6, <1>7, OwnStepKeeps DEF IInv

\* The trylock of each build, and the second exchange of mutex-xchg.h.
LEMMA TrylockStep ==
    ASSUME IInv, NEW t \in Tasks, mutex_trylock(t) \/ trylock_restore(t)
    PROVE  IInv' /\ OwnStep(t)
<1>1. /\ UNCHANGED <<taskVars, state, pending, arch, wait_list, sleep>>
      /\ pc[t] \in {"idle", "restore"}
  BY DEF mutex_trylock, trylock_restore, taskVars
<1>2. PICK new \in {"idle", "held", "restore"} :
         /\ pc' = [pc EXCEPT ![t] = new]
         /\ new = "held" <=> count = 1
  BY OwnedCount DEF mutex_trylock, trylock_slowpath, trylock_cmpxchg,
                    trylock_xchg, trylock_restore
<1>3. /\ count' \in {-1, 0}
      /\ count' = 0 => \/ wait_list = <<>>
                       \/ count >= 0 /\ pc[t] = "idle"
                       \/ new = "restore"
  <2>1. CASE mutex_trylock(t) /\ ~trylock_xchg(t)
    BY <2>1 DEF mutex_trylock, trylock_slowpath, trylock_cmpxchg
  <2>2. CASE mutex_trylock(t) /\ trylock_xchg(t)
    <3>1. /\ count' = 0
          /\ pc' = [pc EXCEPT ![t] = IF count = 1 THEN "held"
                               ELSE IF count < 0 THEN "restore" ELSE "idle"]
          /\ pc[t] = "idle"
      BY <2>2 DEF mutex_trylock, trylock_xchg
    <3>2. count < 0 => new = "restore"
      BY <1>2, <3>1, OwnedCount DEF IInv, TypeOK
    <3> QED BY <3>1, <3>2, OwnedCount
  <2>3. CASE trylock_restore(t)
    BY <2>3 DEF trylock_restore
  <2> QED BY <2>1, <2>2, <2>3
<1>4. /\ \A u \in Tasks \ {t} : pc'[u] = pc[u]
      /\ pc'[t] = new
  BY <1>2 DEF IInv, TypeOK
<1>5. TypeOK'
  <2>1. pc' \in [Tasks -> PCs]
    BY <1>2 DEF IInv, TypeOK, PCs
  <2> QED BY <1>1, <1>3, <2>1 DEF IInv, TypeOK, TaskTypeOK
<1>6. ListInv'
  BY <1>1, <1>4 DEF ListInv, IInv, Queued
<1>7. OwnStep(t)
  <2>1. ~Owns(t) /\ (Owns(t)' <=> new = "held")
    BY <1>1, <1>4 DEF Owns
  <2> QED BY <1>1, <1>2, <1>3, <1>4, <2>1 DEF OwnStep
<1>8. WakeupPromised'
  <2>1. CASE new = "restore"
    BY <1>4, <2>1 DEF WakeupPromised, WillAct
  <2>2. CASE wait_list = <<>> \/ count' = -1
    BY <1>1, <2>2 DEF WakeupPromised
  <2>3. CASE count >= 0 /\ pc[t] = "idle"
    <3>1. \A u \in Tasks : WillAct(u) => WillAct(u)'
      BY <1>1, <1>4, <2>3 DEF WillAct
    <3> QED BY <1>1, <2>3, <3>1 DEF IInv, WakeupPromised
  <2> QED BY <1>3, <2>1, <2>2, <2>3
<1> QED BY <1>5, <1>6, <1>7, <1>8, OwnStepKeeps DEF IInv

\* Signals do not touch the mutex, and a wake-up only adds to who will act.
LEMMA SignalStep ==
    ASSUME IInv, NEW t \in Tasks, Signal(t) \/ HandleSignal(t)
    PROVE  IInv' /\ Owners' = Owners
<1>1. UNCHANGED <<arch, count, wait_list, pc, sleep>>
  BY DEF Signal, HandleSignal, mutexVars
<1>2. /\ state' \in [Tasks -> SleepStates \cup {TASK_RUNNING}]
      /\ \A u \in Tasks : state[u] = TASK_RUNNING => state'[u] = TASK_RUNNING
  <2>1. CASE Signal(t)
    <3>1. TaskTypeOK
      BY DEF IInv, TypeOK
    <3>2. PICK mask : state' = try_to_wake_up(t, mask)
      BY <2>1 DEF Signal, signal_wake_up
    <3> QED BY <3>1, <3>2 DEF try_to_wake_up, TaskTypeOK
  <2>2. CASE HandleSignal(t)
    BY <2>2 DEF HandleSignal, IInv, TypeOK, TaskTypeOK
  <2> QED BY <2>1, <2>2
<1>3. pending' \in [Tasks -> Signals]
  BY DEF Signal, signal_wake_up, HandleSignal, IInv, TypeOK, TaskTypeOK, Signals
<1>4. TypeOK'
  BY <1>1, <1>2, <1>3 DEF IInv, TypeOK, TaskTypeOK
<1>5. \A u \in Tasks : (Owns(u)' <=> Owns(u)) /\ (Queued(u)' <=> Queued(u))
                        /\ (WillAct(u) => WillAct(u)')
  BY <1>1, <1>2 DEF Owns, slowpath_needs_to_unlock, Queued, WillAct
<1>6. Owners' = Owners
  BY <1>5 DEF Owners
<1>7. ListInv' /\ MutualExclusion'
  BY <1>1, <1>5 DEF IInv, ListInv, MutualExclusion
<1>8. CountTellsOwner'
  BY <1>1, <1>6 DEF IInv, CountTellsOwner
<1>9. WakeupPromised'
  BY <1>1, <1>5 DEF IInv, WakeupPromised
<1> QED BY <1>4, <1>6, <1>7, <1>8, <1>9 DEF IInv

\* Every step preserves the invariant and is a step of the abstract lock.
LEMMA NextIInv == IInv /\ [Next]_vars => IInv' /\ [Lock!Next]_Owners
<1> SUFFICES ASSUME IInv, [Next]_vars PROVE IInv' /\ [Lock!Next]_Owners
  OBVIOUS
<1>1. ASSUME NEW t \in Tasks, IInv', OwnStep(t)
      PROVE  IInv' /\ [Lock!Next]_Owners
  BY <1>1, OwnStepKeeps DEF Lock!Next
<1>2. ASSUME NEW t \in Tasks,
             mutex_lock(t) \/ mutex_lock_interruptible(t) \/ mutex_lock_killable(t)
      PROVE  IInv' /\ OwnStep(t)
  <2>1. PICK st \in SleepStates : lock_any(t, st)
    BY <1>2 DEF mutex_lock, mutex_lock_interruptible, mutex_lock_killable, SleepStates
  <2> QED BY <2>1, LockStep
<1>3. ASSUME NEW t \in Tasks, mutex_trylock(t) \/ mutex_unlock(t) \/ KernelStep(t)
      PROVE  IInv' /\ OwnStep(t)
  BY <1>3, LockSlowStep, RetryStep, ScheduleStep, DoneStep, UnlockStep,
     UnlockSlowStep, TrylockStep DEF KernelStep
<1>4. ASSUME NEW t \in Tasks, Signal(t) \/ HandleSignal(t)
      PROVE  IInv' /\ [Lock!Next]_Owners
  BY <1>4, SignalStep
<1>5. CASE UNCHANGED vars
  <2>1. UNCHANGED <<state, pending, arch, count, wait_list, pc, sleep>>
    BY <1>5 DEF vars, taskVars, mutexVars
  <2>2. \A u \in Tasks : (Owns(u)' <=> Owns(u)) /\ (Queued(u)' <=> Queued(u))
                          /\ (WillAct(u)' <=> WillAct(u))
    BY <2>1 DEF Owns, slowpath_needs_to_unlock, Queued, WillAct
  <2>3. Owners' = Owners
    BY <2>2 DEF Owners
  <2> QED BY <2>1, <2>2, <2>3
          DEF IInv, TypeOK, TaskTypeOK, ListInv, MutualExclusion,
              CountTellsOwner, WakeupPromised
<1> QED BY <1>1, <1>2, <1>3, <1>4, <1>5 DEF Next

------------------------------------------------------------------------------
\* The invariant holds in every reachable state of the mutex.
THEOREM MutexInvariant == Spec => []IInv
<1>1. Init => IInv
  BY InitIInv
<1>2. IInv /\ [Next]_vars => IInv'
  BY NextIInv
<1> QED BY <1>1, <1>2, PTL DEF Spec

\* The count, the wait list and the control points stay well typed.
THEOREM MutexTypeCorrect == Spec => []TypeOK
BY MutexInvariant, PTL DEF IInv

\* For any number of tasks, on each of the fastpaths and with failing
\* store-exclusives, two tasks never own the mutex at a time.
THEOREM MutexMutualExclusion == Spec => []MutualExclusion
BY MutexInvariant, PTL DEF IInv

\* lock->count is 1 exactly while nobody owns the mutex.
THEOREM MutexCountTellsOwner == Spec => []CountTellsOwner
BY MutexInvariant, PTL DEF IInv

\* A queued task is never forgotten by the unlock fastpath.
THEOREM MutexWakeupPromised == Spec => []WakeupPromised
BY MutexInvariant, PTL DEF IInv

\* The mutex implements the abstract lock.
THEOREM MutexImplementsLock == Spec => LockSpec
<1>1. Init => Lock!Init
  BY InitIInv
<1>2. IInv /\ [Next]_vars => [Lock!Next]_Owners
  BY NextIInv
<1> QED BY <1>1, <1>2, MutexInvariant, PTL DEF Spec, LockSpec, Lock!Spec
==============================================================================
