---------------------------- MODULE RwSemProofs ------------------------------
(***************************************************************************)
(* Proofs about lib/rwsem-spinlock.c for any finite set of tasks.          *)
(***************************************************************************)
EXTENDS RwSem, KernelLemmas

Waker(t) == pc[t] \in {"wake_up", "wake_downgrade"}

\* A waiter is on the list, or on its way to be woken, once and not twice.
ListsExact ==
    /\ NoDup(wait_list)
    /\ NoDup(todo)
    /\ Members(wait_list) \cap Members(todo) = {}
    /\ cleared => todo # <<>>

\* Only the task that has wait_lock wakes others, and it has some to wake.
OneWaker ==
    \A s, t \in Tasks : Waker(t) => todo # <<>> /\ (Waker(s) => s = t)

\* What a woken waiter finds depends on the frames the waker still has to
\* touch, and those on which tasks are on the two lists and on who wakes them.
IInv == /\ Consistent
        /\ HandoffSeen
        /\ FramesAlive
        /\ ListsExact
        /\ OneWaker

Kinds == {"read", "write"}

\* The requests that were not admitted yet, as the abstract lock sees them.
Requests(q, f) == [i \in 1..Len(q) |-> <<q[i], f[q[i]]>>]
Queue == Requests(wait_list, flags)

\* A step of the abstract lock, or none.
FifoStep == Fifo!Next \/ UNCHANGED <<Readers, Writers, Queue>>

USE DEF TASK_RUNNING, TASK_INTERRUPTIBLE, TASK_UNINTERRUPTIBLE, TASK_KILLABLE,
        TASK_ALL

------------------------------------------------------------------------------
\* Sets of tasks can be counted, and no more of them than there are tasks.
LEMMA TaskSets ==
    ASSUME NEW S \in SUBSET Tasks
    PROVE  /\ IsFiniteSet(S)
           /\ Cardinality(S) \in 0..Cardinality(Tasks)
           /\ Cardinality(S) = 0 <=> S = {}
           /\ Cardinality(S) = 1 <=> \E x : S = {x}
           /\ \A x : x \notin S => Cardinality(S \cup {x}) = Cardinality(S) + 1
           /\ \A x \in S : Cardinality(S \ {x}) = Cardinality(S) - 1
<1>1. /\ IsFiniteSet(S) /\ Cardinality(S) <= Cardinality(Tasks)
      /\ Cardinality(S) \in Nat /\ Cardinality(Tasks) \in Nat
  BY FS_Subset, FS_CardinalityType, RwSemAssumption
<1>2. Cardinality(S) = 0 <=> S = {}
  BY <1>1, FS_EmptySet
<1>3. Cardinality(S) = 1 <=> \E x : S = {x}
  BY <1>1, FS_Singleton
<1>4. \A x : x \notin S => Cardinality(S \cup {x}) = Cardinality(S) + 1
  BY <1>1, FS_AddElement
<1>5. \A x \in S : Cardinality(S \ {x}) = Cardinality(S) - 1
  BY <1>1, FS_RemoveElement
<1>6. Cardinality(S) \in 0..Cardinality(Tasks)
  BY <1>1
<1> QED BY <1>1, <1>2, <1>3, <1>4, <1>5, <1>6, Zenon

\* What the invariant says about the tasks on the two lists.
LEMMA OnTheLists ==
    ASSUME IInv
    PROVE  /\ \A u \in Members(wait_list) : u \in Tasks /\ Waiting(u) /\ task[u]
           /\ \A i \in 1..Len(todo) : i > 1 \/ ~cleared
                 => todo[i] \in Tasks /\ Waiting(todo[i]) /\ task[todo[i]]
           /\ Members(wait_list) \subseteq Tasks
           /\ Members(todo) \subseteq Tasks
<1>1. wait_list \in Seq(Tasks) /\ todo \in Seq(Tasks)
  BY DEF IInv, Consistent, TypeOK
<1>2. Members(wait_list) \subseteq Tasks /\ Members(todo) \subseteq Tasks
  BY <1>1 DEF Members
<1>3. \A i \in 1..Len(todo) : todo[i] \in Tasks
  BY <1>1
<1> QED BY <1>2, <1>3 DEF IInv, FramesAlive

\* The readers and the writers are tasks, and nobody is both.
LEMMA OwnersAreTasks ==
    /\ Readers \subseteq Tasks
    /\ Writers \subseteq Tasks
BY DEF Readers, Writers

\* Whoever owns the semaphore: the count says whether for reading or writing.
LEMMA OwnersByActivity ==
    ASSUME IInv
    PROVE  /\ activity \in Int /\ activity >= -1
           /\ activity = -1 => Readers = {} /\ \E w \in Tasks : Writers = {w}
           /\ activity # -1 => Writers = {} /\ activity = Cardinality(Readers)
           /\ activity = 0 => Readers = {}
           /\ activity > 0 => Readers # {}
<1>1. activity \in -1 .. Cardinality(Tasks) /\ Cardinality(Tasks) \in Nat
  BY FS_CardinalityType, RwSemAssumption DEF IInv, Consistent, TypeOK
<1>2. Cardinality(Readers) \in Nat /\ (Cardinality(Readers) = 0 <=> Readers = {})
  BY OwnersAreTasks, TaskSets
<1>3. Cardinality(Writers) = 1 => \E w \in Tasks : Writers = {w}
  BY OwnersAreTasks, TaskSets
<1> QED BY <1>1, <1>2, <1>3 DEF IInv, Consistent, ActivityExact

\* FrontReaders is the number of readers in front of the first writer.
LEMMA FrontReadersProperties ==
    ASSUME IInv
    PROVE  /\ FrontReaders \in 0..Len(wait_list)
           /\ \A i \in 1..FrontReaders : flags[wait_list[i]] = "read"
           /\ FrontReaders < Len(wait_list)
                 => flags[wait_list[FrontReaders + 1]] = "write"
<1> DEFINE W == {i \in 1..Len(wait_list) : flags[wait_list[i]] = "write"}
           P(n) == /\ \A i \in 1..n : flags[wait_list[i]] = "read"
                   /\ n < Len(wait_list) => flags[wait_list[n + 1]] = "write"
<1>1. /\ Len(wait_list) \in Nat
      /\ \A i \in 1..Len(wait_list) : flags[wait_list[i]] \in {"read", "write"}
  BY DEF IInv, Consistent, TypeOK
<1>2. PICK n \in 0..Len(wait_list) : /\ \A i \in 1..n : i \notin W
                                     /\ n < Len(wait_list) => n + 1 \in W
  <2>1. W \in SUBSET (1..Len(wait_list))
    OBVIOUS
  <2> HIDE DEF W
  <2> QED BY <1>1, <2>1, FirstOfKind
<1>3. P(n)
  BY <1>1, <1>2
<1>4. FrontReaders = CHOOSE m \in 0..Len(wait_list) : P(m)
  BY DEF FrontReaders
<1>5. \E m \in 0..Len(wait_list) : P(m)
  BY <1>3
<1>6. FrontReaders \in 0..Len(wait_list) /\ P(FrontReaders)
  <2> HIDE DEF P
  <2> QED BY <1>4, <1>5
<1> QED BY <1>6

------------------------------------------------------------------------------
\* __init_rwsem() establishes the invariant.
LEMMA InitIInv == Init => IInv /\ Fifo!Init
<1> SUFFICES ASSUME Init PROVE IInv /\ Fifo!Init
  OBVIOUS
<1> USE DEF Init, TaskInit
<1>1. Readers = {} /\ Writers = {}
  BY DEF Readers, Writers, Granted, Waiting
<1>2. TypeOK
  <2>1. 0 \in -1 .. Cardinality(Tasks)
    BY FS_CardinalityType, RwSemAssumption
  <2>2. TaskTypeOK
    BY DEF TaskTypeOK, Signals
  <2>3. cleared \in BOOLEAN /\ task \in [Tasks -> BOOLEAN]
    BY Zenon
  <2> QED BY <2>1, <2>2, <2>3 DEF TypeOK, PCs
<1>3. ActivityExact
  BY <1>1, FS_EmptySet DEF ActivityExact
<1>4. HeadMustWait
  BY DEF HeadMustWait
<1>5. HandoffSeen
  BY DEF HandoffSeen
<1>6. FramesAlive
  BY DEF FramesAlive, Members
<1>7. ListsExact
  BY DEF ListsExact, Members, NoDup
<1>8. OneWaker
  BY DEF OneWaker, Waker
<1>9. Fifo!Init
  BY <1>1 DEF Fifo!Init
<1> QED BY <1>2, <1>3, <1>4, <1>5, <1>6, <1>7, <1>8, <1>9 DEF IInv, Consistent

\* The uncontended path keeps the invariant and adds the caller to the owners.
LEMMA GrantStep ==
    ASSUME IInv, NEW t \in Tasks, NEW kind \in Kinds, pc[t] = "idle",
           IF kind = "read" THEN CanRead ELSE CanWrite,
           grant(t, kind)
    PROVE  /\ IInv'
           /\ Readers' = IF kind = "read" THEN Readers \cup {t} ELSE Readers
           /\ Writers' = IF kind = "write" THEN Writers \cup {t} ELSE Writers
           /\ t \notin Readers /\ t \notin Writers
<1> USE DEF IInv, Consistent, grant, taskVars, Kinds
<1>1. /\ pc' \in [Tasks -> PCs]
      /\ \A u \in Tasks \ {t} : pc'[u] = pc[u]
      /\ pc'[t] = kind
      /\ UNCHANGED <<state, pending, wait_list, flags, task, todo, cleared>>
  BY DEF TypeOK, PCs
<1>2. t \notin Members(wait_list) /\ t \notin Readers /\ t \notin Writers
  BY OnTheLists DEF Waiting, Readers, Writers, Granted
<1>3. \A u \in Tasks : /\ Waiting(u)' <=> Waiting(u)
                       /\ Granted(u)' <=> Granted(u)
                       /\ Waker(u)' <=> Waker(u)
  BY <1>1 DEF Waiting, Granted, Waker
<1>4. /\ Readers' = IF kind = "read" THEN Readers \cup {t} ELSE Readers
      /\ Writers' = IF kind = "write" THEN Writers \cup {t} ELSE Writers
  BY <1>1, <1>3 DEF Readers, Writers, Granted, Waiting
<1>5. ActivityExact'
  <2>1. CASE kind = "read"
    <3>1. activity >= 0 /\ activity' = activity + 1
      BY <2>1 DEF CanRead
    <3>2. Writers = {} /\ activity = Cardinality(Readers)
      BY <3>1, OwnersByActivity
    <3>3. Cardinality(Readers') = Cardinality(Readers) + 1
      BY <2>1, <1>2, <1>4, OwnersAreTasks, TaskSets
    <3> QED BY <2>1, <1>4, <3>1, <3>2, <3>3 DEF ActivityExact
  <2>2. CASE kind = "write"
    <3>1. activity = 0 /\ activity' = -1
      BY <2>2 DEF CanWrite
    <3>2. Readers' = {} /\ Writers' = {t}
      BY <2>2, <3>1, <1>4, OwnersByActivity
    <3>3. Cardinality(Writers') = 1
      BY <3>2, FS_Singleton
    <3> QED BY <3>1, <3>2, <3>3 DEF ActivityExact
  <2> QED BY <2>1, <2>2
<1>6. TypeOK'
  <2>1. activity' \in -1 .. Cardinality(Tasks)
    <3>1. Readers' \subseteq Tasks
      BY <1>4, OwnersAreTasks
    <3>2. Cardinality(Readers') \in 0 .. Cardinality(Tasks)
      BY <3>1, TaskSets
    <3>3. Cardinality(Tasks) \in Nat
      BY FS_CardinalityType, RwSemAssumption
    <3> QED BY <1>5, <3>2, <3>3 DEF ActivityExact
  <2> QED BY <2>1, <1>1 DEF TypeOK, TaskTypeOK
<1>7. HeadMustWait'
  BY <1>1 DEF HeadMustWait, CanRead, CanWrite
<1>8. HandoffSeen'
  BY <1>1 DEF HandoffSeen
<1>9. FramesAlive'
  BY <1>1, <1>3 DEF FramesAlive
<1>10. ListsExact' /\ OneWaker'
  BY <1>1, <1>3 DEF ListsExact, OneWaker
<1> QED BY <1>2, <1>4, <1>5, <1>6, <1>7, <1>8, <1>9, <1>10

\* The contended path keeps the invariant: the caller queues up behind a
\* first waiter that has to wait.
LEMMA EnqueueStep ==
    ASSUME IInv, NEW t \in Tasks, NEW kind \in Kinds, pc[t] = "idle",
           wait_lock_free,
           IF kind = "read" THEN ~CanRead ELSE ~CanWrite,
           enqueue(t, kind)
    PROVE  /\ IInv'
           /\ Readers' = Readers /\ Writers' = Writers
           /\ t \notin Readers /\ t \notin Writers /\ t \notin Members(wait_list)
<1> USE DEF IInv, Consistent, enqueue, Kinds
<1>1. /\ wait_list \in Seq(Tasks) /\ NoDup(wait_list)
      /\ t \notin Members(wait_list) /\ t \notin Readers /\ t \notin Writers
  BY OnTheLists DEF Waiting, Readers, Writers, Granted, TypeOK, ListsExact
<1>2. /\ wait_list' \in Seq(Tasks) /\ NoDup(wait_list')
      /\ Members(wait_list') = Members(wait_list) \cup {t}
      /\ wait_list' # <<>>
  BY <1>1, AddTailProperties
<1>3. TypeOK'
  BY <1>2 DEF TypeOK, TaskTypeOK, SleepStates, PCs
<1>4. /\ \A u \in Tasks \ {t} : /\ pc'[u] = pc[u] /\ flags'[u] = flags[u]
                                /\ task'[u] = task[u] /\ state'[u] = state[u]
      /\ pc'[t] = "check" /\ flags'[t] = kind /\ task'[t] = TRUE
      /\ UNCHANGED <<activity, todo, cleared>>
  BY DEF TypeOK, TaskTypeOK
<1>5. \A u \in Tasks : Waker(u)' <=> Waker(u)
  BY <1>4 DEF Waker
<1>6. \A u \in Tasks \ {t} : /\ Waiting(u)' <=> Waiting(u)
                             /\ Granted(u)' <=> Granted(u)
  BY <1>2, <1>4 DEF Waiting, Granted
<1>7. Waiting(t)' /\ ~Granted(t)'
  BY <1>2, <1>4 DEF Waiting, Granted
<1>8. Readers' = Readers /\ Writers' = Writers
  <2>1. t \notin Readers' /\ t \notin Writers'
    BY <1>4, <1>7 DEF Readers, Writers
  <2>2. \A u \in Tasks \ {t} : /\ u \in Readers' <=> u \in Readers
                               /\ u \in Writers' <=> u \in Writers
    BY <1>4, <1>6 DEF Readers, Writers
  <2>3. Readers' \subseteq Tasks /\ Writers' \subseteq Tasks
    BY DEF Readers, Writers
  <2>4. \A u : /\ u \in Readers' <=> u \in Readers
               /\ u \in Writers' <=> u \in Writers
    BY <1>1, <2>1, <2>2, <2>3, OwnersAreTasks
  <2> QED BY <2>4, Zenon
<1>9. ActivityExact'
  BY <1>8, <1>4 DEF ActivityExact
<1>10. HeadMustWait'
  <2>1. CASE wait_list = <<>>
    <3>1. Head(wait_list') = t
      BY <2>1 DEF list_add_tail
    <3>2. IF kind = "read" THEN activity = -1 ELSE activity # 0
      BY <2>1, OwnersByActivity DEF CanRead, CanWrite
    <3>3. activity = -1 \/ activity > 0
      BY <3>2, OwnersByActivity
    <3> QED BY <1>4, <3>1, <3>2, <3>3 DEF HeadMustWait
  <2>2. CASE wait_list # <<>>
    <3>1. Head(wait_list') = Head(wait_list) /\ Head(wait_list) \in Members(wait_list)
      BY <2>2, <1>1 DEF list_add_tail, Members
    <3>2. flags'[Head(wait_list)] = flags[Head(wait_list)]
      BY <3>1, <1>1, <1>4, OnTheLists
    <3> QED BY <2>2, <3>1, <3>2, <1>4 DEF HeadMustWait
  <2> QED BY <2>1, <2>2
<1>11. todo = <<>> /\ ~cleared
  BY DEF wait_lock_free, ListsExact
<1>12. HandoffSeen'
  BY <1>4, <1>11 DEF HandoffSeen
<1>13. FramesAlive'
  <2> SUFFICES ASSUME NEW u \in Tasks, u \in Members(wait_list')
               PROVE  Waiting(u)' /\ task'[u]
    BY <1>4, <1>11 DEF FramesAlive
  <2>1. CASE u = t
    BY <2>1, <1>4, <1>7
  <2>2. CASE u # t
    BY <2>2, <1>2, <1>4, <1>6, OnTheLists
  <2> QED BY <2>1, <2>2
<1>14. ListsExact'
  BY <1>2, <1>4, <1>11 DEF ListsExact, Members
<1>15. OneWaker'
  BY <1>4, <1>5 DEF OneWaker
<1> QED BY <1>1, <1>3, <1>8, <1>9, <1>10, <1>12, <1>13, <1>14, <1>15

\* The waiting loop neither adds to the owners nor takes from them: a waiter
\* that finds its waiter.task cleared was given the semaphore before.
LEMMA LoopStep ==
    ASSUME IInv, NEW t \in Tasks,
           \/ wait_check(t) \/ wait_schedule(t) \/ wait_set_state(t)
           \/ StrayWakeup(t)
    PROVE  IInv' /\ Readers' = Readers /\ Writers' = Writers
<1> USE DEF IInv, Consistent
<1>1. UNCHANGED <<pending, activity, wait_list, flags, task, todo, cleared>>
  BY DEF wait_check, wait_schedule, wait_set_state, StrayWakeup, rwVars
<1>2. /\ state' \in [Tasks -> SleepStates \cup {TASK_RUNNING}]
      /\ \A u \in Tasks \ {t} : state'[u] = state[u]
      /\ state[t] = TASK_RUNNING /\ pc'[t] = "sched" => state'[t] = TASK_RUNNING
  BY DEF TypeOK, TaskTypeOK, wait_check, wait_schedule, wait_set_state, schedule,
         StrayWakeup, wake_up_process, try_to_wake_up, SleepStates, rwVars
<1>3. /\ pc' \in [Tasks -> PCs]
      /\ \A u \in Tasks \ {t} : pc'[u] = pc[u]
      /\ Waiting(t)
      /\ pc'[t] \in {"check", "sched", "set"} \/ (~task[t] /\ pc'[t] = flags[t])
      /\ pc'[t] = "sched" => pc[t] = "sched" \/ task[t]
      /\ flags[t] \in {"read", "write"}
  BY DEF TypeOK, PCs, wait_check, wait_schedule, wait_set_state, StrayWakeup,
         Waiting, rwVars
<1>4. TypeOK'
  BY <1>1, <1>2, <1>3 DEF TypeOK, TaskTypeOK
<1>5. /\ \A u \in Tasks \ {t} : Waiting(u)' <=> Waiting(u)
      /\ task[t] => Waiting(t)'
      /\ \A u \in Tasks : Waker(u)' <=> Waker(u)
  BY <1>3 DEF Waiting, Waker
<1>6. ~task[t] => Granted(t)
  BY <1>3, OnTheLists DEF Granted
<1>7. Readers' = Readers /\ Writers' = Writers
  <2>1. \A u \in Tasks \ {t} : Granted(u)' <=> Granted(u)
    BY <1>1, <1>5 DEF Granted
  <2>2. t \in Readers' <=> t \in Readers
    BY <1>1, <1>3, <1>6 DEF Readers, Granted, Waiting
  <2>3. t \in Writers' <=> t \in Writers
    BY <1>1, <1>3, <1>6 DEF Writers, Granted, Waiting
  <2>4. \A u \in Tasks \ {t} : (u \in Readers' <=> u \in Readers)
    BY <1>1, <1>3, <2>1 DEF Readers
  <2>5. \A u \in Tasks \ {t} : (u \in Writers' <=> u \in Writers)
    BY <1>1, <1>3, <2>1 DEF Writers
  <2>6. Readers' \subseteq Tasks /\ Writers' \subseteq Tasks
    BY DEF Readers, Writers
  <2>7. \A u : u \in Readers' <=> u \in Readers
    BY <2>2, <2>4, <2>6, OwnersAreTasks
  <2>8. \A u : u \in Writers' <=> u \in Writers
    BY <2>3, <2>5, <2>6, OwnersAreTasks
  <2> QED BY <2>7, <2>8, Zenon
<1>8. ActivityExact' /\ HeadMustWait'
  BY <1>1, <1>7 DEF ActivityExact, HeadMustWait
<1>9. HandoffSeen'
  <2> SUFFICES ASSUME NEW u \in Tasks, pc'[u] = "sched", ~task[u]
               PROVE  state'[u] = TASK_RUNNING \/ (cleared /\ Head(todo) = u)
    BY <1>1 DEF HandoffSeen
  <2>1. pc[u] = "sched"
    BY <1>3
  <2>2. state[u] = TASK_RUNNING \/ (cleared /\ Head(todo) = u)
    BY <2>1 DEF HandoffSeen
  <2> QED BY <2>2, <1>2
<1>10. FramesAlive'
  BY <1>1, <1>5 DEF FramesAlive
<1>11. ListsExact' /\ OneWaker'
  BY <1>1, <1>5 DEF ListsExact, OneWaker
<1> QED BY <1>4, <1>7, <1>8, <1>9, <1>10, <1>11

\* The waker clears waiter->task of the first task it has to wake.
LEMMA ClearStep ==
    ASSUME IInv, NEW t \in Tasks, wake_clear(t)
    PROVE  IInv' /\ Readers' = Readers /\ Writers' = Writers
<1> USE DEF IInv, Consistent
<1>1. /\ UNCHANGED <<state, pending, activity, wait_list, flags, todo, pc>>
      /\ ~cleared /\ cleared' = TRUE
      /\ task' = [task EXCEPT ![Head(todo)] = FALSE]
  BY DEF wake_clear, taskVars
<1>2. /\ todo \in Seq(Tasks) /\ todo # <<>> /\ NoDup(todo)
      /\ Head(todo) = todo[1] /\ Head(todo) \in Tasks
      /\ Head(todo) \in Members(todo)
  <2>1. todo # <<>>
    BY DEF OneWaker, Waker, wake_clear
  <2>2. todo \in Seq(Tasks) /\ NoDup(todo)
    BY DEF TypeOK, ListsExact
  <2> QED BY <2>1, <2>2, TailMembers
<1>3. TypeOK'
  <2>1. task' \in [Tasks -> BOOLEAN] /\ cleared' \in BOOLEAN
    BY <1>1, <1>2 DEF TypeOK
  <2> QED BY <2>1, <1>1 DEF TypeOK, TaskTypeOK
<1>4. \A u \in Tasks : Granted(u)' <=> Granted(u)
  BY <1>1 DEF Granted, Waiting
<1>5. Readers' = Readers /\ Writers' = Writers
  BY <1>1, <1>4 DEF Readers, Writers
<1>6. ActivityExact' /\ HeadMustWait'
  BY <1>1, <1>5 DEF ActivityExact, HeadMustWait
<1>7. HandoffSeen'
  <2> SUFFICES ASSUME NEW u \in Tasks, pc[u] = "sched", ~task'[u], u # Head(todo)
               PROVE  state[u] = TASK_RUNNING
    BY <1>1 DEF HandoffSeen
  <2>1. ~task[u]
    BY <1>1, <1>2 DEF TypeOK
  <2> QED BY <2>1, <1>1 DEF HandoffSeen
<1>8. FramesAlive'
  <2> SUFFICES ASSUME NEW u \in Tasks,
                      \/ u \in Members(wait_list)
                      \/ \E i \in 1..Len(todo) : todo[i] = u /\ i > 1
               PROVE  Waiting(u) /\ task'[u]
    BY <1>1 DEF FramesAlive, Waiting
  <2>1. Waiting(u) /\ task[u]
    BY <1>1 DEF FramesAlive
  <2>2. u # Head(todo)
    <3>1. CASE u \in Members(wait_list)
      BY <3>1, <1>2 DEF ListsExact
    <3>2. ASSUME NEW i \in 1..Len(todo), todo[i] = u, i > 1
          PROVE  u # Head(todo)
      <4>1. 1 \in 1..Len(todo) /\ i # 1
        BY <3>2
      <4> QED BY <4>1, <3>2, <1>2 DEF NoDup
    <3> QED BY <3>1, <3>2
  <2> QED BY <2>1, <2>2, <1>1 DEF TypeOK
<1>9. ListsExact' /\ OneWaker'
  BY <1>1, <1>2 DEF ListsExact, OneWaker, Waker
<1> QED BY <1>3, <1>5, <1>6, <1>7, <1>8, <1>9

\* The waker wakes that task and goes on to the next, or releases wait_lock.
LEMMA WakeTaskStep ==
    ASSUME IInv, NEW t \in Tasks, wake_task(t)
    PROVE  IInv' /\ Readers' = Readers /\ Writers' = Writers
<1> USE DEF IInv, Consistent
<1>1. /\ UNCHANGED <<pending, activity, wait_list, flags, task>>
      /\ cleared /\ cleared' = FALSE
      /\ todo' = Tail(todo)
      /\ Waker(t)
  BY DEF wake_task, Waker
<1>2. /\ todo \in Seq(Tasks) /\ todo # <<>> /\ NoDup(todo)
      /\ Head(todo) \in Tasks
      /\ Tail(todo) \in Seq(Tasks) /\ NoDup(Tail(todo))
      /\ Members(Tail(todo)) = Members(todo) \ {Head(todo)}
      /\ Len(Tail(todo)) = Len(todo) - 1 /\ Len(todo) \in Nat \ {0}
      /\ \A i \in 1..Len(Tail(todo)) : Tail(todo)[i] = todo[i + 1]
  <2>1. todo # <<>>
    BY <1>1 DEF OneWaker
  <2>2. todo \in Seq(Tasks) /\ NoDup(todo)
    BY DEF TypeOK, ListsExact
  <2>3. /\ Len(Tail(todo)) = Len(todo) - 1 /\ Len(todo) \in Nat \ {0}
        /\ \A i \in 1..Len(Tail(todo)) : Tail(todo)[i] = todo[i + 1]
    BY <2>1, <2>2
  <2> QED BY <2>1, <2>2, <2>3, TailMembers
<1>3. /\ state' \in [Tasks -> SleepStates \cup {TASK_RUNNING}]
      /\ \A u \in Tasks : state[u] = TASK_RUNNING => state'[u] = TASK_RUNNING
      /\ state'[Head(todo)] = TASK_RUNNING
  BY <1>2 DEF try_to_wake_up, TaskTypeOK, SleepStates, wake_task, wake_up_process, TypeOK
<1>4. /\ pc' \in [Tasks -> PCs]
      /\ \A u \in Tasks \ {t} : pc'[u] = pc[u]
      /\ Len(todo) > 1 => pc'[t] = pc[t]
      /\ Len(todo) <= 1 => \/ pc[t] = "wake_up" /\ pc'[t] = "idle"
                           \/ pc[t] = "wake_downgrade" /\ pc'[t] = "read"
  BY <1>2 DEF wake_task, TypeOK, PCs
<1>5. \A u \in Tasks : Waiting(u)' <=> Waiting(u)
  BY <1>1, <1>2, <1>4 DEF Waiting, Waker
<1>6. TypeOK'
  <2>1. cleared' \in BOOLEAN
    BY <1>1
  <2> QED BY <2>1, <1>1, <1>2, <1>3, <1>4 DEF TypeOK, TaskTypeOK
<1>7. Readers' = Readers /\ Writers' = Writers
  <2>1. \A u \in Tasks : Granted(u)' <=> Granted(u)
    BY <1>1, <1>5 DEF Granted
  <2>2. \A u \in Tasks : /\ pc'[u] \in {"read", "wake_downgrade"}
                               <=> pc[u] \in {"read", "wake_downgrade"}
                         /\ pc'[u] = "write" <=> pc[u] = "write"
    BY <1>1, <1>2, <1>4 DEF Waker
  <2> QED BY <1>1, <2>1, <2>2 DEF Readers, Writers
<1>8. ActivityExact' /\ HeadMustWait'
  BY <1>1, <1>7 DEF ActivityExact, HeadMustWait
<1>9. HandoffSeen'
  <2> SUFFICES ASSUME NEW u \in Tasks, pc'[u] = "sched", ~task[u]
               PROVE  state'[u] = TASK_RUNNING
    BY <1>1 DEF HandoffSeen
  <2>1. pc[u] = "sched"
    BY <1>1, <1>2, <1>4 DEF Waker
  <2>2. state[u] = TASK_RUNNING \/ Head(todo) = u
    BY <2>1 DEF HandoffSeen
  <2> QED BY <2>2, <1>3
<1>10. FramesAlive'
  <2> SUFFICES ASSUME NEW u \in Tasks,
                      \/ u \in Members(wait_list)
                      \/ \E i \in 1..Len(Tail(todo)) : Tail(todo)[i] = u
               PROVE  Waiting(u) /\ task[u]
    BY <1>1, <1>5 DEF FramesAlive
  <2>1. CASE u \in Members(wait_list)
    BY <2>1, OnTheLists
  <2>2. ASSUME NEW i \in 1..Len(Tail(todo)), Tail(todo)[i] = u
        PROVE  Waiting(u) /\ task[u]
    <3>1. i + 1 \in 1..Len(todo) /\ i + 1 > 1 /\ todo[i + 1] = u
      BY <1>2, <2>2
    <3> QED BY <3>1, OnTheLists
  <2> QED BY <2>1, <2>2
<1>11. ListsExact'
  BY <1>1, <1>2 DEF ListsExact
<1>12. OneWaker'
  <2>1. CASE Len(todo) > 1
    <3>1. Tail(todo) # <<>>
      <4>1. Len(Tail(todo)) # 0
        BY <2>1, <1>2
      <4>2. Len(<<>>) = 0
        OBVIOUS
      <4> QED BY <4>1, <4>2, Zenon
    <3>2. \A u \in Tasks : Waker(u)' <=> Waker(u)
      BY <2>1, <1>4 DEF Waker
    <3> QED BY <3>1, <3>2, <1>1 DEF OneWaker
  <2>2. CASE Len(todo) <= 1
    <3>1. \A u \in Tasks : ~Waker(u)'
      BY <2>2, <1>1, <1>4 DEF OneWaker, Waker
    <3> QED BY <3>1 DEF OneWaker
  <2> QED BY <2>1, <2>2, <1>2
<1> QED BY <1>6, <1>7, <1>8, <1>9, <1>10, <1>11, <1>12

\* What taking the first n waiters off the list does, whoever calls it: they
\* become owners, and the caller an owner or none.
LEMMA WakeFirstStep ==
    ASSUME IInv, NEW t \in Tasks, NEW n \in 0..Len(wait_list), NEW act,
           NEW via, NEW new,
           \/ via = "wake_up" /\ new = "idle"
           \/ via = "wake_downgrade" /\ new = "read",
           pc[t] \in {"read", "write"}, wait_lock_free,
           wake_first(t, n, act, via, new)
    PROVE  LET front == {wait_list[i] : i \in 1..n}
           IN  /\ act \in -1 .. Cardinality(Tasks) => TypeOK'
               /\ HandoffSeen' /\ FramesAlive' /\ ListsExact' /\ OneWaker'
               /\ activity' = act /\ flags' = flags
               /\ front \subseteq Tasks
               /\ Members(wait_list') = Members(wait_list) \ front
               /\ t \notin front /\ front \cap (Readers \cup Writers) = {}
               /\ Readers' = (Readers \ {t}) \cup {u \in front : flags[u] = "read"}
                                \cup (IF new = "read" THEN {t} ELSE {})
               /\ Writers' = (Writers \ {t}) \cup {u \in front : flags[u] = "write"}
<1> USE DEF IInv, Consistent
<1> DEFINE front == {wait_list[i] : i \in 1..n}
<1>1. /\ UNCHANGED <<state, pending, flags, task, cleared>>
      /\ activity' = act
      /\ todo' = SubSeq(wait_list, 1, n)
      /\ wait_list' = SubSeq(wait_list, n + 1, Len(wait_list))
      /\ pc' = [pc EXCEPT ![t] = IF n = 0 THEN new ELSE via]
  BY DEF wake_first, taskVars
<1>2. wait_list \in Seq(Tasks) /\ NoDup(wait_list)
  BY DEF TypeOK, ListsExact
<1>3. /\ todo' \in Seq(Tasks) /\ NoDup(todo') /\ Len(todo') = n
      /\ Members(todo') = front
      /\ wait_list' \in Seq(Tasks) /\ NoDup(wait_list')
      /\ Members(wait_list') = Members(wait_list) \ front
  <2> DEFINE a == SubSeq(wait_list, 1, n)
             b == SubSeq(wait_list, n + 1, Len(wait_list))
  <2>1. /\ a \in Seq(Tasks) /\ NoDup(a) /\ Len(a) = n
        /\ Members(a) = {wait_list[i] : i \in 1..n}
        /\ b \in Seq(Tasks) /\ NoDup(b)
        /\ Members(b) = Members(wait_list) \ Members(a)
    BY <1>2, SplitProperties
  <2>2. todo' = a /\ wait_list' = b
    BY <1>1
  <2> HIDE DEF a, b
  <2> QED BY <2>1, <2>2
<1>4. front \subseteq Members(wait_list)
  BY <1>2 DEF Members
<1>5. n \in Nat /\ (todo' = <<>> <=> n = 0)
  <2>1. Len(<<>>) = 0 /\ n \in Nat
    BY <1>2
  <2> QED BY <2>1, <1>3
<1> HIDE DEF front
<1>6. todo = <<>> /\ ~cleared
  BY DEF wait_lock_free, ListsExact
<1>7. /\ pc' \in [Tasks -> PCs]
      /\ \A u \in Tasks \ {t} : pc'[u] = pc[u]
      /\ pc'[t] = IF n = 0 THEN new ELSE via
      /\ ~Waiting(t) /\ ~Waiting(t)'
      /\ \A u \in Tasks : Waiting(u)' <=> Waiting(u)
  BY <1>1 DEF TypeOK, PCs, Waiting
<1>8. t \notin Members(wait_list) /\ front \subseteq Tasks
  BY <1>4, <1>7, OnTheLists
<1>9. act \in -1 .. Cardinality(Tasks) => TypeOK'
  BY <1>1, <1>3, <1>7 DEF TypeOK, TaskTypeOK
<1>10. HandoffSeen'
  BY <1>1, <1>6, <1>7 DEF HandoffSeen
<1>11. FramesAlive'
  <2> SUFFICES ASSUME NEW u \in Tasks, u \in Members(wait_list') \cup Members(todo')
               PROVE  Waiting(u)' /\ task'[u]
    BY DEF FramesAlive, Members
  <2>1. u \in Members(wait_list)
    BY <1>3, <1>4
  <2> QED BY <2>1, <1>1, <1>7, OnTheLists
<1>12. ListsExact'
  BY <1>1, <1>3, <1>6 DEF ListsExact
<1>13. OneWaker'
  <2>1. \A u \in Tasks : ~Waker(u)
    BY <1>6 DEF OneWaker
  <2>2. \A u \in Tasks : Waker(u)' => u = t /\ n # 0
    BY <1>7, <2>1 DEF Waker
  <2> QED BY <1>5, <2>2 DEF OneWaker
<1>14. \A u \in Tasks : Granted(u)' <=> Granted(u) \/ u \in front
  BY <1>3, <1>4, <1>7, OnTheLists DEF Granted
<1>15. front \cap (Readers \cup Writers) = {}
  BY <1>4, OnTheLists DEF Readers, Writers, Granted, Waiting
<1>16. Readers' = (Readers \ {t}) \cup {u \in front : flags[u] = "read"}
                     \cup (IF new = "read" THEN {t} ELSE {})
  <2> DEFINE R == (Readers \ {t}) \cup {u \in front : flags[u] = "read"}
                     \cup (IF new = "read" THEN {t} ELSE {})
  <2>1. \A u \in Tasks \ {t} : u \in Readers' <=> u \in R
    BY <1>1, <1>7, <1>8, <1>14, <1>4, OnTheLists DEF Readers, Waiting
  <2>2. t \in Readers' <=> t \in R
    BY <1>7, <1>8, <1>4 DEF Readers, Granted
  <2>3. Readers' \subseteq Tasks /\ R \subseteq Tasks
    BY <1>8 DEF Readers
  <2> HIDE DEF R
  <2>4. \A u : u \in Readers' <=> u \in R
    BY <2>1, <2>2, <2>3
  <2>5. Readers' = R
    BY <2>4, Zenon
  <2> QED BY <2>5 DEF R
<1>17. Writers' = (Writers \ {t}) \cup {u \in front : flags[u] = "write"}
  <2> DEFINE R == (Writers \ {t}) \cup {u \in front : flags[u] = "write"}
  <2>1. \A u \in Tasks \ {t} : u \in Writers' <=> u \in R
    BY <1>1, <1>7, <1>8, <1>14, <1>4, OnTheLists DEF Writers, Waiting
  <2>2. t \in Writers' <=> t \in R
    BY <1>7, <1>8, <1>4 DEF Writers, Granted
  <2>3. Writers' \subseteq Tasks /\ R \subseteq Tasks
    BY <1>8 DEF Writers
  <2> HIDE DEF R
  <2>4. \A u : u \in Writers' <=> u \in R
    BY <2>1, <2>2, <2>3
  <2>5. Writers' = R
    BY <2>4, Zenon
  <2> QED BY <2>5 DEF R
<1>18. t \notin front
  BY <1>4, <1>8
<1> QED BY <1>1, <1>3, <1>8, <1>9, <1>10, <1>11, <1>12, <1>13, <1>15, <1>16,
           <1>17, <1>18 DEF front

\* The last reader hands the semaphore to the writer at the head of the list.
LEMMA UpReadStep ==
    ASSUME IInv, NEW t \in Tasks, up_read(t)
    PROVE  /\ IInv' /\ flags' = flags /\ t \in Readers /\ Writers = {}
           /\ \/ /\ Readers = {t} /\ wait_list # <<>>
                 /\ flags[wait_list[1]] = "write"
                 /\ Readers' = {} /\ Writers' = {wait_list[1]}
                 /\ wait_list' = SubSeq(wait_list, 2, Len(wait_list))
              \/ /\ wait_list' = wait_list
                 /\ Readers' = Readers \ {t} /\ Writers' = {}
<1> USE DEF IInv, Consistent
<1>1. pc[t] = "read" /\ wait_lock_free /\ t \in Readers
  BY DEF up_read, Readers
<1>2. /\ wait_list \in Seq(Tasks) /\ NoDup(wait_list)
      /\ flags \in [Tasks -> {"read", "write"}]
  BY DEF TypeOK, ListsExact
<1>3. /\ Writers = {} /\ activity = Cardinality(Readers)
      /\ activity \in Int /\ activity > 0
      /\ Readers \subseteq Tasks
  BY <1>1, OwnersByActivity, OwnersAreTasks
<1>4. Cardinality(Tasks) \in Nat
  BY FS_CardinalityType, RwSemAssumption
<1>5. CASE activity - 1 = 0 /\ wait_list # <<>>
  <2>1. wake_first(t, 1, -1, "wake_up", "idle") /\ 1 \in 0..Len(wait_list)
    BY <1>5, <1>2 DEF up_read
  <2>2. Readers = {t}
    <3>1. \E x : Readers = {x}
      <4>1. Cardinality(Readers) = 1
        BY <1>5, <1>3
      <4> QED BY <4>1, <1>3, TaskSets
    <3> QED BY <3>1, <1>1
  <2>3. flags[wait_list[1]] = "write"
    BY <1>5, <1>2, <1>3 DEF HeadMustWait
  <2>4. {wait_list[i] : i \in 1..1} = {wait_list[1]}
    OBVIOUS
  <2>5. -1 \in -1 .. Cardinality(Tasks)
    BY <1>4
  <2>6. /\ TypeOK' /\ HandoffSeen' /\ FramesAlive' /\ ListsExact' /\ OneWaker'
        /\ activity' = -1 /\ flags' = flags
        /\ Readers' = (Readers \ {t}) \cup {u \in {wait_list[1]} : flags[u] = "read"}
        /\ Writers' = (Writers \ {t}) \cup {u \in {wait_list[1]} : flags[u] = "write"}
    BY <1>1, <2>1, <2>4, <2>5, WakeFirstStep
  <2>7. Readers' = {} /\ Writers' = {wait_list[1]}
    BY <2>2, <2>3, <2>6, <1>3
  <2>8. ActivityExact'
    BY <2>6, <2>7, FS_Singleton DEF ActivityExact
  <2>9. HeadMustWait'
    BY <2>6 DEF HeadMustWait
  <2>10. wait_list' = SubSeq(wait_list, 2, Len(wait_list))
    BY <2>1 DEF wake_first
  <2> QED BY <1>1, <1>3, <1>5, <2>2, <2>3, <2>6, <2>7, <2>8, <2>9, <2>10
<1>6. CASE ~(activity - 1 = 0 /\ wait_list # <<>>)
  <2>1. wake_first(t, 0, activity - 1, "wake_up", "idle") /\ 0 \in 0..Len(wait_list)
    BY <1>6, <1>2 DEF up_read
  <2>2. {wait_list[i] : i \in 1..0} = {}
    OBVIOUS
  <2>3. activity - 1 \in -1 .. Cardinality(Tasks)
    BY <1>3, <1>4 DEF TypeOK
  <2>4. /\ TypeOK' /\ HandoffSeen' /\ FramesAlive' /\ ListsExact' /\ OneWaker'
        /\ activity' = activity - 1 /\ flags' = flags
        /\ Readers' = (Readers \ {t}) \cup {u \in {} : flags[u] = "read"}
        /\ Writers' = (Writers \ {t}) \cup {u \in {} : flags[u] = "write"}
    BY <1>1, <2>1, <2>2, <2>3, WakeFirstStep
  <2>5. Readers' = Readers \ {t} /\ Writers' = {}
    BY <2>4, <1>3
  <2>6. ActivityExact'
    <3>1. Cardinality(Readers') = Cardinality(Readers) - 1
      BY <2>5, <1>1, <1>3, TaskSets
    <3> QED BY <3>1, <2>4, <2>5, <1>3 DEF ActivityExact
  <2>7. wait_list' = wait_list
    BY <2>1, <1>2, SplitProperties DEF wake_first
  <2>8. HeadMustWait'
    BY <2>4, <2>7, <1>3, <1>6 DEF HeadMustWait
  <2> QED BY <1>1, <1>3, <2>4, <2>5, <2>6, <2>7, <2>8
<1> QED BY <1>5, <1>6

\* The owners after the n readers in front of the first writer were admitted
\* beside the readers in rs: the caller, or nobody.
LEMMA AdmitReaders ==
    ASSUME IInv, NEW t \in Tasks, pc[t] = "write", wait_lock_free,
           NEW via, NEW new,
           \/ via = "wake_up" /\ new = "idle"
           \/ via = "wake_downgrade" /\ new = "read",
           new = "read" \/ ~(wait_list # <<>> /\ flags[Head(wait_list)] = "write"),
           NEW rs, rs = IF new = "read" THEN {t} ELSE {},
           wake_first(t, FrontReaders, Cardinality(rs) + FrontReaders, via, new)
    PROVE  /\ IInv' /\ flags' = flags
           /\ Readers = {} /\ Writers = {t}
           /\ Readers' = rs \cup {wait_list[i] : i \in 1..FrontReaders}
           /\ Writers' = {}
           /\ wait_list' = SubSeq(wait_list, FrontReaders + 1, Len(wait_list))
<1> USE DEF IInv, Consistent
<1> DEFINE n == FrontReaders
           front == {wait_list[i] : i \in 1..n}
           act == Cardinality(rs) + n
<1>1. /\ n \in 0..Len(wait_list)
      /\ \A i \in 1..n : flags[wait_list[i]] = "read"
      /\ n < Len(wait_list) => flags[wait_list[n + 1]] = "write"
  BY FrontReadersProperties
<1>2. /\ wait_list \in Seq(Tasks) /\ NoDup(wait_list)
      /\ flags \in [Tasks -> {"read", "write"}]
  BY DEF TypeOK, ListsExact
<1>3. Readers = {} /\ Writers = {t}
  <2>1. t \in Writers
    BY DEF Writers
  <2> QED BY <2>1, OwnersByActivity
<1>4. IsFiniteSet(front) /\ Cardinality(front) = n
  BY <1>1, <1>2, PrefixCardinality
<1>5. wake_first(t, n, act, via, new)
  OBVIOUS
<1>6. wait_list' = SubSeq(wait_list, n + 1, Len(wait_list))
  BY <1>5 DEF wake_first
<1>7. \A u \in front : flags[u] = "read"
  BY <1>1
<1>8. n \in Nat
  BY <1>1
<1> HIDE DEF n
<1>9. /\ act \in -1 .. Cardinality(Tasks) => TypeOK'
      /\ HandoffSeen' /\ FramesAlive' /\ ListsExact' /\ OneWaker'
      /\ activity' = act /\ flags' = flags
      /\ front \subseteq Tasks /\ t \notin front
      /\ Readers' = (Readers \ {t}) \cup {u \in front : flags[u] = "read"}
                       \cup (IF new = "read" THEN {t} ELSE {})
      /\ Writers' = (Writers \ {t}) \cup {u \in front : flags[u] = "write"}
  <2> HIDE DEF act
  <2> QED BY <1>1, <1>5, WakeFirstStep
<1>10. Readers' = rs \cup front /\ Writers' = {}
  <2> HIDE DEF front
  <2> QED BY <1>3, <1>7, <1>9
<1>11. Cardinality(Readers') = act /\ Readers' \subseteq Tasks
  <2> HIDE DEF front
  <2>1. CASE new = "read"
    <3>1. Cardinality(front \cup {t}) = Cardinality(front) + 1
      BY <1>9, TaskSets
    <3>2. Cardinality(rs) = 1
      BY <2>1, FS_Singleton
    <3>3. Readers' = front \cup {t}
      BY <2>1, <1>10
    <3>4. Cardinality(Readers') = Cardinality(front \cup {t})
      BY <3>3, Zenon
    <3>5. Cardinality(front \cup {t}) = act
      BY <1>4, <1>8, <3>1, <3>2
    <3> QED BY <1>9, <3>3, <3>4, <3>5
  <2>2. CASE new # "read"
    <3>1. rs = {} /\ Readers' = front
      BY <2>2, <1>10
    <3>2. Cardinality(rs) = 0
      BY <3>1, FS_EmptySet
    <3>3. Cardinality(front) = act
      BY <1>4, <1>8, <3>2
    <3> QED BY <1>9, <3>1, <3>3
  <2> QED BY <2>1, <2>2
<1> HIDE DEF act, front
<1>12. act \in Nat /\ act \in -1 .. Cardinality(Tasks)
  <2>1. act \in 0 .. Cardinality(Tasks)
    BY <1>11, TaskSets
  <2> QED BY <2>1
<1>13. ActivityExact'
  BY <1>9, <1>10, <1>11 DEF ActivityExact
<1>14. HeadMustWait'
  <2> SUFFICES ASSUME wait_list' # <<>>
               PROVE  act > 0 /\ flags[Head(wait_list')] = "write"
    BY <1>9 DEF HeadMustWait
  <2>1. /\ n < Len(wait_list)
        /\ Head(wait_list') = wait_list[n + 1]
    <3> DEFINE b == SubSeq(wait_list, n + 1, Len(wait_list))
    <3>1. b \in Seq(Tasks) /\ Len(b) = Len(wait_list) - n
          /\ \A i \in 1..Len(b) : b[i] = wait_list[n + i]
      BY <1>1, <1>2, SplitProperties
    <3>2. b # <<>> /\ Head(wait_list') = Head(b)
      BY <1>6
    <3> HIDE DEF b
    <3>3. Head(b) = b[1] /\ Len(b) \in Nat \ {0}
      BY <3>1, <3>2
    <3> QED BY <3>1, <3>2, <3>3, <1>1, <1>8
  <2>2. flags[Head(wait_list')] = "write"
    BY <2>1, <1>1
  <2>3. CASE new = "read"
    <3>1. Cardinality(rs) = 1
      BY <2>3, FS_Singleton
    <3> QED BY <3>1, <2>2, <1>8 DEF act
  <2>4. CASE new # "read"
    <3>1. n # 0
      BY <2>4, <2>1, <1>1, <1>2
    <3>2. Cardinality(rs) = 0
      BY <2>4, FS_EmptySet
    <3> QED BY <3>1, <3>2, <2>2, <1>8 DEF act
  <2> QED BY <2>3, <2>4
<1> QED BY <1>3, <1>6, <1>9, <1>10, <1>12, <1>13, <1>14 DEF n, front

\* A writer hands the semaphore to the writer behind it, if that is first.
LEMMA HandToWriter ==
    ASSUME IInv, NEW t \in Tasks, pc[t] = "write", wait_lock_free,
           wait_list # <<>>, flags[Head(wait_list)] = "write",
           wake_first(t, 1, -1, "wake_up", "idle")
    PROVE  /\ IInv' /\ flags' = flags
           /\ Readers = {} /\ Writers = {t}
           /\ Readers' = {} /\ Writers' = {wait_list[1]}
           /\ wait_list' = SubSeq(wait_list, 2, Len(wait_list))
<1> USE DEF IInv, Consistent
<1>1. /\ wait_list \in Seq(Tasks) /\ NoDup(wait_list)
      /\ 1 \in 0..Len(wait_list) /\ flags[wait_list[1]] = "write"
  BY DEF TypeOK, ListsExact
<1>2. Readers = {} /\ Writers = {t}
  <2>1. t \in Writers
    BY DEF Writers
  <2> QED BY <2>1, OwnersByActivity
<1>3. {wait_list[i] : i \in 1..1} = {wait_list[1]}
  OBVIOUS
<1>4. -1 \in -1 .. Cardinality(Tasks)
  BY FS_CardinalityType, RwSemAssumption
<1>5. /\ TypeOK' /\ HandoffSeen' /\ FramesAlive' /\ ListsExact' /\ OneWaker'
      /\ activity' = -1 /\ flags' = flags
      /\ Readers' = (Readers \ {t}) \cup {u \in {wait_list[1]} : flags[u] = "read"}
      /\ Writers' = (Writers \ {t}) \cup {u \in {wait_list[1]} : flags[u] = "write"}
  BY <1>1, <1>3, <1>4, WakeFirstStep
<1>6. Readers' = {} /\ Writers' = {wait_list[1]}
  BY <1>1, <1>2, <1>5
<1>7. ActivityExact'
  BY <1>5, <1>6, FS_Singleton DEF ActivityExact
<1>8. HeadMustWait'
  BY <1>5 DEF HeadMustWait
<1>9. wait_list' = SubSeq(wait_list, 2, Len(wait_list))
  BY DEF wake_first
<1> QED BY <1>2, <1>5, <1>6, <1>7, <1>8, <1>9

------------------------------------------------------------------------------
(* The abstract lock. *)

\* The queue of the abstract lock is the wait list with the waiters' flags.
LEMMA RequestsProperties ==
    ASSUME NEW q \in Seq(Tasks), NEW f \in [Tasks -> Kinds]
    PROVE  /\ Requests(q, f) \in Seq(Tasks \X Kinds)
           /\ Len(Requests(q, f)) = Len(q)
           /\ \A i \in 1..Len(q) : /\ Requests(q, f)[i] = <<q[i], f[q[i]]>>
                                   /\ Requests(q, f)[i][1] = q[i]
                                   /\ Requests(q, f)[i][2] = f[q[i]]
<1>1. \A i \in 1..Len(q) : q[i] \in Tasks /\ f[q[i]] \in Kinds
  OBVIOUS
<1>2. Len(q) \in Nat
  OBVIOUS
<1> DEFINE e(i) == <<q[i], f[q[i]]>>
<1>3. \A i \in 1..Len(q) : e(i) \in Tasks \X Kinds /\ e(i)[1] = q[i] /\ e(i)[2] = f[q[i]]
  BY <1>1
<1>4. Requests(q, f) = [i \in 1..Len(q) |-> e(i)]
  BY DEF Requests
<1> HIDE DEF e
<1>5. Requests(q, f) \in Seq(Tasks \X Kinds) /\ Len(Requests(q, f)) = Len(q)
  BY <1>2, <1>3, <1>4
<1>6. \A i \in 1..Len(q) : Requests(q, f)[i] = e(i)
  BY <1>4
<1> QED BY <1>3, <1>5, <1>6 DEF e

\* Waiters taken off the front are requests taken off the front.
LEMMA RequestsBack ==
    ASSUME NEW q \in Seq(Tasks), NEW f \in [Tasks -> Kinds], NEW n \in 0..Len(q)
    PROVE  Requests(SubSeq(q, n + 1, Len(q)), f)
              = SubSeq(Requests(q, f), n + 1, Len(q))
<1> DEFINE r == Requests(q, f)
           b == SubSeq(q, n + 1, Len(q))
           c == SubSeq(r, n + 1, Len(q))
<1>1. /\ r \in Seq(Tasks \X Kinds) /\ Len(r) = Len(q)
      /\ \A i \in 1..Len(q) : r[i] = <<q[i], f[q[i]]>>
  BY RequestsProperties
<1> HIDE DEF r
<1>2. /\ b \in Seq(Tasks) /\ Len(b) = Len(q) - n
      /\ \A i \in 1..Len(b) : b[i] = q[n + i]
  OBVIOUS
<1>3. /\ c \in Seq(Tasks \X Kinds) /\ Len(c) = Len(q) - n
      /\ \A i \in 1..Len(c) : c[i] = r[n + i]
  BY <1>1
<1> HIDE DEF b, c
<1>4. /\ Requests(b, f) \in Seq(Tasks \X Kinds) /\ Len(Requests(b, f)) = Len(b)
      /\ \A i \in 1..Len(b) : Requests(b, f)[i] = <<b[i], f[b[i]]>>
  BY <1>2, RequestsProperties
<1>5. \A i \in 1..Len(b) : n + i \in 1..Len(q)
  BY <1>2
<1>6. \A i \in 1..Len(b) : Requests(b, f)[i] = c[i]
  BY <1>1, <1>2, <1>3, <1>4, <1>5
<1>7. Requests(b, f) = c
  BY <1>2, <1>3, <1>4, <1>6, SeqEqual
<1> QED BY <1>7 DEF b, c, r

\* A waiter that queues up is a request at the end of the queue.
LEMMA RequestsAppend ==
    ASSUME NEW q \in Seq(Tasks), NEW f \in [Tasks -> Kinds], NEW t \in Tasks,
           NEW kind \in Kinds, t \notin Members(q),
           NEW g \in [Tasks -> Kinds], g[t] = kind,
           \A u \in Tasks \ {t} : g[u] = f[u]
    PROVE  Requests(list_add_tail(q, t), g) = Append(Requests(q, f), <<t, kind>>)
<1> DEFINE a == Append(q, t)
           r == Requests(q, f)
           c == Append(r, <<t, kind>>)
<1>1. /\ r \in Seq(Tasks \X Kinds) /\ Len(r) = Len(q)
      /\ \A i \in 1..Len(q) : r[i] = <<q[i], f[q[i]]>>
  BY RequestsProperties
<1> HIDE DEF r
<1>2. /\ a \in Seq(Tasks) /\ Len(a) = Len(q) + 1 /\ Len(q) \in Nat
      /\ \A i \in 1..Len(q) : a[i] = q[i]
      /\ a[Len(q) + 1] = t
  OBVIOUS
<1>3. /\ g \in [Tasks -> Kinds] /\ g[t] = kind
      /\ \A i \in 1..Len(q) : g[q[i]] = f[q[i]]
  BY DEF Members
<1>4. /\ c \in Seq(Tasks \X Kinds) /\ Len(c) = Len(q) + 1
      /\ \A i \in 1..Len(q) : c[i] = r[i]
      /\ c[Len(q) + 1] = <<t, kind>>
  BY <1>1
<1> HIDE DEF a, c
<1>5. /\ Requests(a, g) \in Seq(Tasks \X Kinds) /\ Len(Requests(a, g)) = Len(a)
      /\ \A i \in 1..Len(a) : Requests(a, g)[i] = <<a[i], g[a[i]]>>
  BY <1>2, <1>3, RequestsProperties
<1>6. \A i \in 1..Len(a) : i \in 1..Len(q) \/ i = Len(q) + 1
  BY <1>2
<1>7. ASSUME NEW i \in 1..Len(a)
      PROVE  Requests(a, g)[i] = c[i]
  <2>1. Requests(a, g)[i] = <<a[i], g[a[i]]>>
    BY <1>5
  <2>2. CASE i \in 1..Len(q)
    <3>1. a[i] = q[i] /\ g[q[i]] = f[q[i]]
      BY <2>2, <1>2, <1>3
    <3>2. c[i] = <<q[i], f[q[i]]>>
      BY <2>2, <1>1, <1>4
    <3> QED BY <2>1, <3>1, <3>2, Zenon
  <2>3. CASE i = Len(q) + 1
    BY <2>1, <2>3, <1>2, <1>4, Zenon
  <2> QED BY <2>2, <2>3, <1>6
<1>8. Requests(a, g) = c
  BY <1>2, <1>4, <1>5, <1>7, SeqEqual
<1> QED BY <1>8 DEF a, c, r, list_add_tail

\* There is one number of readers in front of the first writer.
LEMMA ReadPrefixUnique ==
    ASSUME NEW q \in Seq(Tasks \X Kinds), NEW n \in 0..Len(q),
           \A i \in 1..n : q[i][2] = "read",
           n < Len(q) => q[n + 1][2] = "write"
    PROVE  Fifo!ReadPrefix(q) = n
<1> DEFINE P(k) == /\ \A i \in 1..k : q[i][2] = "read"
                   /\ k < Len(q) => q[k + 1][2] = "write"
<1>1. Fifo!ReadPrefix(q) = CHOOSE k \in 0..Len(q) : P(k)
  BY DEF Fifo!ReadPrefix
<1>2. P(n)
  OBVIOUS
<1>3. ASSUME NEW k \in 0..Len(q), P(k)
      PROVE  k = n
  <2>1. Len(q) \in Nat
    OBVIOUS
  <2>2. CASE k < n
    <3>1. k + 1 \in 1..n /\ k < Len(q)
      BY <2>1, <2>2
    <3> QED BY <3>1, <1>3
  <2>3. CASE n < k
    <3>1. n + 1 \in 1..k /\ n < Len(q)
      BY <2>1, <2>3
    <3> QED BY <3>1, <1>3
  <2> QED BY <2>1, <2>2, <2>3
<1> HIDE DEF P
<1> QED BY <1>1, <1>2, <1>3

\* Settle of the abstract lock, with the state it leads to as arguments.
Settled(rs, ws, q, rs2, ws2, q2) ==
    IF ws = {} /\ rs = {} /\ q # <<>> /\ Head(q)[2] = "write"
    THEN rs2 = {} /\ ws2 = {Head(q)[1]} /\ q2 = Tail(q)
    ELSE LET n == IF ws = {} THEN Fifo!ReadPrefix(q) ELSE 0
         IN  /\ rs2 = rs \cup {q[i][1] : i \in 1..n}
             /\ ws2 = ws
             /\ q2 = SubSeq(q, n + 1, Len(q))

\* The actions of the abstract lock in these terms.
LEMMA FifoActions ==
    ASSUME NEW t \in Tasks, NEW kind \in Kinds
    PROVE  /\ /\ t \notin Readers /\ t \notin Writers
              /\ \A i \in 1..Len(Queue) : Queue[i][1] # t
              /\ Settled(Readers, Writers, Append(Queue, <<t, kind>>),
                         Readers', Writers', Queue')
              => Fifo!Request(t, kind)
           /\ /\ t \in Readers \/ t \in Writers
              /\ Settled(Readers \ {t}, Writers \ {t}, Queue,
                         Readers', Writers', Queue')
              => Fifo!Release(t)
           /\ /\ t \in Writers
              /\ Settled({t}, {}, Queue, Readers', Writers', Queue')
              => Fifo!Downgrade(t)
BY DEF Fifo!Request, Fifo!Release, Fifo!Downgrade, Fifo!Inside, Fifo!Settle,
       Settled, Queue, Requests

\* Nothing more can be admitted.
LEMMA SettleNone ==
    ASSUME NEW rs, NEW ws, NEW q \in Seq(Tasks \X Kinds),
           \/ ws # {}
           \/ q = <<>>
           \/ rs # {} /\ q[1][2] = "write"
    PROVE  Settled(rs, ws, q, rs, ws, q)
<1>1. (IF ws = {} THEN Fifo!ReadPrefix(q) ELSE 0) = 0
  <2>1. CASE ws # {}
    BY <2>1
  <2>2. CASE q = <<>> \/ q[1][2] = "write"
    <3>1. 0 \in 0..Len(q) /\ (0 < Len(q) => q[0 + 1][2] = "write")
      BY <2>2
    <3>2. Fifo!ReadPrefix(q) = 0
      BY <3>1, ReadPrefixUnique
    <3> QED BY <3>2
  <2> QED BY <2>1, <2>2
<1>2. ~(ws = {} /\ rs = {} /\ q # <<>> /\ Head(q)[2] = "write")
  OBVIOUS
<1>3. SubSeq(q, 0 + 1, Len(q)) = q
  BY SubSeqFull
<1>4. rs \cup {q[i][1] : i \in 1..0} = rs
  OBVIOUS
<1> QED BY <1>1, <1>2, <1>3, <1>4 DEF Settled

\* The writer at the head of the queue is admitted.
LEMMA SettleWriter ==
    ASSUME NEW q \in Seq(Tasks \X Kinds), q # <<>>, q[1][2] = "write"
    PROVE  Settled({}, {}, q, {}, {q[1][1]}, SubSeq(q, 2, Len(q)))
<1>1. Head(q) = q[1] /\ Tail(q) = SubSeq(q, 2, Len(q))
  BY TailIsSubSeq
<1> QED BY <1>1 DEF Settled

\* The readers in front of the first writer are admitted.
LEMMA SettleReaders ==
    ASSUME NEW rs, NEW q \in Seq(Tasks \X Kinds), NEW n \in 0..Len(q),
           rs # {} \/ ~(q # <<>> /\ q[1][2] = "write"),
           \A i \in 1..n : q[i][2] = "read",
           n < Len(q) => q[n + 1][2] = "write"
    PROVE  Settled(rs, {}, q, rs \cup {q[i][1] : i \in 1..n}, {},
                   SubSeq(q, n + 1, Len(q)))
<1>1. Fifo!ReadPrefix(q) = n
  BY ReadPrefixUnique
<1>2. ~({} = {} /\ rs = {} /\ q # <<>> /\ Head(q)[2] = "write")
  OBVIOUS
<1> QED BY <1>1, <1>2 DEF Settled

\* An uncontended down is a request that is admitted at once.
LEMMA GrantIsRequest ==
    ASSUME IInv, NEW t \in Tasks, NEW kind \in Kinds, pc[t] = "idle",
           IF kind = "read" THEN CanRead ELSE CanWrite,
           grant(t, kind)
    PROVE  Fifo!Request(t, kind)
<1> DEFINE q == <<<<t, kind>>>>
<1>1. /\ Readers' = IF kind = "read" THEN Readers \cup {t} ELSE Readers
      /\ Writers' = IF kind = "write" THEN Writers \cup {t} ELSE Writers
      /\ t \notin Readers /\ t \notin Writers
  BY GrantStep
<1>2. wait_list = <<>> /\ wait_list' = <<>>
  BY DEF CanRead, CanWrite, grant
<1>3. Queue = <<>> /\ Queue' = <<>>
  <2>1. \A f : Requests(<<>>, f) = <<>>
    BY DEF Requests
  <2> QED BY <1>2, <2>1 DEF Queue
<1>4. Append(Queue, <<t, kind>>) = q /\ \A i \in 1..Len(Queue) : Queue[i][1] # t
  BY <1>3
<1>5. /\ q \in Seq(Tasks \X Kinds) /\ q # <<>> /\ Len(q) = 1 /\ 1 \in 0..Len(q)
      /\ q[1][1] = t /\ q[1][2] = kind
      /\ SubSeq(q, 2, Len(q)) = <<>> /\ SubSeq(q, 1 + 1, Len(q)) = <<>>
  OBVIOUS
<1> HIDE DEF q
<1>6. Settled(Readers, Writers, q, Readers', Writers', <<>>)
  <2>1. CASE kind = "read"
    <3>1. Writers = {} /\ Writers' = {}
      BY <2>1, <1>1, OwnersByActivity DEF CanRead
    <3>2. Readers' = Readers \cup {q[i][1] : i \in 1..1}
      BY <2>1, <1>1, <1>5
    <3>3. \A i \in 1..1 : q[i][2] = "read"
      BY <2>1, <1>5
    <3>4. ~(q # <<>> /\ q[1][2] = "write") /\ ~(1 < Len(q))
      BY <2>1, <1>5
    <3>5. Settled(Readers, {}, q, Readers \cup {q[i][1] : i \in 1..1}, {},
                  SubSeq(q, 1 + 1, Len(q)))
      BY <1>5, <3>3, <3>4, SettleReaders
    <3> QED BY <1>5, <3>1, <3>2, <3>5
  <2>2. CASE kind = "write"
    <3>1. Readers = {} /\ Writers = {}
      BY <2>2, OwnersByActivity DEF CanWrite
    <3>2. Readers' = {} /\ Writers' = {q[1][1]}
      BY <2>2, <3>1, <1>1, <1>5
    <3>3. Settled({}, {}, q, {}, {q[1][1]}, SubSeq(q, 2, Len(q)))
      BY <2>2, <1>5, SettleWriter
    <3> QED BY <1>5, <3>1, <3>2, <3>3
  <2> QED BY <2>1, <2>2 DEF Kinds
<1> QED BY <1>1, <1>3, <1>4, <1>6, FifoActions

\* A contended down is a request that stays in the queue.
LEMMA EnqueueIsRequest ==
    ASSUME IInv, NEW t \in Tasks, NEW kind \in Kinds, pc[t] = "idle",
           wait_lock_free,
           IF kind = "read" THEN ~CanRead ELSE ~CanWrite,
           enqueue(t, kind)
    PROVE  Fifo!Request(t, kind)
<1>1. /\ IInv'
      /\ Readers' = Readers /\ Writers' = Writers
      /\ t \notin Readers /\ t \notin Writers /\ t \notin Members(wait_list)
  BY EnqueueStep
<1>2. wait_list \in Seq(Tasks) /\ flags \in [Tasks -> Kinds]
  BY DEF IInv, Consistent, TypeOK, Kinds
<1>3. wait_list' \in Seq(Tasks) /\ flags' \in [Tasks -> Kinds]
  BY <1>1 DEF IInv, Consistent, TypeOK, Kinds
<1>4. Queue' = Append(Queue, <<t, kind>>)
  <2>1. Queue' = Requests(list_add_tail(wait_list, t), flags')
    BY DEF enqueue, Queue
  <2>2. /\ flags' \in [Tasks -> Kinds] /\ flags'[t] = kind
        /\ \A u \in Tasks \ {t} : flags'[u] = flags[u]
    BY <1>2, <1>3 DEF enqueue
  <2>3. Requests(list_add_tail(wait_list, t), flags')
           = Append(Requests(wait_list, flags), <<t, kind>>)
    BY <1>1, <1>2, <2>2, RequestsAppend
  <2> QED BY <2>1, <2>3 DEF Queue
<1>5. /\ Len(Queue) = Len(wait_list)
      /\ \A i \in 1..Len(wait_list) : Queue[i][1] = wait_list[i]
  BY <1>2, RequestsProperties DEF Queue
<1>6. /\ Queue' \in Seq(Tasks \X Kinds) /\ Len(Queue') = Len(wait_list')
      /\ \A i \in 1..Len(wait_list') : Queue'[i][2] = flags'[wait_list'[i]]
  BY <1>3, RequestsProperties DEF Queue
<1>7. \A i \in 1..Len(Queue) : Queue[i][1] # t
  BY <1>1, <1>5 DEF Members
<1>8. wait_list' # <<>>
  BY <1>2 DEF enqueue, list_add_tail
<1>9. \/ Writers # {}
      \/ Readers # {} /\ Queue'[1][2] = "write"
  <2>1. CASE activity = -1
    BY <2>1, OwnersByActivity
  <2>2. CASE activity # -1
    <3>1. activity' = activity
      BY DEF enqueue
    <3>2. activity > 0 /\ flags'[Head(wait_list')] = "write"
      BY <2>2, <3>1, <1>1, <1>8 DEF IInv, Consistent, HeadMustWait
    <3>3. Head(wait_list') = wait_list'[1] /\ 1 \in 1..Len(wait_list')
      BY <1>3, <1>8
    <3> QED BY <3>2, <3>3, <1>6, OwnersByActivity
  <2> QED BY <2>1, <2>2
<1>10. Settled(Readers, Writers, Queue', Readers, Writers, Queue')
  BY <1>6, <1>9, SettleNone
<1>11. Settled(Readers, Writers, Append(Queue, <<t, kind>>),
               Readers', Writers', Queue')
  BY <1>1, <1>4, <1>10
<1> QED BY <1>1, <1>7, <1>11, FifoActions

\* up_read() releases the abstract lock.
LEMMA UpReadIsRelease ==
    ASSUME IInv, NEW t \in Tasks, up_read(t)
    PROVE  Fifo!Release(t)
<1>1. /\ IInv' /\ flags' = flags /\ t \in Readers /\ Writers = {}
      /\ \/ /\ Readers = {t} /\ wait_list # <<>>
            /\ flags[wait_list[1]] = "write"
            /\ Readers' = {} /\ Writers' = {wait_list[1]}
            /\ wait_list' = SubSeq(wait_list, 2, Len(wait_list))
         \/ /\ wait_list' = wait_list
            /\ Readers' = Readers \ {t} /\ Writers' = {}
  BY UpReadStep
<1>2. wait_list \in Seq(Tasks) /\ flags \in [Tasks -> Kinds]
  BY DEF IInv, Consistent, TypeOK, Kinds
<1>3. /\ Queue \in Seq(Tasks \X Kinds) /\ Len(Queue) = Len(wait_list)
      /\ \A i \in 1..Len(wait_list) : /\ Queue[i][1] = wait_list[i]
                                      /\ Queue[i][2] = flags[wait_list[i]]
  BY <1>2, RequestsProperties DEF Queue
<1>4. Writers \ {t} = {}
  BY <1>1
<1>5. Settled(Readers \ {t}, {}, Queue, Readers', Writers', Queue')
  <2>1. CASE /\ Readers = {t} /\ wait_list # <<>>
             /\ flags[wait_list[1]] = "write"
             /\ Readers' = {} /\ Writers' = {wait_list[1]}
             /\ wait_list' = SubSeq(wait_list, 2, Len(wait_list))
    <3>1. Readers \ {t} = {}
      BY <2>1
    <3>2. 1 \in 0..Len(wait_list) /\ 1 \in 1..Len(wait_list) /\ Queue # <<>>
      BY <2>1, <1>2, <1>3
    <3>3. Queue' = SubSeq(Queue, 2, Len(Queue))
      <4>1. Queue' = Requests(SubSeq(wait_list, 1 + 1, Len(wait_list)), flags)
        BY <2>1, <1>1 DEF Queue
      <4>2. Queue' = SubSeq(Queue, 1 + 1, Len(wait_list))
        <5>1. Requests(SubSeq(wait_list, 1 + 1, Len(wait_list)), flags)
                 = SubSeq(Requests(wait_list, flags), 1 + 1, Len(wait_list))
          BY <3>2, <1>2, RequestsBack
        <5> QED BY <4>1, <5>1 DEF Queue
      <4> QED BY <4>2, <1>3
    <3>4. Queue[1][2] = "write" /\ Writers' = {Queue[1][1]}
      BY <2>1, <3>2, <1>3
    <3>5. Settled({}, {}, Queue, {}, {Queue[1][1]}, SubSeq(Queue, 2, Len(Queue)))
      BY <1>3, <3>2, <3>4, SettleWriter
    <3> QED BY <2>1, <3>1, <3>3, <3>4, <3>5
  <2>2. CASE /\ wait_list' = wait_list
             /\ Readers' = Readers \ {t} /\ Writers' = {}
    <3>1. Queue' = Queue
      BY <2>2, <1>1 DEF Queue
    <3>2. Queue = <<>> \/ (Readers \ {t} # {} /\ Queue[1][2] = "write")
      <4> SUFFICES ASSUME Queue # <<>>
                   PROVE  Readers \ {t} # {} /\ Queue[1][2] = "write"
        OBVIOUS
      <4>1. wait_list # <<>> /\ 1 \in 1..Len(wait_list)
        BY <1>2, <1>3
      <4>2. activity' = -1 \/ (activity' > 0 /\ flags[Head(wait_list)] = "write")
        BY <4>1, <2>2, <1>1 DEF IInv, Consistent, HeadMustWait
      <4>3. activity' # -1 /\ activity' = Cardinality(Readers')
        <5>1. Cardinality(Writers') # 1
          BY <2>2, FS_EmptySet
        <5>2. Readers' \subseteq Tasks
          BY DEF Readers
        <5>3. Cardinality(Readers') \in Nat
          BY <5>2, TaskSets
        <5> QED BY <5>1, <5>3, <1>1 DEF IInv, Consistent, ActivityExact
      <4>4. Cardinality(Readers') > 0
        BY <4>2, <4>3
      <4>5. Readers' # {}
        <5>1. ~(0 > 0)
          OBVIOUS
        <5> QED BY <4>4, <5>1, FS_EmptySet
      <4> QED BY <4>1, <4>2, <4>3, <4>5, <2>2, <1>2, <1>3
    <3>3. Settled(Readers \ {t}, {}, Queue, Readers \ {t}, {}, Queue)
      BY <1>3, <3>2, SettleNone
    <3> QED BY <2>2, <3>1, <3>3
  <2> QED BY <1>1, <2>1, <2>2
<1>6. Settled(Readers \ {t}, Writers \ {t}, Queue, Readers', Writers', Queue')
  BY <1>4, <1>5
<1>7. "read" \in Kinds
  BY DEF Kinds
<1> QED BY <1>1, <1>6, <1>7, FifoActions

\* A step that admits the readers in front settles the abstract lock.
LEMMA AdmitSettles ==
    ASSUME IInv, NEW t \in Tasks, NEW rs,
           flags' = flags, Writers' = {},
           rs # {} \/ ~(wait_list # <<>> /\ flags[Head(wait_list)] = "write"),
           Readers' = rs \cup {wait_list[i] : i \in 1..FrontReaders},
           wait_list' = SubSeq(wait_list, FrontReaders + 1, Len(wait_list))
    PROVE  Settled(rs, {}, Queue, Readers', Writers', Queue')
<1> DEFINE n == FrontReaders
<1>1. wait_list \in Seq(Tasks) /\ flags \in [Tasks -> Kinds]
  BY DEF IInv, Consistent, TypeOK, Kinds
<1>2. /\ n \in 0..Len(wait_list)
      /\ \A i \in 1..n : flags[wait_list[i]] = "read"
      /\ n < Len(wait_list) => flags[wait_list[n + 1]] = "write"
  BY FrontReadersProperties
<1> HIDE DEF n
<1>3. /\ Queue \in Seq(Tasks \X Kinds) /\ Len(Queue) = Len(wait_list)
      /\ \A i \in 1..Len(wait_list) : /\ Queue[i][1] = wait_list[i]
                                      /\ Queue[i][2] = flags[wait_list[i]]
  BY <1>1, RequestsProperties DEF Queue
<1>4. Queue' = SubSeq(Queue, n + 1, Len(Queue))
  <2>1. Queue' = Requests(SubSeq(wait_list, n + 1, Len(wait_list)), flags)
    BY DEF Queue, n
  <2>2. Requests(SubSeq(wait_list, n + 1, Len(wait_list)), flags)
           = SubSeq(Requests(wait_list, flags), n + 1, Len(wait_list))
    BY <1>1, <1>2, RequestsBack
  <2>3. Requests(wait_list, flags) = Queue
    BY DEF Queue
  <2> QED BY <2>1, <2>2, <2>3, <1>3
<1>5. 1..n \subseteq 1..Len(wait_list) /\ (n < Len(wait_list) => n + 1 \in 1..Len(wait_list))
  BY <1>1, <1>2
<1>6. {Queue[i][1] : i \in 1..n} = {wait_list[i] : i \in 1..n}
  BY <1>3, <1>5
<1>7. /\ \A i \in 1..n : Queue[i][2] = "read"
      /\ n < Len(Queue) => Queue[n + 1][2] = "write"
  BY <1>2, <1>3, <1>5
<1>8. rs # {} \/ ~(Queue # <<>> /\ Queue[1][2] = "write")
  <2>1. Queue # <<>> => wait_list # <<>> /\ 1 \in 1..Len(wait_list)
    BY <1>1, <1>3
  <2> QED BY <2>1, <1>1, <1>3
<1>9. Readers' = rs \cup {Queue[i][1] : i \in 1..n}
  BY <1>6 DEF n
<1>10. n \in 0..Len(Queue)
  BY <1>2, <1>3
<1>11. Settled(rs, {}, Queue, rs \cup {Queue[i][1] : i \in 1..n}, {},
               SubSeq(Queue, n + 1, Len(Queue)))
  BY <1>3, <1>7, <1>8, <1>10, SettleReaders
<1> QED BY <1>4, <1>9, <1>11

\* up_write() releases the abstract lock.
LEMMA UpWriteStep ==
    ASSUME IInv, NEW t \in Tasks, up_write(t)
    PROVE  IInv' /\ Fifo!Release(t)
<1>1. pc[t] = "write" /\ wait_lock_free /\ "read" \in Kinds
  BY DEF up_write, Kinds
<1>2. wait_list \in Seq(Tasks) /\ flags \in [Tasks -> Kinds]
  BY DEF IInv, Consistent, TypeOK, Kinds
<1>3. /\ Queue \in Seq(Tasks \X Kinds) /\ Len(Queue) = Len(wait_list)
      /\ \A i \in 1..Len(wait_list) : /\ Queue[i][1] = wait_list[i]
                                      /\ Queue[i][2] = flags[wait_list[i]]
  BY <1>2, RequestsProperties DEF Queue
<1>4. CASE wait_list # <<>> /\ flags[Head(wait_list)] = "write"
  <2>1. wake_first(t, 1, -1, "wake_up", "idle")
    BY <1>4 DEF up_write
  <2>2. /\ IInv' /\ flags' = flags
        /\ Readers = {} /\ Writers = {t}
        /\ Readers' = {} /\ Writers' = {wait_list[1]}
        /\ wait_list' = SubSeq(wait_list, 2, Len(wait_list))
    BY <1>1, <1>4, <2>1, HandToWriter
  <2>3. /\ 1 \in 0..Len(wait_list) /\ 1 \in 1..Len(wait_list) /\ Queue # <<>>
        /\ Head(wait_list) = wait_list[1]
    BY <1>2, <1>3, <1>4
  <2>4. Queue' = SubSeq(Queue, 2, Len(Queue))
    <3>1. Queue' = Requests(SubSeq(wait_list, 1 + 1, Len(wait_list)), flags)
      BY <2>2 DEF Queue
    <3>2. Requests(SubSeq(wait_list, 1 + 1, Len(wait_list)), flags)
             = SubSeq(Requests(wait_list, flags), 1 + 1, Len(wait_list))
      BY <2>3, <1>2, RequestsBack
    <3>3. Queue' = SubSeq(Queue, 1 + 1, Len(wait_list))
      BY <3>1, <3>2 DEF Queue
    <3> QED BY <3>3, <1>3
  <2>5. Queue[1][2] = "write" /\ Writers' = {Queue[1][1]}
    BY <1>3, <1>4, <2>2, <2>3
  <2>6. Settled({}, {}, Queue, {}, {Queue[1][1]}, SubSeq(Queue, 2, Len(Queue)))
    BY <1>3, <2>3, <2>5, SettleWriter
  <2>7. Readers \ {t} = {} /\ Writers \ {t} = {} /\ t \in Writers
    BY <2>2
  <2>8. Settled(Readers \ {t}, Writers \ {t}, Queue, Readers', Writers', Queue')
    BY <2>2, <2>4, <2>5, <2>6, <2>7
  <2> QED BY <1>1, <2>2, <2>7, <2>8, FifoActions
<1>5. CASE ~(wait_list # <<>> /\ flags[Head(wait_list)] = "write")
  <2>1. FrontReaders \in Nat /\ Cardinality({}) = 0
    BY FrontReadersProperties, FS_EmptySet
  <2>2. wake_first(t, FrontReaders, Cardinality({}) + FrontReaders, "wake_up", "idle")
    <3>1. wake_first(t, FrontReaders, FrontReaders, "wake_up", "idle")
      BY <1>5 DEF up_write
    <3>2. Cardinality({}) + FrontReaders = FrontReaders
      BY <2>1
    <3> QED BY <3>1, <3>2 DEF wake_first
  <2>3. /\ IInv' /\ flags' = flags
        /\ Readers = {} /\ Writers = {t}
        /\ Readers' = {} \cup {wait_list[i] : i \in 1..FrontReaders}
        /\ Writers' = {}
        /\ wait_list' = SubSeq(wait_list, FrontReaders + 1, Len(wait_list))
    BY <1>1, <1>5, <2>2, AdmitReaders
  <2>4. Settled({}, {}, Queue, Readers', Writers', Queue')
    BY <1>5, <2>3, AdmitSettles
  <2>5. Readers \ {t} = {} /\ Writers \ {t} = {} /\ t \in Writers
    BY <2>3
  <2>6. Settled(Readers \ {t}, Writers \ {t}, Queue, Readers', Writers', Queue')
    BY <2>4, <2>5
  <2> QED BY <1>1, <2>3, <2>5, <2>6, FifoActions
<1> QED BY <1>4, <1>5

\* downgrade_write() turns the writer into a reader of the abstract lock.
LEMMA DowngradeStep ==
    ASSUME IInv, NEW t \in Tasks, downgrade_write(t)
    PROVE  IInv' /\ Fifo!Downgrade(t)
<1>1. pc[t] = "write" /\ wait_lock_free /\ "read" \in Kinds
  BY DEF downgrade_write, Kinds
<1>2. Cardinality({t}) = 1
  BY FS_Singleton
<1>3. wake_first(t, FrontReaders, Cardinality({t}) + FrontReaders, "wake_downgrade", "read")
  BY <1>2 DEF downgrade_write
<1>4. /\ IInv' /\ flags' = flags
      /\ Readers = {} /\ Writers = {t}
      /\ Readers' = {t} \cup {wait_list[i] : i \in 1..FrontReaders}
      /\ Writers' = {}
      /\ wait_list' = SubSeq(wait_list, FrontReaders + 1, Len(wait_list))
  BY <1>1, <1>3, AdmitReaders
<1>5. Settled({t}, {}, Queue, Readers', Writers', Queue')
  <2>1. {t} # {}
    OBVIOUS
  <2> QED BY <2>1, <1>4, AdmitSettles
<1>6. t \in Writers
  BY <1>4
<1> QED BY <1>1, <1>4, <1>5, <1>6, FifoActions

------------------------------------------------------------------------------
\* Every step keeps the invariant and is a step of the abstract lock or none.
LEMMA NextIInv == IInv /\ [Next]_vars => IInv' /\ FifoStep
<1> SUFFICES ASSUME IInv, [Next]_vars PROVE IInv' /\ FifoStep
  OBVIOUS
<1>0. "read" \in Kinds /\ "write" \in Kinds
  BY DEF Kinds
<1>1. ASSUME NEW t \in Tasks, down_read(t) \/ down_read_trylock(t)
      PROVE  IInv' /\ FifoStep
  <2>1. pc[t] = "idle" /\ wait_lock_free
    BY <1>1 DEF down_read, down_read_trylock
  <2>2. CASE CanRead /\ grant(t, "read")
    <3>1. IInv' /\ Fifo!Request(t, "read")
      BY <1>0, <2>1, <2>2, GrantStep, GrantIsRequest
    <3> QED BY <3>1 DEF FifoStep, Fifo!Next
  <2>3. CASE ~CanRead /\ enqueue(t, "read")
    <3>1. IInv' /\ Fifo!Request(t, "read")
      BY <1>0, <2>1, <2>3, EnqueueStep, EnqueueIsRequest
    <3> QED BY <3>1 DEF FifoStep, Fifo!Next
  <2> QED BY <1>1, <2>2, <2>3 DEF down_read, down_read_trylock
<1>2. ASSUME NEW t \in Tasks, down_write(t) \/ down_write_trylock(t)
      PROVE  IInv' /\ FifoStep
  <2>1. pc[t] = "idle" /\ wait_lock_free /\ "write" # "read"
    BY <1>2 DEF down_write, down_write_trylock
  <2>2. CASE CanWrite /\ grant(t, "write")
    <3>1. IInv' /\ Fifo!Request(t, "write")
      BY <1>0, <2>1, <2>2, GrantStep, GrantIsRequest
    <3> QED BY <3>1 DEF FifoStep, Fifo!Next
  <2>3. CASE ~CanWrite /\ enqueue(t, "write")
    <3>1. IInv' /\ Fifo!Request(t, "write")
      BY <1>0, <2>1, <2>3, EnqueueStep, EnqueueIsRequest
    <3> QED BY <3>1 DEF FifoStep, Fifo!Next
  <2> QED BY <1>2, <2>2, <2>3 DEF down_write, down_write_trylock
<1>3. ASSUME NEW t \in Tasks, up_read(t) PROVE IInv' /\ FifoStep
  <2>1. IInv' /\ Fifo!Release(t)
    BY <1>3, UpReadStep, UpReadIsRelease
  <2> QED BY <2>1 DEF FifoStep, Fifo!Next
<1>4. ASSUME NEW t \in Tasks, up_write(t) PROVE IInv' /\ FifoStep
  <2>1. IInv' /\ Fifo!Release(t)
    BY <1>4, UpWriteStep
  <2> QED BY <2>1 DEF FifoStep, Fifo!Next
<1>5. ASSUME NEW t \in Tasks, downgrade_write(t) PROVE IInv' /\ FifoStep
  <2>1. IInv' /\ Fifo!Downgrade(t)
    BY <1>5, DowngradeStep
  <2> QED BY <2>1 DEF FifoStep, Fifo!Next
<1>6. ASSUME NEW t \in Tasks, KernelStep(t) \/ StrayWakeup(t)
      PROVE  IInv' /\ FifoStep
  <2>1. IInv' /\ Readers' = Readers /\ Writers' = Writers
    BY <1>6, LoopStep, ClearStep, WakeTaskStep DEF KernelStep
  <2>2. wait_list' = wait_list /\ flags' = flags
    BY <1>6 DEF KernelStep, wait_check, wait_schedule, wait_set_state, wake_clear,
                wake_task, StrayWakeup, rwVars
  <2> QED BY <2>1, <2>2 DEF FifoStep, Queue
<1>7. CASE UNCHANGED vars
  <2>1. UNCHANGED <<state, pending, activity, wait_list, flags, task, todo,
                    cleared, pc>>
    BY <1>7 DEF vars, taskVars, rwVars
  <2>2. Readers' = Readers /\ Writers' = Writers
    BY <2>1 DEF Readers, Writers, Granted, Waiting
  <2> QED BY <2>1, <2>2
          DEF IInv, Consistent, TypeOK, TaskTypeOK, ActivityExact, HeadMustWait,
              HandoffSeen, FramesAlive, Waiting, ListsExact, OneWaker, Waker,
              FifoStep, Queue
<1> QED BY <1>1, <1>2, <1>3, <1>4, <1>5, <1>6, <1>7 DEF Next

\* The invariant holds in every reachable state of the semaphore.
THEOREM RwSemInvariant == Spec => []IInv
<1>1. Init => IInv
  BY InitIInv
<1>2. IInv /\ [Next]_vars => IInv'
  BY NextIInv
<1> QED BY <1>1, <1>2, PTL DEF Spec

\* For any number of tasks sem->activity is exactly the number of readers, or
\* -1 with one writer, the tasks that were handed the semaphore while asleep
\* included; and the first waiter always has a reason to wait.
THEOREM RwSemConsistent == Spec => []Consistent
BY RwSemInvariant, PTL DEF IInv

\* A waiter whose waiter.task was cleared is never left asleep.
THEOREM RwSemHandoffSeen == Spec => []HandoffSeen
BY RwSemInvariant, PTL DEF IInv

\* The waker never touches the stack frame of a waiter that may have returned.
THEOREM RwSemFramesAlive == Spec => []FramesAlive
BY RwSemInvariant, PTL DEF IInv

\* lib/rwsem-spinlock.c implements the fair readers/writer lock: requests are
\* served in the order they came, with every reader in front admitted at once.
THEOREM RwSemIsFifo == Spec => FifoSpec
<1>1. Init => Fifo!Init
  BY InitIInv
<1>2. IInv /\ [Next]_vars => [Fifo!Next]_<<Readers, Writers, Queue>>
  BY NextIInv DEF FifoStep
<1> QED BY <1>1, <1>2, RwSemInvariant, PTL
        DEF Spec, FifoSpec, Fifo!Spec, Fifo!vars, Queue, Requests
==============================================================================
