--------------------------- MODULE SemaphoreProofs ---------------------------
(***************************************************************************)
(* Proofs about kernel/semaphore.c for any finite set of tasks, any        *)
(* initial count and any number of foreign ups.                            *)
(***************************************************************************)
EXTENDS Semaphore, KernelLemmas, FiniteSetTheorems

\* A task that does not wait has no live frame of __down_common.
FrameInv == \A t \in Tasks : ~Waiting(t) => waiter[t] = NoWaiter

\* PermitsConserved is not inductive by itself: that leaving on a timeout
\* costs no permit depends on who is queued, and that on the frames.
IInv == /\ TypeOK
        /\ FrameInv
        /\ QueueExact
        /\ GrantedIsAwake
        /\ PermitsConserved

------------------------------------------------------------------------------
\* A step of the abstract semaphore, or none.
FifoStep == Fifo!Next \/ UNCHANGED <<count, wait_list, Holders>>

USE DEF TASK_RUNNING, TASK_INTERRUPTIBLE, TASK_UNINTERRUPTIBLE, TASK_KILLABLE,
        TASK_ALL

\* The two specifications use the same list operations.
LEMMA SameLists ==
    ASSUME NEW q, NEW t
    PROVE  /\ Fifo!Members(q) = Members(q)
           /\ Fifo!list_add_tail(q, t) = list_add_tail(q, t)
           /\ Fifo!list_del(q, t) = list_del(q, t)
BY DEF Members, Fifo!Members, list_add_tail, Fifo!list_add_tail,
       list_del, Fifo!list_del

\* The tasks that hold or were granted a permit can be counted.
LEMMA HoldersFinite ==
    /\ IsFiniteSet(Holders)
    /\ Cardinality(Holders) \in Nat
<1>1. Holders \subseteq Tasks
  BY DEF Holders
<1> QED BY <1>1, FS_Subset, FS_CardinalityType, SemaphoreAssumption

\* One task more or less among the holders changes their number by one.
LEMMA HolderCount ==
    ASSUME NEW t \in Tasks
    PROVE  /\ t \notin Holders /\ Holders' = Holders \cup {t}
                => Cardinality(Holders') = Cardinality(Holders) + 1
           /\ t \in Holders /\ Holders' = Holders \ {t}
                => Cardinality(Holders') = Cardinality(Holders) - 1
BY HoldersFinite, FS_AddElement, FS_RemoveElement

------------------------------------------------------------------------------
\* sema_init() establishes the invariant.
LEMMA InitIInv == Init => IInv /\ Fifo!Init
<1> SUFFICES ASSUME Init PROVE IInv /\ Fifo!Init
  OBVIOUS
<1> USE DEF Init, TaskInit
<1>1. TypeOK
  BY SemaphoreAssumption
     DEF TypeOK, TaskTypeOK, SleepStates, Signals, Waiters, Waiter, NoWaiter, Timeouts
<1>2. FrameInv
  BY DEF FrameInv
<1>3. QueueExact
  BY DEF QueueExact, Waiting, Members, NoDup
<1>4. GrantedIsAwake
  BY DEF GrantedIsAwake, Granted, Waiting
<1>5. Holders = {}
  BY DEF Holders, Granted, Waiting
<1>6. PermitsConserved
  BY <1>5, FS_EmptySet, SemaphoreAssumption DEF PermitsConserved
<1> QED BY <1>1, <1>2, <1>3, <1>4, <1>5, <1>6 DEF IInv, Fifo!Init

\* Taking a free permit moves it from count to a holder.
LEMMA TakeCountStep ==
    ASSUME IInv, NEW t \in Tasks, pc[t] = "idle", take_count(t)
    PROVE  IInv' /\ FifoStep
<1> USE DEF IInv, take_count, taskVars
<1>1. TypeOK'
  BY DEF TypeOK, TaskTypeOK
<1>2. /\ pc' \in [Tasks -> {"idle", "sched", "relock", "held"}]
      /\ \A u \in Tasks : Waiting(u)' <=> Waiting(u)
      /\ \A u \in Tasks : Granted(u)' <=> Granted(u)
  BY DEF TypeOK, Waiting, Granted
<1>3. FrameInv' /\ GrantedIsAwake'
  BY <1>2 DEF FrameInv, GrantedIsAwake
<1>4. QueueExact'
  BY <1>2 DEF QueueExact, TypeOK
<1>5. t \notin Holders /\ Holders' = Holders \cup {t}
  BY <1>2 DEF Holders, TypeOK, Granted, Waiting
<1>6. PermitsConserved'
  <2>1. Cardinality(Holders') = Cardinality(Holders) + 1
    BY <1>5, HolderCount
  <2> QED BY <2>1, HoldersFinite, SemaphoreAssumption DEF PermitsConserved, TypeOK
<1>7. Fifo!Take(t)
  <2>1. t \notin Members(wait_list)
    BY DEF QueueExact, Waiting
  <2>2. count > 0 /\ wait_list = <<>>
    BY DEF QueueExact, TypeOK
  <2> QED BY <1>5, <2>1, <2>2, SameLists DEF Fifo!Take, Fifo!Outside
<1> QED BY <1>1, <1>3, <1>4, <1>6, <1>7 DEF FifoStep, Fifo!Next

\* A round of __down_common by a queued waiter without a permit: t is in q,
\* which is wait_list or wait_list with t added.
LEMMA DownRoundStep ==
    ASSUME IInv, NEW t \in Tasks, NEW q \in Seq(Tasks), NEW w \in Waiters,
           NoDup(q), Members(q) = Members(wait_list) \cup {t},
           ~w.up, t \notin Holders, count = 0,
           down_round(t, q, w), UNCHANGED <<count, pending, surplus>>
    PROVE  IInv' /\ Holders' = Holders
<1> USE DEF IInv
<1>0. NoWaiter \in Waiters /\ ~NoWaiter.up
  BY DEF NoWaiter, Waiter, Waiters, SleepStates, Timeouts
<1>1. TypeOK'
  <2>1. w.state \in SleepStates
    BY DEF Waiters
  <2>2. wait_list' \in Seq(Tasks)
    <3>1. t \in Members(q)
      OBVIOUS
    <3>2. list_del(q, t) \in Seq(Tasks)
      BY <3>1, ListDelProperties
    <3> QED BY <3>2 DEF down_round
  <2> QED BY <1>0, <2>1, <2>2 DEF TypeOK, TaskTypeOK, down_round
<1>2. ~Granted(t)
  BY DEF Holders
<1>3. /\ \A u \in Tasks \ {t} : /\ pc'[u] = pc[u]
                                /\ waiter'[u] = waiter[u]
                                /\ state'[u] = state[u]
      /\ pc'[t] \in {"idle", "sched"}
      /\ pc[t] # "held"
      /\ waiter'[t] \in Waiters /\ ~waiter'[t].up
      /\ pc'[t] = "idle" => waiter'[t] = NoWaiter
  BY <1>0 DEF down_round, TypeOK, TaskTypeOK, Holders
<1>4. FrameInv'
  BY <1>3 DEF FrameInv, Waiting, TypeOK
<1>5. GrantedIsAwake'
  BY <1>3 DEF GrantedIsAwake, Granted, Waiting
<1>6. Holders' = Holders
  BY <1>3 DEF Holders, Granted, Waiting
<1>7. PermitsConserved'
  BY <1>6 DEF PermitsConserved
<1>8. QueueExact'
  <2>1. /\ NoDup(wait_list')
        /\ Members(wait_list') = IF pc'[t] = "idle" THEN Members(q) \ {t}
                                                     ELSE Members(q)
    BY ListDelProperties DEF down_round, TypeOK
  <2>2. Members(wait_list') = {u \in Tasks : Waiting(u)' /\ ~Granted(u)'}
    <3>1. \A u \in Tasks \ {t} : /\ Waiting(u)' <=> Waiting(u)
                                 /\ Granted(u)' <=> Granted(u)
      BY <1>3 DEF Waiting, Granted
    <3>2. /\ ~Granted(t)'
          /\ Waiting(t)' <=> pc'[t] # "idle"
      BY <1>3 DEF Waiting, Granted
    <3> QED BY <2>1, <3>1, <3>2 DEF QueueExact
  <2> QED BY <2>1, <2>2 DEF QueueExact
<1> QED BY <1>1, <1>4, <1>5, <1>6, <1>7, <1>8

\* Any of the downs.
LEMMA DownStep ==
    ASSUME IInv, NEW t \in Tasks, NEW st \in SleepStates, NEW tmo \in Timeouts,
           down_any(t, st, tmo)
    PROVE  IInv' /\ FifoStep
<1>1. CASE take_count(t)
  BY <1>1, TakeCountStep DEF down_any
<1>2. CASE down_common(t, st, tmo)
  <2> DEFINE q == list_add_tail(wait_list, t)
             w == Waiter(FALSE, st, tmo)
  <2>1. pc[t] = "idle"
    BY DEF down_any
  <2>2. t \notin Members(wait_list) /\ t \notin Holders
    BY <2>1 DEF IInv, QueueExact, Waiting, Holders, Granted
  <2>3. q \in Seq(Tasks) /\ NoDup(q) /\ Members(q) = Members(wait_list) \cup {t}
    BY <2>2, AddTailProperties DEF IInv, QueueExact, TypeOK
  <2>4. w \in Waiters /\ ~w.up
    BY DEF Waiters, Waiter
  <2>5. down_round(t, q, w) /\ count = 0 /\ UNCHANGED <<count, pending, surplus>>
    BY <1>2 DEF down_common
  <2>6. list_del(q, t) = wait_list
    BY <2>2, DelAfterAdd DEF IInv, TypeOK
  <2>7. wait_list' = wait_list \/ wait_list' = list_add_tail(wait_list, t)
    BY <2>5, <2>6 DEF down_round
  <2> HIDE DEF q, w
  <2>8. IInv' /\ Holders' = Holders
    BY <2>2, <2>3, <2>4, <2>5, DownRoundStep
  <2>9. FifoStep
    BY <2>2, <2>5, <2>7, <2>8, SameLists
       DEF FifoStep, Fifo!Next, Fifo!Join, Fifo!Outside
  <2> QED BY <2>8, <2>9
<1> QED BY <1>1, <1>2 DEF down_any

\* A waiter comes back from schedule_timeout(), or its timer expires.
LEMMA SleepStep ==
    ASSUME IInv, NEW t \in Tasks, schedule_timeout(t) \/ process_timeout(t)
    PROVE  IInv' /\ FifoStep
<1> USE DEF IInv
<1>1. /\ wait_list' = wait_list /\ count' = count /\ surplus' = surplus
      /\ pending' = pending
  BY DEF schedule_timeout, process_timeout
<1>2. PICK left \in Timeouts : 
             waiter' = [waiter EXCEPT ![t] = Waiter(@.up, @.state, left)]
  BY DEF schedule_timeout, process_timeout, TypeOK, Waiters, Timeouts
<1>3. /\ waiter' \in [Tasks -> Waiters]
      /\ \A u \in Tasks : waiter'[u].up = waiter[u].up
      /\ \A u \in Tasks \ {t} : waiter'[u] = waiter[u]
  BY <1>2 DEF TypeOK, Waiters, Waiter
<1>4. /\ pc' \in [Tasks -> {"idle", "sched", "relock", "held"}]
      /\ \A u \in Tasks : Waiting(u)' <=> Waiting(u)
      /\ \A u \in Tasks : pc'[u] = "held" <=> pc[u] = "held"
      /\ Waiting(t)
  BY DEF schedule_timeout, process_timeout, TypeOK, Waiting
<1>5. /\ state' \in [Tasks -> SleepStates \cup {TASK_RUNNING}]
      /\ \A u \in Tasks : state[u] = TASK_RUNNING => state'[u] = TASK_RUNNING
  <2>1. CASE schedule_timeout(t)
    BY <2>1 DEF schedule_timeout, schedule, TypeOK, TaskTypeOK
  <2>2. CASE process_timeout(t)
    BY <2>2 DEF try_to_wake_up, TaskTypeOK, process_timeout, wake_up_process, TypeOK
  <2> QED BY <2>1, <2>2
<1>6. TypeOK'
  BY <1>1, <1>3, <1>4, <1>5 DEF TypeOK, TaskTypeOK
<1>7. \A u \in Tasks : Granted(u)' <=> Granted(u)
  BY <1>3, <1>4 DEF Granted
<1>8. FrameInv' /\ GrantedIsAwake'
  BY <1>3, <1>4, <1>5, <1>7 DEF FrameInv, GrantedIsAwake
<1>9. QueueExact'
  BY <1>1, <1>4, <1>7 DEF QueueExact
<1>10. Holders' = Holders
  BY <1>4, <1>7 DEF Holders
<1>11. PermitsConserved'
  BY <1>1, <1>10 DEF PermitsConserved
<1> QED BY <1>1, <1>6, <1>8, <1>9, <1>10, <1>11 DEF FifoStep

\* A waiter looks at waiter.up after taking sem->lock again.
LEMMA RelockStep ==
    ASSUME IInv, NEW t \in Tasks, down_relock(t)
    PROVE  IInv' /\ FifoStep
<1> USE DEF IInv
<1>1. pc[t] = "relock" /\ Waiting(t)
  BY DEF down_relock, Waiting
<1>2. CASE waiter[t].up
  <2>1. /\ pc' = [pc EXCEPT ![t] = "held"]
        /\ waiter' = [waiter EXCEPT ![t] = NoWaiter]
        /\ UNCHANGED <<state, pending, wait_list, count, surplus>>
    BY <1>2 DEF down_relock
  <2>2. NoWaiter \in Waiters /\ ~NoWaiter.up
    BY DEF NoWaiter, Waiter, Waiters, SleepStates, Timeouts
  <2>3. TypeOK'
    BY <2>1, <2>2 DEF TypeOK, TaskTypeOK
  <2>4. /\ \A u \in Tasks \ {t} : /\ pc'[u] = pc[u]
                                  /\ waiter'[u] = waiter[u]
        /\ pc'[t] = "held" /\ waiter'[t] = NoWaiter
    BY <2>1 DEF TypeOK
  <2>5. /\ \A u \in Tasks \ {t} : /\ Waiting(u)' <=> Waiting(u)
                                  /\ Granted(u)' <=> Granted(u)
        /\ ~Waiting(t)' /\ ~Granted(t)' /\ Granted(t)
    BY <2>4, <1>1, <1>2 DEF Waiting, Granted
  <2>6. FrameInv' /\ GrantedIsAwake'
    BY <2>1, <2>4, <2>5 DEF FrameInv, GrantedIsAwake
  <2>7. QueueExact'
    BY <2>1, <2>5 DEF QueueExact
  <2>8. Holders' = Holders
    BY <2>4, <2>5 DEF Holders
  <2> QED BY <2>1, <2>3, <2>6, <2>7, <2>8 DEF PermitsConserved, FifoStep
<1>3. CASE ~waiter[t].up
  <2>1. /\ down_round(t, wait_list, waiter[t])
        /\ UNCHANGED <<count, pending, surplus>>
    BY <1>3 DEF down_relock
  <2>2. t \in Members(wait_list) /\ t \notin Holders
    BY <1>1, <1>3 DEF QueueExact, Granted, Holders
  <2>3. wait_list # <<>> /\ Members(wait_list) = Members(wait_list) \cup {t}
    BY <2>2 DEF Members
  <2>4. /\ wait_list \in Seq(Tasks) /\ waiter[t] \in Waiters
        /\ NoDup(wait_list) /\ count = 0
    BY <2>3 DEF QueueExact, TypeOK
  <2>5. IInv' /\ Holders' = Holders
    BY <1>3, <2>1, <2>2, <2>3, <2>4, DownRoundStep
  <2>6. wait_list' = wait_list \/ wait_list' = list_del(wait_list, t)
    BY <2>1 DEF down_round
  <2> QED BY <2>1, <2>2, <2>5, <2>6, SameLists DEF FifoStep, Fifo!Next, Fifo!GiveUp
<1> QED BY <1>2, <1>3

\* A released permit goes to count or to the first waiter.  hs are the
\* holders once the releasing task, if there is one, is taken out.
LEMMA ReleaseStep ==
    ASSUME IInv, release, pending' = pending, surplus' \in 0..MaxSurplus,
           pc' \in [Tasks -> {"idle", "sched", "relock", "held"}],
           \A u \in Tasks : Waiting(u)' <=> Waiting(u),
           NEW hs, hs = {u \in Tasks : pc'[u] = "held" \/ Granted(u)},
           IsFiniteSet(hs),
           count + 1 + Cardinality(hs) = InitCount + surplus'
    PROVE  IInv' /\ Fifo!Return(hs)
<1> USE DEF IInv
<1>0. Cardinality(hs) \in Nat
  BY FS_CardinalityType
<1>1. CASE wait_list = <<>>
  <2>1. count' = count + 1 /\ UNCHANGED <<state, wait_list, waiter>>
    BY <1>1 DEF release
  <2>2. TypeOK'
    BY <2>1 DEF TypeOK, TaskTypeOK
  <2>3. \A u \in Tasks : Granted(u)' <=> Granted(u)
    BY <2>1 DEF Granted
  <2>4. FrameInv' /\ GrantedIsAwake'
    BY <2>1, <2>3 DEF FrameInv, GrantedIsAwake
  <2>5. QueueExact'
    BY <1>1, <2>1, <2>3 DEF QueueExact
  <2>6. Holders' = hs
    BY <2>3 DEF Holders
  <2>7. PermitsConserved'
    BY <2>1, <2>6 DEF PermitsConserved
  <2> QED BY <1>1, <2>1, <2>2, <2>4, <2>5, <2>6, <2>7 DEF Fifo!Return
<1>2. CASE wait_list # <<>>
  <2>0. PICK h : h = Head(wait_list)
    OBVIOUS
  <2>1. /\ wait_list' = Tail(wait_list)
        /\ waiter' = [waiter EXCEPT ![h] = Waiter(TRUE, @.state, @.timeout)]
        /\ state' = wake_up_process(h)
        /\ count' = count
    BY <1>2, <2>0 DEF release
  <2>2. /\ wait_list' \in Seq(Tasks) /\ NoDup(wait_list')
        /\ h \in Tasks /\ h \in Members(wait_list)
        /\ Members(wait_list') = Members(wait_list) \ {h}
    BY <1>2, <2>0, <2>1, TailMembers DEF QueueExact, TypeOK
  <2>3. /\ state' \in [Tasks -> SleepStates \cup {TASK_RUNNING}]
        /\ \A u \in Tasks : state[u] = TASK_RUNNING => state'[u] = TASK_RUNNING
        /\ state'[h] = TASK_RUNNING
    BY <2>1, <2>2 DEF try_to_wake_up, TaskTypeOK, SleepStates, wake_up_process, TypeOK
  <2>4. /\ waiter' \in [Tasks -> Waiters]
        /\ waiter'[h].up
        /\ \A u \in Tasks \ {h} : waiter'[u] = waiter[u]
    BY <2>1, <2>2 DEF TypeOK, Waiters, Waiter
  <2>5. TypeOK'
    BY <2>1, <2>2, <2>3, <2>4 DEF TypeOK, TaskTypeOK
  <2>6. Waiting(h) /\ ~Granted(h)
    BY <2>2 DEF QueueExact
  <2>7. /\ \A u \in Tasks \ {h} : Granted(u)' <=> Granted(u)
        /\ Granted(h)'
    BY <2>2, <2>4, <2>6 DEF Granted
  <2>8. FrameInv' /\ GrantedIsAwake'
    BY <2>3, <2>4, <2>6, <2>7 DEF FrameInv, GrantedIsAwake
  <2>9. QueueExact'
    <3>1. count' = 0
      BY <1>2, <2>1 DEF QueueExact
    <3>2. Members(wait_list') = {u \in Tasks : Waiting(u)' /\ ~Granted(u)'}
      BY <2>2, <2>6, <2>7 DEF QueueExact
    <3> QED BY <2>2, <3>1, <3>2 DEF QueueExact
  <2>10. Holders' = hs \cup {h} /\ h \notin hs
    <3>1. pc'[h] # "held"
      BY <2>2, <2>6 DEF Waiting
    <3> QED BY <2>2, <2>6, <2>7, <3>1 DEF Holders
  <2>11. Cardinality(Holders') = Cardinality(hs) + 1
    BY <2>10, FS_AddElement
  <2>12. PermitsConserved'
    BY <1>0, <2>1, <2>11, SemaphoreAssumption DEF PermitsConserved, TypeOK
  <2>13. Fifo!Return(hs)
    BY <1>2, <2>0, <2>1, <2>10 DEF Fifo!Return
  <2> QED BY <2>5, <2>8, <2>9, <2>12, <2>13
<1> QED BY <1>1, <1>2

\* up() by a holder.
LEMMA UpStep ==
    ASSUME IInv, NEW t \in Tasks, up(t)
    PROVE  IInv' /\ FifoStep
<1> DEFINE hs == {u \in Tasks : pc'[u] = "held" \/ Granted(u)}
<1>1. /\ pc' \in [Tasks -> {"idle", "sched", "relock", "held"}]
      /\ \A u \in Tasks : Waiting(u)' <=> Waiting(u)
      /\ ~Granted(t)
      /\ t \in Holders
  BY DEF IInv, TypeOK, up, Waiting, Granted, Holders
<1>2. hs = Holders \ {t}
  BY <1>1 DEF Holders, up, IInv, TypeOK
<1>3. IsFiniteSet(hs) /\ Cardinality(hs) = Cardinality(Holders) - 1
  BY <1>1, <1>2, HoldersFinite, FS_RemoveElement
<1>4. count + 1 + Cardinality(hs) = InitCount + surplus'
  BY <1>3, HoldersFinite, SemaphoreAssumption DEF IInv, TypeOK, PermitsConserved, up
<1>5. release /\ pending' = pending /\ surplus' \in 0..MaxSurplus
  BY DEF up, IInv, TypeOK
<1>6. IInv' /\ Fifo!Return(Holders \ {t})
  <2> HIDE DEF hs
  <2>1. IInv' /\ Fifo!Return(hs)
    BY <1>1, <1>3, <1>4, <1>5, ReleaseStep DEF hs
  <2> QED BY <1>2, <2>1
<1> QED BY <1>1, <1>6 DEF FifoStep, Fifo!Next, Fifo!Release

\* up() by an interrupt or by a task that never called down().
LEMMA UpForeignStep ==
    ASSUME IInv, up_foreign
    PROVE  IInv' /\ FifoStep
<1>1. /\ pc' \in [Tasks -> {"idle", "sched", "relock", "held"}]
      /\ \A u \in Tasks : Waiting(u)' <=> Waiting(u)
  BY DEF IInv, TypeOK, up_foreign, Waiting
<1>2. Holders = {u \in Tasks : pc'[u] = "held" \/ Granted(u)}
  BY DEF Holders, up_foreign
<1>3. surplus' \in 0..MaxSurplus /\ surplus' = surplus + 1
  BY SemaphoreAssumption DEF up_foreign, IInv, TypeOK
<1>4. count + 1 + Cardinality(Holders) = InitCount + surplus'
  BY <1>3, HoldersFinite, SemaphoreAssumption DEF IInv, TypeOK, PermitsConserved
<1>5. release /\ pending' = pending
  BY DEF up_foreign
<1>6. IInv' /\ Fifo!Return(Holders)
  BY <1>1, <1>2, <1>3, <1>4, <1>5, HoldersFinite, ReleaseStep
<1> QED BY <1>6 DEF FifoStep, Fifo!Next, Fifo!Produce

\* Signals touch neither the queue nor a permit.
LEMMA SignalStep ==
    ASSUME IInv, NEW t \in Tasks, Signal(t) \/ HandleSignal(t)
    PROVE  IInv' /\ FifoStep
<1> USE DEF IInv
<1>1. UNCHANGED semVars
  BY DEF Signal, HandleSignal
<1>2. /\ state' \in [Tasks -> SleepStates \cup {TASK_RUNNING}]
      /\ \A u \in Tasks : state[u] = TASK_RUNNING => state'[u] = TASK_RUNNING
  <2>1. CASE Signal(t)
    BY <2>1 DEF try_to_wake_up, TaskTypeOK, Signal, signal_wake_up, TypeOK
  <2>2. CASE HandleSignal(t)
    BY <2>2 DEF HandleSignal, TypeOK, TaskTypeOK
  <2> QED BY <2>1, <2>2
<1>3. pending' \in [Tasks -> Signals]
  BY DEF Signal, signal_wake_up, HandleSignal, TypeOK, TaskTypeOK, Signals
<1>4. TypeOK'
  BY <1>1, <1>2, <1>3 DEF TypeOK, TaskTypeOK, semVars
<1>5. \A u \in Tasks : (Waiting(u)' <=> Waiting(u)) /\ (Granted(u)' <=> Granted(u))
  BY <1>1 DEF semVars, Waiting, Granted
<1>6. Holders' = Holders
  BY <1>1, <1>5 DEF semVars, Holders
<1> QED BY <1>1, <1>2, <1>4, <1>5, <1>6
        DEF semVars, FrameInv, QueueExact, GrantedIsAwake, PermitsConserved,
            FifoStep

\* Every step preserves the invariant and is a step of the abstract semaphore.
LEMMA NextIInv == IInv /\ [Next]_vars => IInv' /\ FifoStep
<1> SUFFICES ASSUME IInv, [Next]_vars PROVE IInv' /\ FifoStep
  OBVIOUS
<1>1. ASSUME NEW t \in Tasks,
             \/ down(t) \/ down_interruptible(t) \/ down_killable(t)
             \/ down_timeout(t) \/ down_trylock(t)
      PROVE  IInv' /\ FifoStep
  <2>1. CASE down_trylock(t)
    BY <2>1, TakeCountStep DEF down_trylock
  <2>2. ASSUME \/ down(t) \/ down_interruptible(t)
               \/ down_killable(t) \/ down_timeout(t)
        PROVE  \E st \in SleepStates, tmo \in Timeouts : down_any(t, st, tmo)
    BY <2>2 DEF down, down_interruptible, down_killable, down_timeout,
                SleepStates, Timeouts
  <2> QED BY <1>1, <2>1, <2>2, DownStep
<1>2. ASSUME NEW t \in Tasks, schedule_timeout(t) \/ process_timeout(t)
      PROVE  IInv' /\ FifoStep
  BY <1>2, SleepStep
<1>3. ASSUME NEW t \in Tasks, down_relock(t) PROVE IInv' /\ FifoStep
  BY <1>3, RelockStep
<1>4. ASSUME NEW t \in Tasks, up(t) PROVE IInv' /\ FifoStep
  BY <1>4, UpStep
<1>5. ASSUME NEW t \in Tasks, Signal(t) \/ HandleSignal(t) PROVE IInv' /\ FifoStep
  BY <1>5, SignalStep
<1>6. CASE up_foreign
  BY <1>6, UpForeignStep
<1>7. CASE UNCHANGED vars
  <2>1. UNCHANGED <<taskVars, state, pending, semVars, count, wait_list, pc,
                    waiter, surplus>>
    BY <1>7 DEF vars, taskVars, semVars
  <2>2. Holders' = Holders
    BY <2>1 DEF Holders, Granted, Waiting
  <2> QED BY <2>1, <2>2
          DEF IInv, TypeOK, TaskTypeOK, FrameInv, QueueExact, GrantedIsAwake,
              PermitsConserved, Granted, Waiting, FifoStep
<1> QED BY <1>1, <1>2, <1>3, <1>4, <1>5, <1>6, <1>7 DEF Next

\* The invariant holds in every reachable state of the semaphore.
THEOREM SemaphoreInvariant == Spec => []IInv
<1>1. Init => IInv
  BY InitIInv
<1>2. IInv /\ [Next]_vars => IInv'
  BY NextIInv
<1> QED BY <1>1, <1>2, PTL DEF Spec

\* sem->count, the wait list and the frames stay well typed; in particular
\* the unsigned sem->count never goes below zero.
THEOREM SemaphoreTypeCorrect == Spec => []TypeOK
BY SemaphoreInvariant, PTL DEF IInv

\* For any number of tasks, up(), signals and timeouts racing with a waiter
\* of __down_common neither lose nor duplicate a permit.
THEOREM SemaphorePermitsConserved == Spec => []PermitsConserved
BY SemaphoreInvariant, PTL DEF IInv

\* wait_list is exactly the set of waiters __up() has not served, and nobody
\* waits while sem->count is positive.
THEOREM SemaphoreQueueExact == Spec => []QueueExact
BY SemaphoreInvariant, PTL DEF IInv

\* A waiter that __up() has served is never left asleep.
THEOREM SemaphoreGrantedIsAwake == Spec => []GrantedIsAwake
BY SemaphoreInvariant, PTL DEF IInv

\* kernel/semaphore.c implements the strictly ordered semaphore: no down gets
\* past the queue, whatever wakes the waiters up.
THEOREM SemaphoreIsFifo == Spec => FifoSpec
<1>1. Init => Fifo!Init
  BY InitIInv
<1>2. IInv /\ [Next]_vars => [Fifo!Next]_<<count, wait_list, Holders>>
  BY NextIInv DEF FifoStep
<1> QED BY <1>1, <1>2, SemaphoreInvariant, PTL
        DEF Spec, FifoSpec, Fifo!Spec, Fifo!vars
==============================================================================
