------------------------------ MODULE PageLock -------------------------------
(***************************************************************************)
(* Waiting on the bits of a page: lock_page(), lock_page_killable() and    *)
(* unlock_page(), wait_on_page_locked(), wait_on_page_writeback() and      *)
(* end_page_writeback() of mm/filemap.c, over the bit-wait functions of    *)
(* kernel/wait.c.                                                          *)
(*                                                                         *)
(* The wait queues of pages are hashed; here every page falls into one     *)
(* bucket, the worst case.  A bit is cleared first and its waiters are     *)
(* looked for afterwards, without any lock that covers both; a waiter      *)
(* queues itself, announces its sleep and looks at the bit, in this order. *)
(***************************************************************************)
EXTENDS WaitQueue

CONSTANTS Pages,
          Bits,       \* the page bits that are used
          Victims     \* bound: the tasks that signals are sent to

ASSUME PageLockAssumption == /\ "locked" \in Bits /\ Bits \subseteq {"locked", "writeback"}
                             /\ Victims \subseteq Tasks
                             /\ Pages # {}
                             /\ IsFiniteSet(Tasks)

VARIABLES flags,    \* the bits that are set, as pairs of a page and a bit
          wait,     \* the wait queue of the bucket, the queued tasks in order
          pc,       \* where the task is
          frame,    \* what the task's call works on
          ended     \* pages whose end_page_writeback() is yet to wake waiters

pageVars == <<flags, wait, pc, frame, ended>>
vars == <<wqVars, pageVars>>

Keys == Pages \X Bits
Locked(p)    == <<p, "locked">>
Writeback(p) == <<p, "writeback">>

\* The key a task waits on, wakes for or owns, how it sleeps, and whether it
\* wants the bit for itself (WQ_FLAG_EXCLUSIVE).
Frames == [key : Keys, mode : SleepStates, exclusive : BOOLEAN]
Frame(k, m, x) == [key |-> k, mode |-> m, exclusive |-> x]
AnyFrame == Frame(Locked(CHOOSE p \in Pages : TRUE), TASK_UNINTERRUPTIBLE, FALSE)

WaitPCs == {"prepare", "test", "sched", "again", "abort", "finish"}

TypeOK ==
    /\ WaitQueueTypeOK
    /\ flags \subseteq Keys
    /\ wait \in Seq(Tasks)
    /\ NoDup(wait)
    /\ pc \in [Tasks -> {"idle", "held", "wake"} \cup WaitPCs]
    /\ frame \in [Tasks -> Frames]
    /\ ended \subseteq Pages

Init ==
    /\ WaitQueueInit
    /\ flags = {}
    /\ wait = <<>>
    /\ pc = [t \in Tasks |-> "idle"]
    /\ frame = [t \in Tasks |-> AnyFrame]
    /\ ended = {}

Goto(t, where) == pc' = [pc EXCEPT ![t] = where]

\* The call returns and its frame is dead.
Return(t) == Goto(t, "idle") /\ frame' = [frame EXCEPT ![t] = AnyFrame]

\* t owns the bit of key k from now on.
Hold(t, k) == /\ Goto(t, "held")
              /\ frame' = [frame EXCEPT ![t] = Frame(k, TASK_UNINTERRUPTIBLE, TRUE)]

------------------------------------------------------------------------------
\* lock_page() and its variants: the bit is taken at once, or waited for.
\* Waiting by __lock_page_nosync() differs only in what runs before the sleep.
lock_page(t, p, mode) ==
    /\ pc[t] = "idle"
    /\ \/ /\ Locked(p) \notin flags
          /\ flags' = flags \cup {Locked(p)}
          /\ Hold(t, Locked(p))
       \/ /\ Locked(p) \in flags
          /\ Goto(t, "prepare")
          /\ frame' = [frame EXCEPT ![t] = Frame(Locked(p), mode, TRUE)]
          /\ UNCHANGED flags
    /\ UNCHANGED <<wqVars, wait, ended>>

\* Failing changes nothing, so only the success is a step.
trylock_page(t, p) ==
    /\ pc[t] = "idle"
    /\ Locked(p) \notin flags
    /\ flags' = flags \cup {Locked(p)}
    /\ Hold(t, Locked(p))
    /\ UNCHANGED <<wqVars, wait, ended>>

\* wait_on_page_locked() and wait_on_page_writeback() on a bit that is set.
wait_on_page_bit(t, k) ==
    /\ pc[t] = "idle"
    /\ k \in flags
    /\ frame' = [frame EXCEPT ![t] = Frame(k, TASK_UNINTERRUPTIBLE, FALSE)]
    /\ Goto(t, "prepare")
    /\ UNCHANGED <<wqVars, flags, wait, ended>>

\* prepare_to_wait() queues at the head, prepare_to_wait_exclusive() at the
\* tail, unless the task is still queued from an earlier round.
prepare_to_wait(t) ==
    /\ pc[t] = "prepare"
    /\ wait' = CASE t \in Members(wait) -> wait
                 [] t \notin Members(wait) /\ frame[t].exclusive -> list_add_tail(wait, t)
                 [] t \notin Members(wait) /\ ~frame[t].exclusive -> <<t>> \o wait
    /\ state' = [state EXCEPT ![t] = frame[t].mode]
    /\ Goto(t, "test")
    /\ UNCHANGED <<pending, on_rq, flags, frame, ended>>

\* Faulty variant: the bit is not looked at again after queueing.
wait_test_skipped(t) ==
    /\ pc[t] = "test"
    /\ Goto(t, "sched")
    /\ UNCHANGED <<wqVars, flags, wait, frame, ended>>

\* Sleep only if the bit is still set now that the task is queued.
wait_test(t) ==
    /\ pc[t] = "test"
    /\ Goto(t, IF frame[t].key \in flags THEN "sched" ELSE "again")
    /\ UNCHANGED <<wqVars, flags, wait, frame, ended>>

\* io_schedule() in sync_page(), sync_page_killable(): give up the CPU ...
sync_page_sleep(t) == /\ pc[t] = "sched"
                      /\ schedule_out(t)
                      /\ UNCHANGED pageVars

\* ... and come back; only a killable waiter looks for a fatal signal.
sync_page(t) ==
    /\ pc[t] = "sched"
    /\ schedule_in(t)
    /\ Goto(t, IF frame[t].mode = TASK_KILLABLE /\ pending[t] = "fatal"
               THEN "abort" ELSE "again")
    /\ UNCHANGED <<flags, wait, frame, ended>>

\* The condition of the loops: test_and_set_bit() in __wait_on_bit_lock(),
\* test_bit() in __wait_on_bit().
wait_again(t) ==
    /\ pc[t] = "again"
    /\ flags' = IF frame[t].exclusive THEN flags \cup {frame[t].key} ELSE flags
    /\ Goto(t, IF frame[t].key \in flags THEN "prepare" ELSE "finish")
    /\ UNCHANGED <<wqVars, wait, frame, ended>>

\* Faulty variant: the entry stays on the queue.
finish_wait_queued(t) ==
    /\ pc[t] = "finish"
    /\ state' = [state EXCEPT ![t] = TASK_RUNNING]
    /\ IF frame[t].exclusive THEN Hold(t, frame[t].key) ELSE Return(t)
    /\ UNCHANGED <<pending, on_rq, flags, wait, ended>>

\* Back to running, and off the queue if no wake-up took the entry off.
finish_wait(t) ==
    /\ pc[t] = "finish"
    /\ state' = [state EXCEPT ![t] = TASK_RUNNING]
    /\ wait' = IF t \in Members(wait) THEN list_del(wait, t) ELSE wait
    /\ IF frame[t].exclusive THEN Hold(t, frame[t].key) ELSE Return(t)
    /\ UNCHANGED <<pending, on_rq, flags, ended>>

\* The entries whose wake_bit_function() succeeds for key k: they wait for k,
\* k is clear, and their task had gone to sleep in one of the states of mode.
wake_bit_function(k, mode) ==
    {s \in WakesUp(mode) : frame[s].key = k /\ k \notin flags}

\* __wake_up_common(wait, mode, 1, 0, k): an entry that is woken from its sleep
\* is taken off the queue by autoremove_wake_function().
wake_up_bit(k, mode) ==
    LET succeeds  == wake_bit_function(k, mode)
        exclusive == {s \in Tasks : frame[s].exclusive}
        called    == Scanned(wait, 1, exclusive, succeeds)
    IN  /\ wake_up_all({s \in called : frame[s].key = k /\ k \notin flags}, mode)
        /\ wait' = list_del_all(wait, called \cap succeeds)

\* Faulty variant: the wake-up that came for the aborting task is dropped.
abort_exclusive_wait_swallows(t) ==
    /\ pc[t] = "abort"
    /\ wait' = IF t \in Members(wait) THEN list_del(wait, t) ELSE wait
    /\ Return(t)
    /\ UNCHANGED <<wqVars, flags, ended>>

\* A killed waiter leaves.  If it is no longer queued it was woken for the
\* bit, and passes the wake-up on.
abort_exclusive_wait(t) ==
    /\ pc[t] = "abort"
    /\ \/ /\ t \in Members(wait)
          /\ wait' = list_del(wait, t)
          /\ UNCHANGED <<state, on_rq>>
       \/ /\ t \notin Members(wait)
          /\ wake_up_bit(frame[t].key, frame[t].mode)
    /\ Return(t)
    /\ UNCHANGED <<pending, flags, ended>>

\* unlock_page(), first half: the bit is cleared.
unlock_page(t) ==
    /\ pc[t] = "held"
    /\ flags' = flags \ {frame[t].key}
    /\ Goto(t, "wake")
    /\ UNCHANGED <<wqVars, wait, frame, ended>>

\* Second half, wake_up_page().  Looking whether the queue is empty without
\* the lock is part of the step: later additions find the bit clear.
wake_up_page(t) ==
    /\ pc[t] = "wake"
    /\ wake_up_bit(frame[t].key, TASK_NORMAL)
    /\ Return(t)
    /\ UNCHANGED <<pending, flags, ended>>

\* The owner of a page starts writing it back ...
set_page_writeback(t) ==
    /\ pc[t] = "held"
    /\ LET k == Writeback(frame[t].key[1])
       IN  k \in Keys \ flags /\ flags' = flags \cup {k}
    /\ UNCHANGED <<wqVars, wait, pc, frame, ended>>

\* ... and its completion interrupt ends it, in the same two halves.  Bound:
\* one interrupt per page at a time.
end_page_writeback(p) ==
    /\ Writeback(p) \in flags
    /\ p \notin ended
    /\ flags' = flags \ {Writeback(p)}
    /\ ended' = ended \cup {p}
    /\ UNCHANGED <<wqVars, wait, pc, frame>>

wake_up_writeback(p) ==
    /\ p \in ended
    /\ ended' = ended \ {p}
    /\ wake_up_bit(Writeback(p), TASK_NORMAL)
    /\ UNCHANGED <<pending, flags, pc, frame>>

\* Only fatal signals matter to the sleeps of this module.
Signal(t) == t \in Victims /\ deliver_signal(t, "fatal") /\ UNCHANGED pageVars

HandleSignal(t) == /\ pc[t] = "idle"
                   /\ pending[t] # "none"
                   /\ pending' = [pending EXCEPT ![t] = "none"]
                   /\ UNCHANGED <<state, on_rq, pageVars>>

\* The steps a task inside one of the functions takes by itself.
KernelStep(t) == \/ prepare_to_wait(t) \/ wait_test(t)
                 \/ sync_page_sleep(t) \/ sync_page(t)
                 \/ wait_again(t) \/ finish_wait(t) \/ abort_exclusive_wait(t)
                 \/ wake_up_page(t)

Interrupt(p) == end_page_writeback(p) \/ wake_up_writeback(p)

\* Being killable makes a difference only to tasks that are killed.
LockModes(t) == {TASK_UNINTERRUPTIBLE} \cup (IF t \in Victims THEN {TASK_KILLABLE} ELSE {})

NewCall(t) == \E p \in Pages :
                 \/ \E m \in LockModes(t) : lock_page(t, p, m)
                 \/ trylock_page(t, p)
                 \/ \E b \in Bits : wait_on_page_bit(t, <<p, b>>)

Next == \/ \E t \in Tasks : \/ NewCall(t) \/ KernelStep(t)
                            \/ unlock_page(t) \/ set_page_writeback(t)
                            \/ Signal(t) \/ HandleSignal(t)
        \/ \E p \in Pages : Interrupt(p)

Spec == Init /\ [][Next]_vars

(***************************************************************************)
(* Fairness: runnable tasks run, owners unlock, and I/O completes.         *)
(***************************************************************************)
FairSpec == /\ Spec
            /\ \A t \in Tasks : WF_vars(KernelStep(t)) /\ WF_vars(unlock_page(t))
            /\ \A p \in Pages : WF_vars(Interrupt(p))

------------------------------------------------------------------------------
Waiting(t)    == pc[t] \in WaitPCs
Owners(p)     == {t \in Tasks : /\ frame[t].key = Locked(p) /\ frame[t].exclusive
                                /\ pc[t] \in {"held", "finish"}}
\* t sleeps, or is about to, and looks at nothing before it is woken.
Asleep(t)     == pc[t] = "sched" /\ state[t] # TASK_RUNNING
\* t will act on key k without being woken: clear the way or take the bit.
ActsFor(t, k) == /\ frame[t].key = k
                 /\ \/ pc[t] = "wake"
                    \/ /\ frame[t].exclusive
                       /\ \/ pc[t] \in {"prepare", "test", "again"}
                          \/ pc[t] = "sched" /\ state[t] = TASK_RUNNING
                          \/ pc[t] = "abort" /\ t \notin Members(wait)

\* PG_locked says exactly whether the page has an owner, and there is only one.
OneOwner == \A p \in Pages :
    Cardinality(Owners(p)) = IF Locked(p) \in flags THEN 1 ELSE 0

\* Nobody sleeps on a clear bit unless a wake-up is on its way: for a task
\* that wants the page from an unlocker, an awake contender or an aborting
\* waiter that passes the wake-up on; for one that waits for the bit to clear
\* from the task that cleared it.
NoWaiterForgotten == \A s \in Tasks :
    Asleep(s) /\ frame[s].key \notin flags =>
       \/ \E p \in ended : frame[s].key = Writeback(p)
       \/ \E t \in Tasks : /\ ActsFor(t, frame[s].key)
                           /\ ~frame[s].exclusive => pc[t] = "wake"

\* Only tasks inside a wait are queued, so that no wake-up follows an entry on
\* a stack frame that is gone.
QueuedIsWaiting == \A t \in Members(wait) : Waiting(t)

\* Tasks that wait for a bit are in front of those that want it, so that the
\* one exclusive wake-up does not end the scan before them.
ReadersInFront == \A i, j \in 1..Len(wait) :
    frame[wait[i]].exclusive /\ ~frame[wait[j]].exclusive => j < i

\* The page's bits, the tasks that own it and the hashed queue agree: one owner
\* per locked page, live entries only, and readers of a bit in front.
Consistent == TypeOK /\ OneOwner /\ QueuedIsWaiting /\ ReadersInFront

\* The steps that bring in new work.
NewWork == \E t \in Tasks : NewCall(t) \/ set_page_writeback(t)

\* Once no new calls come in, every waiter gets through: no wake-up is lost
\* between the clearing of a bit, the hashed queue, and killed waiters.
ServedWhenQuiet == <>[][~NewWork]_vars => <>[](\A t \in Tasks : pc[t] = "idle")
==============================================================================
