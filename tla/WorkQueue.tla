------------------------------ MODULE WorkQueue ------------------------------
(***************************************************************************)
(* One workqueue of kernel/workqueue.c: a worklist and a worker thread per *)
(* CPU, delayed works on timers, flush_workqueue(), flush_work(), the      *)
(* cancel functions, CPU hotplug and destroy_workqueue().                  *)
(*                                                                         *)
(* A work belongs to whoever set its PENDING bit; every section under      *)
(* cwq->lock is one step, and so is every atomic operation on work->data   *)
(* outside of it.  A flush queues a barrier, a work on the stack of the    *)
(* flushing task, and waits for its completion: the barrier of a task is   *)
(* named by the task.                                                      *)
(***************************************************************************)
EXTENDS Naturals, Sequences, FiniteSets, KList

CONSTANTS NCPU,       \* CPUs are numbered 1 .. NCPU
          Works,      \* the work_structs
          Clients,    \* tasks, interrupts included, that use the workqueue
          Admin,      \* the task that holds cpu_add_remove_lock
          NULL,       \* no work
          HotCPUs,    \* CPUs that may be unplugged
          Single,     \* the values of wq->singlethread to consider
          MaxDepth,   \* bound: how deep run_workqueue() is nested
          Ops         \* bound: the operations that are used

ASSUME WorkQueueAssumption ==
    /\ NCPU \in Nat \ {0} /\ MaxDepth \in Nat \ {0} /\ HotCPUs \subseteq 1..NCPU
    /\ Single \subseteq BOOLEAN
    /\ Ops \subseteq {"requeue", "delayed", "flush", "flush_work", "cancel",
                     "cancel_delayed", "destroy"}
    /\ Works \cap (Clients \cup {Admin}) = {}
    /\ Admin \notin Clients /\ NULL \notin Works \cup Clients \cup {Admin}

CPUs  == 1..NCPU
Waits == Clients \cup {Admin}     \* those that may have a barrier queued
Items == Works \cup Waits         \* what can be on a worklist

VARIABLES work,    \* work_struct: the PENDING bit, the cwq, the timer
          cwq,     \* cpu_workqueue_struct, and what its worker is doing
          call,    \* what a client is doing
          done,    \* the barriers that were completed
          hot,     \* the CPU maps, and what the hotplug task is doing
          owed     \* history: the callbacks that were queued or running when a
                   \* flush was called, and have not returned since

vars == <<work, cwq, call, done, hot, owed>>

\* cwq is the CPU whose cpu_workqueue_struct work->data points to, or 0.
WorkRec == [pending : BOOLEAN, cwq : 0..NCPU, timer : {"none", "armed", "firing"}]

\* A frame of run_workqueue(): its item before work_clear_pending(), in its
\* function (which may be queueing its own work), or back from it.  In ByHand
\* the function has flushed its own workqueue.
ByHand    == {"byhand", "byhand_requeue"}
RunFrames == [item : Items, at : {"clear", "run", "requeue", "ret"} \cup ByHand]
CwqRec == [worklist : Seq(Items), current_work : Items \cup {NULL}, frames : Seq(RunFrames),
           thread : {"none", "created", "prepare", "check", "sleep", "entry", "busy", "exited"},
           awake : BOOLEAN, stop : BOOLEAN]

\* Where a client is, its work, its CPU, and, in a cancel, whether there is a
\* timer and whether the PENDING bit was grabbed (ret >= 0).
Calls == [pc : {"idle", "insert", "arm", "flush", "flush_wait",
                "fw_lock", "fw_wait", "fw_ret", "c_timer", "c_grab", "c_read",
                "c_lock", "c_wait", "c_cpu", "c_cpu_wait", "c_clear", "cd_clear"},
          w : Works \cup {NULL}, cpu : 0 .. NCPU + 1, timed : BOOLEAN, got : BOOLEAN]
Idle  == [pc |-> "idle", w |-> NULL, cpu |-> 0, timed |-> FALSE, got |-> FALSE]

HotRec == [single : BOOLEAN, online : SUBSET CPUs, populated : SUBSET CPUs, cpu : 0..NCPU,
           todo : SUBSET CPUs,
           at : {"idle", "flush", "flush_wait", "stop", "stop_wait", "prepared",
                 "online", "destroyed"}]

TypeOK == /\ work \in [Works -> WorkRec]
          /\ cwq \in [CPUs -> CwqRec]
          /\ call \in [Clients -> Calls]
          /\ done \subseteq Waits
          /\ hot \in HotRec
          /\ owed \in [Clients -> SUBSET (CPUs \X Works \X {"queued", "run", "byhand"})]

\* A single threaded workqueue has one worker, on CPU 1, for works that are
\* queued on any CPU.
wq_per_cpu(c) == IF hot.single THEN 1 ELSE c
wq_cpu_map == IF hot.single THEN {1} ELSE hot.populated

Init ==
    /\ work = [w \in Works |-> [pending |-> FALSE, cwq |-> 0, timer |-> "none"]]
    /\ \E s \in Single : hot = [single |-> s, online |-> CPUs, populated |-> CPUs,
                               cpu |-> 0, todo |-> {}, at |-> "idle"]
    /\ cwq = [c \in CPUs |-> [worklist |-> <<>>, current_work |-> NULL, frames |-> <<>>,
                              thread |-> IF c \in wq_cpu_map THEN "prepare" ELSE "none",
                              awake |-> TRUE, stop |-> FALSE]]
    /\ call = [t \in Clients |-> Idle]
    /\ done = {}
    /\ owed = [t \in Clients |-> {}]

------------------------------------------------------------------------------
Become(t, f) == call' = [call EXCEPT ![t] = f]
Step(t, to)  == call' = [call EXCEPT ![t].pc = to]

\* list_empty(&work->entry): the work is on no worklist, of whichever CPU.
list_empty(x) == \A c \in CPUs : x \notin Members(cwq[c].worklist)

\* insert_work() with the worklist of c becoming q; wake_up(&cwq->more_work)
\* reaches a worker that waits there.
insert_work(c, q) ==
    cwq' = [cwq EXCEPT ![c].worklist = q,
                       ![c].awake = @ \/ cwq[c].thread \in {"check", "sleep"}]

\* Faulty variant: the completion of the barrier is not initialised.
insert_wq_barrier_stale(c, t, q) == insert_work(c, q) /\ UNCHANGED <<work, done>>

\* A barrier is a work whose function completes it.
insert_wq_barrier(c, t, q) ==
    insert_work(c, q) /\ done' = done \ {t} /\ UNCHANGED work

\* The worklist of c with x inserted right behind y.
Behind(c, x, y) ==
    LET q == cwq[c].worklist
        i == CHOOSE k \in 1..Len(q) : q[k] = y
    IN  SubSeq(q, 1, i) \o <<x>> \o SubSeq(q, i + 1, Len(q))

\* Is there something on the worklist of c, or in the hands of its worker?
Active(c) == cwq[c].worklist # <<>> \/ cwq[c].current_work # NULL

\* A new call is made by a client that is not in one, on a live workqueue.
NewCall(t) == call[t].pc = "idle" /\ hot.at # "destroyed" /\ hot.todo = {}

------------------------------------------------------------------------------
\* Faulty variant: the bit is set without looking whether it was set.
set_pending_blind(t, w, c, next) ==
    /\ work' = [work EXCEPT ![w].pending = TRUE]
    /\ Become(t, [Idle EXCEPT !.pc = next, !.w = w, !.cpu = c])
    /\ UNCHANGED <<cwq, done, hot, owed>>

\* queue_work(), queue_delayed_work(): test_and_set_bit(WORK_STRUCT_PENDING).
\* If it was set the call returns 0 and changes nothing.
set_pending(t, w, c, next) ==
    /\ ~work[w].pending
    /\ work' = [work EXCEPT ![w].pending = TRUE]
    /\ Become(t, [Idle EXCEPT !.pc = next, !.w = w, !.cpu = c])
    /\ UNCHANGED <<cwq, done, hot, owed>>

queue_work(t, w, c) ==
    NewCall(t) /\ c \in hot.online /\ set_pending(t, w, c, "insert")

queue_delayed_work(t, w, c) ==
    "delayed" \in Ops /\ NewCall(t) /\ c \in hot.online /\ set_pending(t, w, c, "arm")

\* Faulty variant: the work does not learn which cwq it is on.
queue_insert_anonymous(t) ==
    /\ call[t].pc = "insert"
    /\ LET c == wq_per_cpu(call[t].cpu)
       IN  insert_work(c, list_add_tail(cwq[c].worklist, call[t].w))
    /\ Become(t, Idle)
    /\ UNCHANGED <<work, done, hot, owed>>

\* Faulty variant: the worker is not woken.
queue_insert_silent(t) ==
    /\ call[t].pc = "insert"
    /\ LET c == wq_per_cpu(call[t].cpu)
       IN  /\ cwq' = [cwq EXCEPT ![c].worklist = list_add_tail(@, call[t].w)]
           /\ work' = [work EXCEPT ![call[t].w].cwq = c]
    /\ Become(t, Idle)
    /\ UNCHANGED <<done, hot, owed>>

\* __queue_work(), still on the CPU that was asked for.
queue_insert(t) ==
    /\ call[t].pc = "insert"
    /\ LET c == wq_per_cpu(call[t].cpu)
           w == call[t].w
       IN  /\ insert_work(c, list_add_tail(cwq[c].worklist, w))
           /\ work' = [work EXCEPT ![w].cwq = c]
    /\ Become(t, Idle)
    /\ UNCHANGED <<done, hot, owed>>

\* set_wq_data() for delayed_work_timer_fn(), and add_timer().
arm_timer(t) ==
    /\ call[t].pc = "arm"
    /\ work' = [work EXCEPT ![call[t].w].cwq = wq_per_cpu(call[t].cpu),
                            ![call[t].w].timer = "armed"]
    /\ Become(t, Idle)
    /\ UNCHANGED <<cwq, done, hot, owed>>

\* The timer expires: it is detached and its handler called ...
timer_expires(w) ==
    /\ work[w].timer = "armed"
    /\ work' = [work EXCEPT ![w].timer = "firing"]
    /\ UNCHANGED <<cwq, call, done, hot, owed>>

\* ... which queues the work on the CPU it runs on.
delayed_work_timer_fn(w, c) ==
    /\ work[w].timer = "firing" /\ c \in hot.online
    /\ work' = [work EXCEPT ![w].timer = "none", ![w].cwq = wq_per_cpu(c)]
    /\ insert_work(wq_per_cpu(c), list_add_tail(cwq[wq_per_cpu(c)].worklist, w))
    /\ UNCHANGED <<call, done, hot, owed>>

------------------------------------------------------------------------------
\* A step of the worker of c from one place of worker_thread() to the next.
worker_moves(c, from, to, wakes) ==
    /\ cwq[c].thread = from
    /\ cwq' = [cwq EXCEPT ![c].thread = to, ![c].awake = wakes]
    /\ UNCHANGED <<work, call, done, hot, owed>>

\* Queue up on more_work and announce the sleep ...
worker_prepare(c) == worker_moves(c, "prepare", "check", FALSE)

\* ... then sleep, unless there is work or a request to stop ...
worker_check(c) ==
    IF ~cwq[c].stop /\ cwq[c].worklist = <<>>
    THEN worker_moves(c, "check", "sleep", cwq[c].awake)
    ELSE worker_moves(c, "check", "entry", TRUE)

worker_wakes(c) == cwq[c].awake /\ worker_moves(c, "sleep", "entry", TRUE)

\* ... and exit if asked to.
worker_exits(c) == cwq[c].stop /\ worker_moves(c, "entry", "exited", TRUE)

\* The callback o of the history when the worker of c takes the item x: the one
\* of x begins to run, and one that has not returned has flushed by hand.
Taken(c, x, o) == CASE o = <<c, x, "queued">>        -> <<c, x, "run">>
                    [] o[1] = c /\ o[3] = "run"      -> <<c, o[2], "byhand">>
                    [] OTHER                         -> o

\* The loop condition of run_workqueue() under cwq->lock, inside the frames fs
\* of the invocations it is nested in: take the first item, or return.
run_next(c, fs) ==
    /\ IF cwq[c].worklist # <<>>
       THEN LET x == Head(cwq[c].worklist)
            IN  /\ cwq' = [cwq EXCEPT ![c].worklist = Tail(@), ![c].current_work = x,
                                      ![c].frames = Append(fs, [item |-> x, at |-> "clear"]),
                                      ![c].thread = "busy"]
                /\ owed' = [t \in Clients |-> {Taken(c, x, o) : o \in owed[t]}]
       ELSE /\ cwq' = [cwq EXCEPT ![c].current_work = NULL, ![c].frames = fs,
                                  ![c].thread = IF fs = <<>> THEN "prepare" ELSE "busy"]
            /\ UNCHANGED owed
    /\ UNCHANGED <<work, call, done, hot>>

run_workqueue(c) == cwq[c].thread = "entry" /\ ~cwq[c].stop /\ run_next(c, <<>>)

Front(fs) == SubSeq(fs, 1, Len(fs) - 1)

\* The worker of c is in its innermost run_workqueue() at the place given.
RunsAt(c, at) == cwq[c].frames # <<>> /\ cwq[c].frames[Len(cwq[c].frames)].at = at
Item(c) == cwq[c].frames[Len(cwq[c].frames)].item
SetTop(c, at) == cwq' = [cwq EXCEPT ![c].frames[Len(cwq[c].frames)].at = at]

\* work_clear_pending() before the callback, so that it can queue itself again.
run_clear(c) ==
    /\ RunsAt(c, "clear")
    /\ work' = IF Item(c) \in Works THEN [work EXCEPT ![Item(c)].pending = FALSE] ELSE work
    /\ SetTop(c, "run")
    /\ UNCHANGED <<call, done, hot, owed>>

\* The callback returns; that of a barrier is complete(&barr->done).  The work
\* may be the item of an outer frame too, whose callback has not returned.
run_function(c) ==
    /\ \E at \in {"run", "byhand"} :
          /\ RunsAt(c, at)
          /\ LET outer == {<<c, f.item, f.at>> : f \in Members(Front(cwq[c].frames))}
             IN  owed' = [t \in Clients |-> owed[t] \ ({<<c, Item(c), at>>} \ outer)]
    /\ SetTop(c, "ret")
    /\ done' = done \cup ({Item(c)} \cap Waits)
    /\ UNCHANGED <<work, call, hot>>

\* Under cwq->lock again: current_work = NULL, and the next item.
run_return(c) ==
    RunsAt(c, "ret") /\ run_next(c, Front(cwq[c].frames))

\* A callback flushes the workqueue of its own worker, on a workqueue with
\* only that one: flush_cpu_workqueue() calls run_workqueue() by hand, which
\* leaves everything as it is if the list is empty.
flush_own_workqueue(c) ==
    /\ hot.single /\ Len(cwq[c].frames) < MaxDepth
    /\ RunsAt(c, "run") \/ RunsAt(c, "byhand")
    /\ Item(c) \in Works /\ cwq[c].worklist # <<>>
    /\ run_next(c, [cwq[c].frames EXCEPT ![Len(cwq[c].frames)].at = "byhand"])

\* A callback queues its own work again, in the two steps of queue_work(), on
\* the CPU of the worker as long as there is such a CPU.
run_requeue(c) ==
    /\ "requeue" \in Ops
    /\ \/ RunsAt(c, "run") /\ SetTop(c, "requeue")
       \/ RunsAt(c, "byhand") /\ SetTop(c, "byhand_requeue")
    /\ Item(c) \in Works /\ ~work[Item(c)].pending
    /\ work' = [work EXCEPT ![Item(c)].pending = TRUE]
    /\ UNCHANGED <<call, done, hot, owed>>

run_requeue_insert(c) ==
    /\ RunsAt(c, "requeue") \/ RunsAt(c, "byhand_requeue")
    /\ \E d \in {e \in hot.online : e = c \/ c \notin hot.online \/ hot.single} :
          LET n == wq_per_cpu(d)
          IN  /\ cwq' = [cwq EXCEPT ![c].frames[Len(cwq[c].frames)].at =
                                        IF @ = "requeue" THEN "run" ELSE "byhand",
                                    ![n].worklist = list_add_tail(@, Item(c)),
                                    ![n].awake = @ \/ cwq[n].thread \in {"check", "sleep"}]
              /\ work' = [work EXCEPT ![Item(c)].cwq = n]
    /\ UNCHANGED <<call, done, hot, owed>>

------------------------------------------------------------------------------
\* The CPUs on which a callback of w is running, or about to, not counting one
\* that has flushed its own workqueue.
RunningAt(w, places) == {c \in CPUs : \E f \in Members(cwq[c].frames) :
                            f.item = w /\ f.at \in places}
Running(w) == RunningAt(w, {"clear", "run", "requeue"})

\* The callbacks of the works ws that are queued or running.
Instances(ws) ==
    {x \in CPUs \X ws \X {"queued", "run", "byhand"} :
        CASE x[3] = "queued" -> x[2] \in Members(cwq[x[1]].worklist)
          [] x[3] = "run"    -> x[1] \in Running(x[2])
          [] x[3] = "byhand" -> x[1] \in RunningAt(x[2], ByHand)}

flush_workqueue(t) ==
    /\ "flush" \in Ops /\ NewCall(t)
    /\ Become(t, [Idle EXCEPT !.pc = "flush", !.cpu = 1])
    /\ owed' = [owed EXCEPT ![t] = Instances(Works)]
    /\ UNCHANGED <<work, cwq, done, hot>>

\* Faulty variant: an empty list is taken for an idle worker.
flush_cpu_workqueue_listed(t) ==
    /\ call[t].pc = "flush" /\ call[t].cpu \in wq_cpu_map
    /\ LET c == call[t].cpu IN
       IF cwq[c].worklist # <<>>
       THEN insert_wq_barrier(c, t, list_add_tail(cwq[c].worklist, t)) /\ Step(t, "flush_wait")
       ELSE call' = [call EXCEPT ![t].cpu = c + 1] /\ UNCHANGED <<work, cwq, done>>
    /\ UNCHANGED <<hot, owed>>

\* Queue a barrier behind everything that is on the list, unless there is
\* nothing to wait for.
flush_cpu_workqueue(t) ==
    /\ call[t].pc = "flush" /\ call[t].cpu \in wq_cpu_map
    /\ LET c == call[t].cpu IN
       IF Active(c)
       THEN insert_wq_barrier(c, t, list_add_tail(cwq[c].worklist, t)) /\ Step(t, "flush_wait")
       ELSE call' = [call EXCEPT ![t].cpu = c + 1] /\ UNCHANGED <<work, cwq, done>>
    /\ UNCHANGED <<hot, owed>>

\* A CPU that is not in cpu_populated_map is passed over, and past the last
\* one the flush returns.
flush_skip(t) ==
    /\ call[t].pc = "flush" /\ call[t].cpu \notin wq_cpu_map
    /\ IF call[t].cpu <= NCPU
       THEN call' = [call EXCEPT ![t].cpu = @ + 1] /\ UNCHANGED owed
       ELSE Become(t, Idle) /\ owed' = [owed EXCEPT ![t] = {}]
    /\ UNCHANGED <<work, cwq, done, hot>>

\* Faulty variant: the CPU is flushed until it is idle.
flush_waited_again(t) ==
    /\ call[t].pc = "flush_wait" /\ t \in done
    /\ Step(t, "flush")
    /\ UNCHANGED <<work, cwq, done, hot, owed>>

flush_waited(t) ==
    /\ call[t].pc = "flush_wait" /\ t \in done
    /\ call' = [call EXCEPT ![t].pc = "flush", ![t].cpu = @ + 1]
    /\ UNCHANGED <<work, cwq, done, hot, owed>>

\* flush_work(): get_wq_data() without a lock ...
flush_work(t, w) ==
    /\ "flush_work" \in Ops /\ NewCall(t) /\ work[w].cwq # 0
    /\ Become(t, [Idle EXCEPT !.pc = "fw_lock", !.w = w, !.cpu = work[w].cwq])
    /\ owed' = [owed EXCEPT ![t] = Instances({w})]
    /\ UNCHANGED <<work, cwq, done, hot>>

\* ... and under the lock of that cwq: a barrier right behind the work, or at
\* the head if the work is running, or nothing.  If the work was queued on
\* another cwq meanwhile (cpu becomes 0) the call does not wait.
flush_work_lock(t) ==
    /\ call[t].pc = "fw_lock"
    /\ LET c == call[t].cpu
           w == call[t].w
           here == IF list_empty(w) THEN cwq[c].current_work = w ELSE work[w].cwq = c
       IN  \/ /\ here
              /\ insert_wq_barrier(c, t, IF list_empty(w) THEN <<t>> \o cwq[c].worklist
                                                          ELSE Behind(c, t, w))
              /\ Step(t, "fw_wait")
           \/ /\ ~here
              /\ call' = [call EXCEPT ![t].pc = "fw_ret",
                                      ![t].cpu = IF list_empty(w) THEN c ELSE 0]
              /\ UNCHANGED <<work, cwq, done>>
    /\ UNCHANGED <<hot, owed>>

flush_work_waited(t) ==
    /\ call[t].pc = "fw_wait" /\ t \in done
    /\ Step(t, "fw_ret")
    /\ UNCHANGED <<work, cwq, done, hot, owed>>

flush_work_return(t) ==
    /\ call[t].pc = "fw_ret"
    /\ Become(t, Idle)
    /\ owed' = [owed EXCEPT ![t] = {}]
    /\ UNCHANGED <<work, cwq, done, hot>>

------------------------------------------------------------------------------
\* cancel_work_sync() and cancel_delayed_work_sync().
cancel_work_sync(t, w, timed) ==
    /\ (IF timed THEN "cancel_delayed" ELSE "cancel") \in Ops
    /\ NewCall(t)
    /\ Become(t, [Idle EXCEPT !.pc = IF timed THEN "c_timer" ELSE "c_grab",
                              !.w = w, !.timed = timed])
    /\ UNCHANGED <<work, cwq, done, hot, owed>>

\* __cancel_work_timer(): del_timer() of a pending timer makes the caller the
\* owner.
cancel_del_timer(t) ==
    /\ call[t].pc = "c_timer"
    /\ IF work[call[t].w].timer = "armed"
       THEN /\ work' = [work EXCEPT ![call[t].w].timer = "none"]
            /\ call' = [call EXCEPT ![t].pc = "c_wait", ![t].got = TRUE]
       ELSE Step(t, "c_grab") /\ UNCHANGED work
    /\ UNCHANGED <<cwq, done, hot, owed>>

\* try_to_grab_pending(): test_and_set_bit() ...
grab_pending(t) ==
    /\ call[t].pc = "c_grab"
    /\ IF ~work[call[t].w].pending
       THEN /\ work' = [work EXCEPT ![call[t].w].pending = TRUE]
            /\ call' = [call EXCEPT ![t].pc = "c_wait", ![t].got = TRUE]
       ELSE Step(t, "c_read") /\ UNCHANGED work
    /\ UNCHANGED <<cwq, done, hot, owed>>

\* ... get_wq_data() ...
grab_read(t) ==
    /\ call[t].pc = "c_read"
    /\ LET c == work[call[t].w].cwq
       IN  call' = [call EXCEPT ![t].cpu = c, ![t].pc = IF c = 0 THEN "c_wait" ELSE "c_lock"]
    /\ UNCHANGED <<work, cwq, done, hot, owed>>

\* ... and under the lock of that cwq steal the work if it is queued there.
grab_lock(t) ==
    /\ call[t].pc = "c_lock"
    /\ LET c == call[t].cpu
           w == call[t].w
       IN  IF ~list_empty(w) /\ work[w].cwq = c
           THEN /\ cwq' = [cwq EXCEPT ![c].worklist = list_del(@, w)]
                /\ call' = [call EXCEPT ![t].pc = "c_wait", ![t].got = TRUE]
                /\ owed' = [s \in Clients |-> owed[s] \ {<<c, w, "queued">>}]
           ELSE Step(t, "c_wait") /\ UNCHANGED <<cwq, owed>>
    /\ UNCHANGED <<work, done, hot>>

\* Where wait_on_work() goes with CPU c next; past the last one the cancel
\* starts over if the bit was not grabbed.
wait_on_next(t, c) ==
    IF c <= NCPU THEN "c_cpu"
    ELSE IF call[t].got THEN "c_clear"
    ELSE IF call[t].timed THEN "c_timer" ELSE "c_grab"

\* Faulty variant: only CPUs from the last one of the work on are waited for.
wait_on_work_last(t) ==
    /\ call[t].pc = "c_wait"
    /\ LET c == IF work[call[t].w].cwq = 0 THEN NCPU + 1 ELSE work[call[t].w].cwq
       IN  call' = [call EXCEPT ![t].pc = wait_on_next(t, c), ![t].cpu = c]
    /\ UNCHANGED <<work, cwq, done, hot, owed>>

\* wait_on_work(): a work that was never queued is nowhere.
wait_on_work(t) ==
    /\ call[t].pc = "c_wait"
    /\ LET c == IF work[call[t].w].cwq = 0 THEN NCPU + 1 ELSE 1
       IN  call' = [call EXCEPT ![t].pc = wait_on_next(t, c), ![t].cpu = c]
    /\ UNCHANGED <<work, cwq, done, hot, owed>>

\* wait_on_cpu_work() for the CPUs of cpu_populated_map, one after the other.
wait_on_cpu_work(t) ==
    /\ call[t].pc = "c_cpu"
    /\ LET c == call[t].cpu IN
       IF c \in wq_cpu_map /\ cwq[c].current_work = call[t].w
       THEN insert_wq_barrier(c, t, <<t>> \o cwq[c].worklist) /\ Step(t, "c_cpu_wait")
       ELSE /\ call' = [call EXCEPT ![t].pc = wait_on_next(t, c + 1), ![t].cpu = c + 1]
            /\ UNCHANGED <<work, cwq, done>>
    /\ UNCHANGED <<hot, owed>>

wait_on_cpu_waited(t) ==
    /\ call[t].pc = "c_cpu_wait" /\ t \in done
    /\ call' = [call EXCEPT ![t].pc = wait_on_next(t, call[t].cpu + 1), ![t].cpu = @ + 1]
    /\ UNCHANGED <<work, cwq, done, hot, owed>>

\* work_clear_pending() at the end of all the cancel functions.
cancel_clear(t) ==
    /\ call[t].pc \in {"c_clear", "cd_clear"}
    /\ work' = [work EXCEPT ![call[t].w].pending = FALSE]
    /\ Become(t, Idle)
    /\ UNCHANGED <<cwq, done, hot, owed>>

\* cancel_delayed_work(): del_timer_sync() and, if it was armed, clear the bit;
\* if it was not, nothing changes.
cancel_delayed_work(t, w) ==
    /\ "cancel_delayed" \in Ops /\ NewCall(t)
    /\ work[w].timer = "armed"
    /\ work' = [work EXCEPT ![w].timer = "none"]
    /\ Become(t, [Idle EXCEPT !.pc = "cd_clear", !.w = w, !.got = TRUE])
    /\ UNCHANGED <<cwq, done, hot, owed>>

------------------------------------------------------------------------------
\* The hotplug task goes from one place to another.
HotStep(at) == hot' = [hot EXCEPT !.at = at]
HotIdle     == [hot EXCEPT !.at = "idle", !.cpu = 0]

\* A CPU goes down.  stop_machine() sees to it that nobody is inside a section
\* that keeps it there, such as queue_work().
cpu_down(c) ==
    /\ hot.at = "idle" /\ ~hot.single
    /\ c \in HotCPUs \cap hot.online /\ hot.online # {c}
    /\ \A t \in Clients : ~(call[t].pc = "insert" /\ call[t].cpu = c)
    /\ hot' = [hot EXCEPT !.online = @ \ {c}, !.at = "flush", !.cpu = c]
    /\ UNCHANGED <<work, cwq, call, done, owed>>

\* destroy_workqueue(): all users are gone, and every worker is cleaned up.
destroy_workqueue ==
    /\ "destroy" \in Ops /\ hot.at = "idle"
    /\ \A t \in Clients : call[t].pc = "idle"
    /\ \A w \in Works : work[w].timer = "none"
    /\ hot' = [hot EXCEPT !.at = "flush", !.cpu = 1, !.todo = wq_cpu_map \cup {1}]
    /\ UNCHANGED <<work, cwq, call, done, owed>>

\* Faulty variant: the worker is stopped without a flush.
cleanup_flush_none ==
    /\ hot.at = "flush" /\ cwq[hot.cpu].thread # "none"
    /\ HotStep("stop")
    /\ UNCHANGED <<work, cwq, call, done, owed>>

\* cleanup_workqueue_thread(): flush_cpu_workqueue() ...
cleanup_flush ==
    /\ hot.at = "flush" /\ cwq[hot.cpu].thread # "none"
    /\ IF Active(hot.cpu)
       THEN /\ insert_wq_barrier(hot.cpu, Admin, list_add_tail(cwq[hot.cpu].worklist, Admin))
            /\ HotStep("flush_wait")
       ELSE HotStep("stop") /\ UNCHANGED <<work, cwq, done>>
    /\ UNCHANGED <<call, owed>>

cleanup_waited ==
    /\ hot.at = "flush_wait" /\ Admin \in done
    /\ HotStep("stop")
    /\ UNCHANGED <<work, cwq, call, done, owed>>

\* ... kthread_stop() ...
cleanup_stop ==
    /\ hot.at = "stop"
    /\ cwq' = [cwq EXCEPT ![hot.cpu].stop = TRUE, ![hot.cpu].awake = TRUE]
    /\ HotStep("stop_wait")
    /\ UNCHANGED <<work, call, done, owed>>

\* Where the task goes when the CPU has no worker any more: after hotplug the
\* CPU is unpopulated, destroy_workqueue() goes on to the next one.
CleanupNext ==
    LET left == hot.todo \ {hot.cpu}
    IN  IF hot.todo = {} THEN [HotIdle EXCEPT !.populated = @ \ {hot.cpu}]
        ELSE IF left = {} THEN [hot EXCEPT !.at = "destroyed", !.cpu = 0, !.todo = {}]
        ELSE [hot EXCEPT !.at = "flush", !.todo = left,
                         !.cpu = CHOOSE c \in left : \A d \in left : c <= d]

\* ... which returns when the worker has exited.
cleanup_exit ==
    /\ hot.at = "stop_wait" /\ cwq[hot.cpu].thread = "exited"
    /\ cwq' = [cwq EXCEPT ![hot.cpu].thread = "none", ![hot.cpu].stop = FALSE]
    /\ hot' = CleanupNext
    /\ UNCHANGED <<work, call, done, owed>>

cleanup_skip ==
    /\ hot.at = "flush" /\ cwq[hot.cpu].thread = "none"
    /\ hot' = CleanupNext
    /\ UNCHANGED <<work, cwq, call, done, owed>>

\* CPU_UP_PREPARE, then the CPU is online, then CPU_ONLINE starts the worker;
\* or the CPU does not come up and CPU_UP_CANCELED cleans up.
cpu_up_prepare(c) ==
    /\ hot.at = "idle" /\ c \in HotCPUs \ hot.online
    /\ cwq' = [cwq EXCEPT ![c].thread = "created"]
    /\ hot' = [hot EXCEPT !.populated = @ \cup {c}, !.at = "prepared", !.cpu = c]
    /\ UNCHANGED <<work, call, done, owed>>

\* The thread cannot be created: undone at once, as for CPU_UP_CANCELED.
cpu_up_fails(c) ==
    /\ hot.at = "idle" /\ c \in HotCPUs \ hot.online
    /\ hot' = [hot EXCEPT !.populated = @ \cup {c}, !.at = "flush", !.cpu = c]
    /\ UNCHANGED <<work, cwq, call, done, owed>>

cpu_up ==
    /\ hot.at = "prepared"
    /\ hot' = [hot EXCEPT !.online = @ \cup {hot.cpu}, !.at = "online"]
    /\ UNCHANGED <<work, cwq, call, done, owed>>

start_workqueue_thread(from, to) ==
    /\ hot.at = from
    /\ cwq' = [cwq EXCEPT ![hot.cpu].thread = "prepare", ![hot.cpu].awake = TRUE]
    /\ hot' = to
    /\ UNCHANGED <<work, call, done, owed>>

cpu_online      == start_workqueue_thread("online", HotIdle)
cpu_up_canceled == start_workqueue_thread("prepared", [hot EXCEPT !.at = "flush"])

------------------------------------------------------------------------------
ClientCall(t) ==
    \/ \E w \in Works, c \in CPUs : queue_work(t, w, c) \/ queue_delayed_work(t, w, c)
    \/ flush_workqueue(t)
    \/ \E w \in Works : \/ flush_work(t, w) \/ cancel_delayed_work(t, w)
                        \/ \E timed \in BOOLEAN : cancel_work_sync(t, w, timed)

ClientStep(t) == \/ queue_insert(t) \/ arm_timer(t)
                 \/ flush_cpu_workqueue(t) \/ flush_skip(t) \/ flush_waited(t)
                 \/ flush_work_lock(t) \/ flush_work_waited(t) \/ flush_work_return(t)
                 \/ cancel_del_timer(t) \/ grab_pending(t) \/ grab_read(t) \/ grab_lock(t)
                 \/ wait_on_work(t) \/ wait_on_cpu_work(t) \/ wait_on_cpu_waited(t)
                 \/ cancel_clear(t)

\* New work for which nobody outside is responsible.
CallbackCall(c) == run_requeue(c) \/ flush_own_workqueue(c)

WorkerStep(c) == \/ worker_prepare(c) \/ worker_check(c) \/ worker_wakes(c)
                 \/ worker_exits(c) \/ run_workqueue(c)
                 \/ run_clear(c) \/ run_function(c) \/ run_return(c)
                 \/ run_requeue_insert(c)

TimerStep(w) == timer_expires(w) \/ \E c \in CPUs : delayed_work_timer_fn(w, c)

HotCall == destroy_workqueue \/ \E c \in CPUs : cpu_down(c) \/ cpu_up_prepare(c) \/ cpu_up_fails(c)

AdminStep == \/ cleanup_flush \/ cleanup_waited \/ cleanup_stop \/ cleanup_exit
             \/ cleanup_skip \/ cpu_up \/ cpu_online \/ cpu_up_canceled

\* The workqueue is gone, and nothing is left to do.
Finished == hot.at = "destroyed" /\ UNCHANGED vars

\* The steps of calls that were made already.
Settle == \/ \E t \in Clients : ClientStep(t)
          \/ \E c \in CPUs : WorkerStep(c)
          \/ \E w \in Works : TimerStep(w)
          \/ AdminStep

Next == \/ Settle
        \/ \E t \in Clients : ClientCall(t)
        \/ \E c \in CPUs : CallbackCall(c)
        \/ HotCall \/ Finished

Spec == Init /\ [][Next]_vars

(***************************************************************************)
(* Fairness: tasks inside a call, workers and the hotplug task are given   *)
(* the CPU, timers expire, and a callback returns, however often it queues *)
(* its own work before.                                                    *)
(***************************************************************************)
FairSpec == /\ Spec
            /\ \A t \in Clients : WF_vars(ClientStep(t))
            /\ \A c \in CPUs : WF_vars(WorkerStep(c)) /\ SF_vars(run_function(c))
            /\ \A w \in Works : WF_vars(TimerStep(w))
            /\ WF_vars(AdminStep)

------------------------------------------------------------------------------
\* Everything that owns the PENDING bit of w: a place on a list, a timer, a
\* call that is about to queue it, a worker about to clear it, a canceller.
PendingOwners(w) ==
    {<<"list", c>> : c \in {d \in CPUs : w \in Members(cwq[d].worklist)}}
    \cup {<<"timer", s>> : s \in {work[w].timer} \ {"none"}}
    \cup {<<"call", t>> : t \in {s \in Clients :
             call[s].w = w /\ (call[s].pc \in {"insert", "arm"} \/ call[s].got)}}
    \cup {<<"worker", c>> : c \in RunningAt(w, {"clear", "requeue", "byhand_requeue"})}

\* The PENDING bit is a lock on the work: set if and only if exactly one place
\* owns it, however queueing, timers, workers and cancellers race for it.
PendingHasOneOwner == \A w \in Works :
    Cardinality(PendingOwners(w)) = IF work[w].pending THEN 1 ELSE 0

\* BUG_ON(get_wq_data(work) != cwq) in run_workqueue() is never hit: a work is
\* run by the worker of the CPU it was last queued on.
RunsWhereQueued == \A c \in CPUs :
    RunsAt(c, "clear") /\ Item(c) \in Works => work[Item(c)].cwq = c

\* Lists, workers and the works' own record of their CPU agree.
Consistent == TypeOK /\ RunsWhereQueued

\* When a canceller lets go of the work, the work is on no list, its timer is
\* not pending, nobody is queueing it, and its callback runs on no CPU, even if
\* the callback keeps queueing it again.  A callback that has flushed its own
\* workqueue is not covered.
CancelledIsQuiet == \A t \in Clients : call[t].pc = "c_clear" =>
    PendingOwners(call[t].w) = {<<"call", t>>} /\ Running(call[t].w) = {}

\* flush_workqueue() goes past a CPU only when every callback that was queued
\* there or running there when the flush was called has returned, or has
\* flushed its own workqueue.  The latter runs the barrier by hand, or has left
\* current_work behind as NULL, so that the flush finds nothing to wait for.
FlushCovers == \A t \in Clients : call[t].pc \in {"flush", "flush_wait"} =>
    \A o \in owed[t] : o[1] >= call[t].cpu \/ o[3] = "byhand"

\* flush_work() returns only when the callback is over on the CPU on which the
\* work was last queued, with the same exception.
FlushWorkCovers == \A t \in Clients : call[t].pc = "fw_ret" =>
    \A o \in owed[t] : o[1] # call[t].cpu \/ o[3] = "byhand"

\* Neither kind of flush goes past a callback that it has to wait for, unless
\* that callback flushes its own workqueue.
FlushesCover == FlushCovers /\ FlushWorkCovers

\* A barrier lives on the stack of a task: while it is queued, or a worker has
\* yet to complete it, that task waits.
BarrierAlive == \A t \in Waits : ~list_empty(t) \/ Running(t) # {} =>
    /\ t \notin done
    /\ IF t = Admin THEN hot.at = "flush_wait"
                    ELSE call[t].pc \in {"flush_wait", "fw_wait", "c_cpu_wait"}

\* A worker that was stopped, by CPU hotplug or by destroy_workqueue(), left
\* nothing behind that nobody would run, and no work with its PENDING bit set
\* and no owner, which could never be queued again.
NothingStranded ==
    /\ \A c \in CPUs : cwq[c].thread \in {"exited", "none"} =>
          cwq[c].worklist = <<>> /\ cwq[c].frames = <<>>
    /\ PendingHasOneOwner

\* A flush returns although others keep queueing works: "we are not livelocked
\* by new incoming ones".
FlushReturns == \A t \in Clients :
    call[t].pc \in {"flush", "flush_wait", "fw_lock", "fw_wait"} ~> call[t].pc = "idle"

\* Once no new calls come in, every call returns and every work is done.
SettledWhenQuiet == <>[][Settle]_vars =>
    <>[](/\ \A t \in Clients : call[t].pc = "idle"
         /\ \A w \in Works : ~work[w].pending
         /\ hot.at \in {"idle", "destroyed"})

\* What the comment on cancel_work_sync() says: "If the work's callback appears
\* to be running, cancel_work_sync() will block until it has completed."
CancelBlocks == \A t \in Clients : call[t].pc = "c_clear" =>
    Running(call[t].w) \cup RunningAt(call[t].w, ByHand) = {}

\* What the comment on flush_workqueue() says: "We sleep until all works which
\* were queued on entry have been handled".  It fails like CancelBlocks, if
\* "flush" is added to the Ops of its run.
FlushBlocks == \A t \in Clients : call[t].pc \in {"flush", "flush_wait"} =>
    \A o \in owed[t] : o[1] >= call[t].cpu
==============================================================================
