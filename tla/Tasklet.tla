------------------------------- MODULE Tasklet -------------------------------
(***************************************************************************)
(* Tasklets on the softirqs of kernel/softirq.c, as built with CONFIG_SMP: *)
(* scheduling, disabling and killing tasklets, __do_softirq() with its     *)
(* restarts, the ksoftirqd thread of every CPU, and CPU hotplug.           *)
(*                                                                         *)
(* Tasklets are used by interrupt handlers and by tasks, some of the time  *)
(* in sections with softirqs off.  On a CPU an interrupt suspends the      *)
(* softirqs, softirqs suspend all tasks, and a section with softirqs off   *)
(* keeps them out.  Sections with interrupts off and atomic operations on  *)
(* a tasklet are one step each.  Code that cannot leave its CPU schedules  *)
(* a tasklet in one step: nobody else looks at the lists of that CPU       *)
(* between test_and_set_bit() and the insertion.                           *)
(***************************************************************************)
EXTENDS Naturals, Sequences, FiniteSets, KList

CONSTANTS NCPU,         \* CPUs are numbered 1 .. NCPU
          Tasklets,     \* the tasklet_structs
          Tasks,        \* tasks that use them
          Irqs,         \* interrupt handlers that use them
          NULL,         \* no tasklet
          HotCPUs,      \* CPUs that may be unplugged
          PinCPUs,      \* bound: CPUs that are interrupted, or where softirqs are off
          Softirqs,     \* the softirqs of tasklets that are used, by number
          MaxRestart    \* MAX_SOFTIRQ_RESTART

ASSUME TaskletAssumption ==
    /\ NCPU \in Nat \ {0} /\ HotCPUs \subseteq 1..NCPU /\ PinCPUs \subseteq 1..NCPU
    /\ Softirqs \subseteq {0, 5}      \* HI_SOFTIRQ, TASKLET_SOFTIRQ
    /\ MaxRestart \in Nat \ {0}
    /\ NULL \notin Tasklets /\ Tasks \cap Irqs = {}
    /\ IsFiniteSet(Tasklets) /\ IsFiniteSet(Tasks) /\ IsFiniteSet(Irqs)

CPUs   == 1..NCPU
Actors == Tasks \cup Irqs

VARIABLES sched,     \* tasklets with TASKLET_STATE_SCHED set
          runbit,    \* tasklets with TASKLET_STATE_RUN set
          count,     \* t->count: how many times disabled
          vec,       \* tasklet_vec and tasklet_hi_vec of each CPU
          pend,      \* local_softirq_pending() of each CPU
          soft,      \* what __do_softirq() of each CPU is doing
          ksd,       \* the ksoftirqd thread of each CPU
          call,      \* what each task and interrupt handler is doing
          hot        \* the online CPUs and the hotplug task

vars == <<sched, runbit, count, vec, pend, soft, ksd, call, hot>>

\* __do_softirq() with the softirqs it has still to do in this round and the
\* rounds it may still start, and tasklet_action() on its list at tasklet cur.
SoftRec == [at : {"none", "list", "locked", "clear", "func", "drop", "requeue"},
            todo : SUBSET Softirqs, restart : 0..MaxRestart, nr : Softirqs \cup {99},
            list : Seq(Tasklets), cur : Tasklets \cup {NULL}]
NoSoft  == [at |-> "none", todo |-> {}, restart |-> 0, nr |-> 99, list |-> <<>>, cur |-> NULL]

\* running: its state is TASK_RUNNING; stop: kthread_should_stop().
KsdRec == [at : {"new", "check", "sched", "loop", "set", "die", "gone"},
           running : BOOLEAN, stop : BOOLEAN]

Calls == [ctx : {"none", "bh", "irq"}, cpu : 0..NCPU, t : Tasklets \cup {NULL}, nr : Softirqs \cup {99},
          pc : {"idle", "insert", "dis_wait", "disabled", "kill", "kill_wait", "kill_clear"}]
Idle  == [ctx |-> "none", cpu |-> 0, t |-> NULL, nr |-> 99, pc |-> "idle"]

HotRec == [online : SUBSET CPUs, cpu : 0..NCPU,
           at : {"idle", "dead", "stopping", "prepared", "online"}]

TypeOK == /\ sched \subseteq Tasklets /\ runbit \subseteq Tasklets
          /\ count \in [Tasklets -> 0..Cardinality(Actors)]
          /\ vec \in [CPUs -> [Softirqs -> Seq(Tasklets)]]
          /\ pend \in [CPUs -> SUBSET Softirqs]
          /\ soft \in [CPUs -> SoftRec]
          /\ ksd \in [CPUs -> KsdRec]
          /\ call \in [Actors -> Calls]
          /\ hot \in HotRec

Init == /\ sched = {} /\ runbit = {}
        /\ count = [t \in Tasklets |-> 0]
        /\ vec = [c \in CPUs |-> [nr \in Softirqs |-> <<>>]]
        /\ pend = [c \in CPUs |-> {}]
        /\ soft = [c \in CPUs |-> NoSoft]
        /\ ksd = [c \in CPUs |-> [at |-> "check", running |-> FALSE, stop |-> FALSE]]
        /\ call = [a \in Actors |-> Idle]
        /\ hot = [online |-> CPUs, cpu |-> 0, at |-> "idle"]

------------------------------------------------------------------------------
\* What is on the CPU c: an interrupt, a section with softirqs off, softirqs.
On(c, ctx)      == \E a \in Actors : call[a].ctx = ctx /\ call[a].cpu = c
in_interrupt(c) == On(c, "irq") \/ On(c, "bh") \/ soft[c].at # "none"

\* A task can run on c.
Free(c) == c \in hot.online /\ ~in_interrupt(c)

\* A section with softirqs off is suspended by an interrupt; a task that is
\* on no particular CPU may run on any.
CanRun(a) == call[a].ctx = "bh" => ~On(call[a].cpu, "irq")

Become(a, pc, t) == call' = [call EXCEPT ![a].pc = pc, ![a].t = t]
Goto(a, pc)      == call' = [call EXCEPT ![a].pc = pc]
Back(a)          == [call EXCEPT ![a].pc = "idle", ![a].t = NULL, ![a].nr = 99]

wakeup_softirqd(c) == [ksd EXCEPT ![c].running = TRUE]

\* __tasklet_schedule(), __tasklet_hi_schedule() on CPU c: at the end of the
\* list, and raise_softirq_irqoff().
add_and_raise(c, nr, t) ==
    /\ vec' = [vec EXCEPT ![c][nr] = list_add_tail(@, t)]
    /\ pend' = [pend EXCEPT ![c] = @ \cup {nr}]

\* __do_softirq() up to local_irq_enable(), if softirqs are pending.
Softirq(c) ==
    IF pend[c] # {}
    THEN /\ soft' = [soft EXCEPT ![c] = [NoSoft EXCEPT !.at = "list", !.todo = pend[c],
                                                       !.restart = MaxRestart]]
         /\ pend' = [pend EXCEPT ![c] = {}]
    ELSE UNCHANGED <<soft, pend>>

------------------------------------------------------------------------------
irq_enter(a, c) ==
    /\ a \in Irqs /\ call[a] = Idle /\ c \in PinCPUs \cap hot.online /\ ~On(c, "irq")
    /\ call' = [call EXCEPT ![a].ctx = "irq", ![a].cpu = c]
    /\ UNCHANGED <<sched, runbit, count, vec, pend, soft, ksd, hot>>

local_bh_disable(a, c) ==
    /\ a \in Tasks /\ call[a] = Idle /\ c \in PinCPUs /\ Free(c)
    /\ call' = [call EXCEPT ![a].ctx = "bh", ![a].cpu = c]
    /\ UNCHANGED <<sched, runbit, count, vec, pend, soft, ksd, hot>>

\* irq_exit() and local_bh_enable(): softirqs are done now, unless the
\* interrupt suspended some or a section that keeps them out.
irq_exit(a) ==
    LET c == call[a].cpu IN
    /\ call[a].ctx = "irq" /\ call[a].pc = "idle"
    /\ IF On(c, "bh") \/ soft[c].at # "none" THEN UNCHANGED <<soft, pend>> ELSE Softirq(c)
    /\ call' = [call EXCEPT ![a] = Idle]
    /\ UNCHANGED <<sched, runbit, count, vec, ksd, hot>>

local_bh_enable(a) ==
    /\ call[a].ctx = "bh" /\ call[a].pc = "idle" /\ CanRun(a)
    /\ Softirq(call[a].cpu)
    /\ call' = [call EXCEPT ![a] = Idle]
    /\ UNCHANGED <<sched, runbit, count, vec, ksd, hot>>

\* tasklet_schedule(), tasklet_hi_schedule() in process context:
\* test_and_set_bit(SCHED) ...
tasklet_schedule(a, t, nr) ==
    /\ a \in Tasks /\ call[a] = Idle /\ t \notin sched
    /\ sched' = sched \cup {t}
    /\ call' = [call EXCEPT ![a].pc = "insert", ![a].t = t, ![a].nr = nr]
    /\ UNCHANGED <<runbit, count, vec, pend, soft, ksd, hot>>

\* ... and the rest on the CPU where the task is by now, waking ksoftirqd.
schedule_insert(a, c) ==
    /\ call[a].pc = "insert" /\ Free(c)
    /\ add_and_raise(c, call[a].nr, call[a].t)
    /\ ksd' = wakeup_softirqd(c)
    /\ call' = Back(a)
    /\ UNCHANGED <<sched, runbit, count, soft, hot>>

\* The same in an interrupt or with softirqs off: ksoftirqd is left alone.
tasklet_schedule_pinned(a, t, nr) ==
    /\ call[a].ctx # "none" /\ CanRun(a) /\ t \notin sched
    /\ sched' = sched \cup {t}
    /\ add_and_raise(call[a].cpu, nr, t)
    /\ UNCHANGED <<runbit, count, soft, ksd, call, hot>>

\* tasklet_disable(): tasklet_disable_nosync() ...
tasklet_disable(a, t) ==
    /\ a \in Tasks /\ call[a] = Idle
    /\ count' = [count EXCEPT ![t] = @ + 1]
    /\ Become(a, "dis_wait", t)
    /\ UNCHANGED <<sched, runbit, vec, pend, soft, ksd, hot>>

\* Faulty variant: the function is not waited for.
disable_wait_not(a) ==
    /\ call[a].pc = "dis_wait"
    /\ Goto(a, "disabled")
    /\ UNCHANGED <<sched, runbit, count, vec, pend, soft, ksd, hot>>

\* ... and tasklet_unlock_wait().
disable_wait(a) ==
    /\ call[a].pc = "dis_wait" /\ call[a].t \notin runbit
    /\ Goto(a, "disabled")
    /\ UNCHANGED <<sched, runbit, count, vec, pend, soft, ksd, hot>>

tasklet_enable(a) ==
    /\ call[a].pc = "disabled"
    /\ count' = [count EXCEPT ![call[a].t] = @ - 1]
    /\ call' = Back(a)
    /\ UNCHANGED <<sched, runbit, vec, pend, soft, ksd, hot>>

tasklet_kill(a, t) ==
    /\ a \in Tasks /\ call[a] = Idle
    /\ Become(a, "kill", t)
    /\ UNCHANGED <<sched, runbit, count, vec, pend, soft, ksd, hot>>

\* tasklet_kill(): the SCHED bit is taken so that nobody schedules any more,
\* by testing it again and again until it was clear ...
kill_test_and_set(a) ==
    /\ call[a].pc = "kill" /\ call[a].t \notin sched
    /\ sched' = sched \cup {call[a].t}
    /\ Goto(a, "kill_wait")
    /\ UNCHANGED <<runbit, count, vec, pend, soft, ksd, hot>>

\* Faulty variant: the function is not waited for.
kill_wait_not(a) ==
    /\ call[a].pc = "kill_wait"
    /\ Goto(a, "kill_clear")
    /\ UNCHANGED <<sched, runbit, count, vec, pend, soft, ksd, hot>>

\* ... then the function is waited for ...
kill_wait(a) ==
    /\ call[a].pc = "kill_wait" /\ call[a].t \notin runbit
    /\ Goto(a, "kill_clear")
    /\ UNCHANGED <<sched, runbit, count, vec, pend, soft, ksd, hot>>

\* ... and the bit is given back.
kill_clear(a) ==
    /\ call[a].pc = "kill_clear"
    /\ sched' = sched \ {call[a].t}
    /\ call' = Back(a)
    /\ UNCHANGED <<runbit, count, vec, pend, soft, ksd, hot>>

------------------------------------------------------------------------------
\* Where __do_softirq() on c is, between two softirqs in particular, and goes.
SoftAt(c, at) == soft[c].at = at /\ ~On(c, "irq")
SoftDone(c)   == SoftAt(c, "list") /\ soft[c].list = <<>>
SoftTo(c, at) == soft' = [soft EXCEPT ![c].at = at]

\* The next softirq of this round: tasklet_action() or tasklet_hi_action()
\* takes over the whole list.
softirq_action(c) ==
    /\ SoftDone(c) /\ soft[c].todo # {}
    /\ LET nr == CHOOSE n \in soft[c].todo : \A m \in soft[c].todo : n <= m
       IN  /\ soft' = [soft EXCEPT ![c].todo = @ \ {nr}, ![c].nr = nr,
                                   ![c].list = vec[c][nr]]
           /\ vec' = [vec EXCEPT ![c][nr] = <<>>]
    /\ UNCHANGED <<sched, runbit, count, pend, ksd, call, hot>>

\* Faulty variant: what is left over is left over.
softirq_round_last(c) ==
    /\ SoftDone(c) /\ soft[c].todo = {}
    /\ soft' = [soft EXCEPT ![c] = NoSoft]
    /\ UNCHANGED <<sched, runbit, count, vec, pend, ksd, call, hot>>

\* The end of a round: another one if softirqs were raised meanwhile, but
\* after MAX_SOFTIRQ_RESTART they are left to ksoftirqd.
softirq_round(c) ==
    /\ SoftDone(c) /\ soft[c].todo = {}
    /\ IF pend[c] # {} /\ soft[c].restart > 1
       THEN /\ soft' = [soft EXCEPT ![c].todo = pend[c], ![c].restart = @ - 1, ![c].nr = 99]
            /\ pend' = [pend EXCEPT ![c] = {}]
            /\ UNCHANGED ksd
       ELSE /\ soft' = [soft EXCEPT ![c] = NoSoft]
            /\ ksd' = IF pend[c] # {} THEN wakeup_softirqd(c) ELSE ksd
            /\ UNCHANGED pend
    /\ UNCHANGED <<sched, runbit, count, vec, call, hot>>

\* Faulty variant: the bit is set without looking whether it was set.
tasklet_trylock_blind(c) ==
    /\ SoftAt(c, "list") /\ soft[c].list # <<>>
    /\ LET t == Head(soft[c].list)
       IN  /\ soft' = [soft EXCEPT ![c].at = "locked", ![c].cur = t, ![c].list = Tail(@)]
           /\ runbit' = runbit \cup {t}
    /\ UNCHANGED <<sched, count, vec, pend, ksd, call, hot>>

\* The loop of tasklet_action(): tasklet_trylock() on the next tasklet.
tasklet_trylock(c) ==
    /\ SoftAt(c, "list") /\ soft[c].list # <<>>
    /\ LET t == Head(soft[c].list)
       IN  /\ soft' = [soft EXCEPT ![c].at = IF t \in runbit THEN "requeue" ELSE "locked",
                                   ![c].cur = t, ![c].list = Tail(@)]
           /\ runbit' = runbit \cup {t}
    /\ UNCHANGED <<sched, count, vec, pend, ksd, call, hot>>

\* atomic_read(&t->count)
action_count(c) ==
    /\ SoftAt(c, "locked")
    /\ SoftTo(c, IF count[soft[c].cur] = 0 THEN "clear" ELSE "drop")
    /\ UNCHANGED <<sched, runbit, count, vec, pend, ksd, call, hot>>

\* test_and_clear_bit(SCHED), before the function, which may schedule again.
action_clear(c) ==
    /\ SoftAt(c, "clear")
    /\ sched' = sched \ {soft[c].cur}
    /\ SoftTo(c, "func")
    /\ UNCHANGED <<runbit, count, vec, pend, ksd, call, hot>>

\* The function schedules a tasklet, its own for example.
func_schedule(c, t, nr) ==
    /\ SoftAt(c, "func") /\ t \notin sched
    /\ sched' = sched \cup {t}
    /\ add_and_raise(c, nr, t)
    /\ UNCHANGED <<runbit, count, soft, ksd, call, hot>>

\* The function returns: tasklet_unlock().
func_return(c) ==
    /\ SoftAt(c, "func")
    /\ runbit' = runbit \ {soft[c].cur}
    /\ soft' = [soft EXCEPT ![c].at = "list", ![c].cur = NULL]
    /\ UNCHANGED <<sched, count, vec, pend, ksd, call, hot>>

\* The tasklet is disabled: tasklet_unlock(), and it goes back on the list.
action_unlock(c) ==
    /\ SoftAt(c, "drop")
    /\ runbit' = runbit \ {soft[c].cur}
    /\ SoftTo(c, "requeue")
    /\ UNCHANGED <<sched, count, vec, pend, ksd, call, hot>>

\* Faulty variant: the softirq is not raised for it.
action_requeue_only(c) ==
    /\ SoftAt(c, "requeue")
    /\ vec' = [vec EXCEPT ![c][soft[c].nr] = list_add_tail(@, soft[c].cur)]
    /\ soft' = [soft EXCEPT ![c].at = "list", ![c].cur = NULL]
    /\ UNCHANGED <<sched, runbit, count, pend, ksd, call, hot>>

action_requeue(c) ==
    /\ SoftAt(c, "requeue")
    /\ add_and_raise(c, soft[c].nr, soft[c].cur)
    /\ soft' = [soft EXCEPT ![c].at = "list", ![c].cur = NULL]
    /\ UNCHANGED <<sched, runbit, count, ksd, call, hot>>

------------------------------------------------------------------------------
\* ksoftirqd of c is at the place given and has a CPU to run on: c, or any
\* other one once c is dead.
KsdAt(c, at) == ksd[c].at = at /\ (c \in hot.online => Free(c))
KsdTo(c, at, run) == ksd' = [ksd EXCEPT ![c].at = at, ![c].running = run]

\* The softirqs that ksoftirqd of c may find pending: those of its CPU.
SeenPending(c) == {pend[d] : d \in IF c \in hot.online THEN {c} ELSE hot.online}

\* It is woken for the first time.
ksoftirqd_start(c) ==
    /\ KsdAt(c, "new") /\ ksd[c].running /\ ~ksd[c].stop
    /\ KsdTo(c, "check", FALSE)
    /\ UNCHANGED <<sched, runbit, count, vec, pend, soft, call, hot>>

\* Faulty variant: it sleeps without looking.
ksoftirqd_check_not(c) ==
    /\ KsdAt(c, "check") /\ ~ksd[c].stop
    /\ KsdTo(c, "sched", ksd[c].running)
    /\ UNCHANGED <<sched, runbit, count, vec, pend, soft, call, hot>>

\* Having announced its sleep it goes to schedule() if nothing is pending.
ksoftirqd_check(c) ==
    /\ KsdAt(c, "check") /\ ~ksd[c].stop
    /\ \E seen \in SeenPending(c) :
          IF seen = {} THEN KsdTo(c, "sched", ksd[c].running) ELSE KsdTo(c, "loop", TRUE)
    /\ UNCHANGED <<sched, runbit, count, vec, pend, soft, call, hot>>

ksoftirqd_wakes(c) ==
    /\ KsdAt(c, "sched") /\ ksd[c].running
    /\ KsdTo(c, "loop", TRUE)
    /\ UNCHANGED <<sched, runbit, count, vec, pend, soft, call, hot>>

\* while (local_softirq_pending()): do_softirq(), unless the CPU is dead.
ksoftirqd_loop(c) ==
    /\ KsdAt(c, "loop")
    /\ \E seen \in SeenPending(c) :
          IF seen = {} THEN KsdTo(c, "set", TRUE) /\ UNCHANGED <<soft, pend>>
          ELSE IF c \notin hot.online THEN KsdTo(c, "die", FALSE) /\ UNCHANGED <<soft, pend>>
          ELSE Softirq(c) /\ UNCHANGED ksd
    /\ UNCHANGED <<sched, runbit, count, vec, call, hot>>

ksoftirqd_set(c) ==
    /\ KsdAt(c, "set")
    /\ KsdTo(c, "check", FALSE)
    /\ UNCHANGED <<sched, runbit, count, vec, pend, soft, call, hot>>

\* kthread_should_stop(): before its function, in its loop, or waiting to die.
ksoftirqd_exit(c) ==
    /\ KsdAt(c, "new") \/ KsdAt(c, "check") \/ KsdAt(c, "die")
    /\ ksd[c].stop
    /\ KsdTo(c, "gone", FALSE)
    /\ UNCHANGED <<sched, runbit, count, vec, pend, soft, call, hot>>

------------------------------------------------------------------------------
\* A CPU goes down when nothing on it keeps stop_machine() from running.
cpu_down(c) ==
    /\ hot.at = "idle" /\ c \in HotCPUs /\ hot.online # {c} /\ Free(c)
    /\ hot' = [online |-> hot.online \ {c}, cpu |-> c, at |-> "dead"]
    /\ UNCHANGED <<sched, runbit, count, vec, pend, soft, ksd, call>>

\* CPU_DEAD: kthread_stop() ...
cpu_dead_stop ==
    /\ hot.at = "dead"
    /\ ksd' = [ksd EXCEPT ![hot.cpu].stop = TRUE, ![hot.cpu].running = TRUE]
    /\ hot' = [hot EXCEPT !.at = "stopping"]
    /\ UNCHANGED <<sched, runbit, count, vec, pend, soft, call>>

\* ... and, when the thread is gone, takeover_tasklets(): the lists of the
\* dead CPU are appended to those of the CPU this runs on.
takeover_tasklets(d) ==
    /\ hot.at = "stopping" /\ ksd[hot.cpu].at = "gone" /\ Free(d)
    /\ vec' = [vec EXCEPT ![d] = [nr \in Softirqs |-> @[nr] \o vec[hot.cpu][nr]],
                          ![hot.cpu] = [nr \in Softirqs |-> <<>>]]
    /\ pend' = [pend EXCEPT ![d] = Softirqs]
    /\ ksd' = wakeup_softirqd(d)
    /\ hot' = [hot EXCEPT !.cpu = 0, !.at = "idle"]
    /\ UNCHANGED <<sched, runbit, count, soft, call>>

\* CPU_UP_PREPARE creates the thread; then the CPU is online and CPU_ONLINE
\* wakes the thread, or CPU_UP_CANCELED goes on like CPU_DEAD.
cpu_up_prepare(c) ==
    /\ hot.at = "idle" /\ c \in HotCPUs \ hot.online
    /\ ksd' = [ksd EXCEPT ![c] = [at |-> "new", running |-> FALSE, stop |-> FALSE]]
    /\ hot' = [hot EXCEPT !.cpu = c, !.at = "prepared"]
    /\ UNCHANGED <<sched, runbit, count, vec, pend, soft, call>>

cpu_up ==
    /\ hot.at = "prepared"
    /\ hot' = [hot EXCEPT !.online = @ \cup {hot.cpu}, !.at = "online"]
    /\ UNCHANGED <<sched, runbit, count, vec, pend, soft, ksd, call>>

cpu_online ==
    /\ hot.at = "online"
    /\ ksd' = wakeup_softirqd(hot.cpu)
    /\ hot' = [hot EXCEPT !.cpu = 0, !.at = "idle"]
    /\ UNCHANGED <<sched, runbit, count, vec, pend, soft, call>>

cpu_up_canceled ==
    /\ hot.at = "prepared"
    /\ hot' = [hot EXCEPT !.at = "dead"]
    /\ UNCHANGED <<sched, runbit, count, vec, pend, soft, ksd, call>>

------------------------------------------------------------------------------
ActorCall(a) ==
    \/ \E c \in CPUs : irq_enter(a, c) \/ local_bh_disable(a, c)
    \/ \E t \in Tasklets : \/ \E nr \in Softirqs : \/ tasklet_schedule(a, t, nr)
                                                      \/ tasklet_schedule_pinned(a, t, nr)
                           \/ tasklet_disable(a, t) \/ tasklet_kill(a, t)

ActorStep(a) == \/ irq_exit(a) \/ local_bh_enable(a)
                \/ \E c \in CPUs : schedule_insert(a, c)
                \/ disable_wait(a) \/ tasklet_enable(a)
                \/ kill_test_and_set(a) \/ kill_wait(a) \/ kill_clear(a)

FuncCall(c) == \E t \in Tasklets, nr \in Softirqs : func_schedule(c, t, nr)

SoftStep(c) == \/ softirq_action(c) \/ softirq_round(c)
               \/ tasklet_trylock(c) \/ action_count(c) \/ action_clear(c)
               \/ func_return(c) \/ action_unlock(c) \/ action_requeue(c)

KsdStep(c) == \/ ksoftirqd_start(c) \/ ksoftirqd_check(c) \/ ksoftirqd_wakes(c)
              \/ ksoftirqd_loop(c) \/ ksoftirqd_set(c) \/ ksoftirqd_exit(c)

HotCall == \E c \in CPUs : cpu_down(c) \/ cpu_up_prepare(c)
HotStep == \/ cpu_dead_stop \/ cpu_up \/ cpu_online \/ cpu_up_canceled
           \/ \E d \in CPUs : takeover_tasklets(d)

\* The steps of what was begun already.
Settle == \/ \E a \in Actors : ActorStep(a)
          \/ \E c \in CPUs : SoftStep(c) \/ KsdStep(c)
          \/ HotStep

Next == \/ Settle
        \/ \E a \in Actors : ActorCall(a)
        \/ \E c \in CPUs : FuncCall(c)
        \/ HotCall

Spec == Init /\ [][Next]_vars

(***************************************************************************)
(* Fairness: interrupts and sections with softirqs off end, softirqs make  *)
(* progress and their functions return, tasks and ksoftirqd are given the  *)
(* CPU, and who disabled a tasklet enables it again.  A task that spins    *)
(* until TASKLET_STATE_RUN is clear, or that waits for a CPU to be free,   *)
(* does not miss every such moment.                                        *)
(***************************************************************************)
FairSpec == /\ Spec
            /\ \A a \in Tasks : SF_vars(ActorStep(a))
            /\ \A a \in Irqs : WF_vars(ActorStep(a))
            /\ \A c \in CPUs : WF_vars(SoftStep(c)) /\ WF_vars(KsdStep(c))
            /\ SF_vars(HotStep)

------------------------------------------------------------------------------
\* Everything that owns the SCHED bit of t: a place on a list of a CPU or of
\* a softirq, a softirq that has not yet run it or puts it back, a task that is
\* about to insert it, a killer.
SchedOwners(t) ==
    {<<"vec", o[1], o[2], o[3]>> : o \in
        {p \in CPUs \X Softirqs \X (1..Cardinality(Tasklets)) :
            p[3] <= Len(vec[p[1]][p[2]]) /\ vec[p[1]][p[2]][p[3]] = t}}
    \cup {<<"list", o[1], o[2]>> : o \in
        {p \in CPUs \X (1..Cardinality(Tasklets)) :
            p[2] <= Len(soft[p[1]].list) /\ soft[p[1]].list[p[2]] = t}}
    \cup {<<"cur", c>> : c \in {d \in CPUs :
            soft[d].cur = t /\ soft[d].at \in {"locked", "clear", "drop", "requeue"}}}
    \cup {<<"call", a>> : a \in {b \in Actors :
            call[b].t = t /\ call[b].pc \in {"insert", "kill_wait", "kill_clear"}}}

\* The CPUs whose softirq has taken the RUN bit of t, and those among them on
\* which its function runs or is past all checks.
RunOwners(t) == {c \in CPUs : /\ soft[c].cur = t
                              /\ soft[c].at \in {"locked", "clear", "func", "drop"}}
InFunc(t)    == {c \in CPUs : soft[c].cur = t /\ soft[c].at \in {"clear", "func"}}

\* Both bits of a tasklet are locks, set if and only if there is exactly one
\* owner.  With SCHED it is never on two lists, and the BUG() of
\* tasklet_action() is never hit; with RUN "tasklet is strictly serialized wrt
\* itself": its function runs on one CPU at a time.
BitsHaveOneOwner == \A t \in Tasklets :
    /\ Cardinality(SchedOwners(t)) = IF t \in sched THEN 1 ELSE 0
    /\ Cardinality(RunOwners(t)) = IF t \in runbit THEN 1 ELSE 0

\* From tasklet_disable() returning to tasklet_enable() the function does not
\* run, however many disable and enable the tasklet at the same time.
DisabledIsQuiet == \A a \in Actors : call[a].pc = "disabled" => InFunc(call[a].t) = {}

\* When tasklet_kill() lets go, the tasklet is on no list and runs nowhere,
\* even if its function schedules it again and again.
KilledIsQuiet == \A a \in Actors : call[a].pc = "kill_clear" =>
    SchedOwners(call[a].t) = {<<"call", a>>} /\ InFunc(call[a].t) = {}

\* A tasklet on a list of an online CPU has its softirq raised there, or the
\* softirq has still to be done in this round; of a dead CPU, the hotplug task
\* has still to take its lists over.
ListIsRaised == \A c \in CPUs, nr \in Softirqs : vec[c][nr] # <<>> =>
    \/ c \in hot.online /\ nr \in pend[c] \cup soft[c].todo
    \/ c \notin hot.online /\ hot.cpu = c

\* A raised softirq is not forgotten: it will be looked at by what runs on the
\* CPU now, or by ksoftirqd, which does not sleep or is about to be woken.
RaisedIsPromised == \A c \in hot.online : pend[c] # {} =>
    \/ in_interrupt(c)
    \/ ksd[c].running \/ ksd[c].at \in {"check", "set", "loop"}
    \/ hot.at = "online" /\ hot.cpu = c

\* The way from a list to the function is unbroken: the list raises its
\* softirq, and the raised softirq has somebody who runs it.
Consistent == TypeOK /\ ListIsRaised /\ RaisedIsPromised

\* "If tasklet_schedule() is called, then tasklet is guaranteed to be executed
\* on some cpu at least once after this", whatever tasks and CPU hotplug do
\* meanwhile, unless it is disabled or interrupts never cease.
ScheduledRuns == \A t \in Tasklets :
    t \in sched ~> \/ t \notin sched \/ count[t] # 0
                   \/ \E a \in Irqs : call[a] # Idle

\* Once nothing new is begun, all calls return, tasklet_kill() too, all
\* tasklets have run, and ksoftirqd goes to sleep.
SettledWhenQuiet == <>[][Settle]_vars =>
    <>[](/\ \A a \in Actors : call[a] = Idle
         /\ sched = {} /\ runbit = {}
         /\ \A c \in CPUs : soft[c].at = "none" /\ ksd[c].at \in {"sched", "gone"})
==============================================================================
