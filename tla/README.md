# TLA+ models of the kernel's synchronisation primitives

The repository is the Linux kernel 2.6.28.6 with Samsung's board support for the
S3C64xx and S5P families (`src/linux-2.6.28.6`; paths below are relative to it).
Of its ten million lines most are drivers, file systems, network protocols and
architecture support. What all of them stand on is a small amount of very
concurrent code in `kernel/` and `lib/`: locks that put tasks to sleep, lock-free
data structures, deferred work and grace periods. This project models that core,
one component after the other, checks it with TLC and proves it with TLAPS.

The reference configuration is the one of the Samsung boards
(`arch/arm/configs/smdk6410*_defconfig`): ARMv6, the spinlock-based rw-semaphore,
classic RCU, debugging mutexes. Those boards have one CPU and no kernel
preemption. The models assume neither: processes interleave at every point where
the code does not hold a spinlock, because the sources are written for SMP.

## 1. Inventory

State, operations and neighbours of the parts considered. "Hard" is what makes
tests of the part insufficient.

| part | state | operations | depends on / used by | hard |
|---|---|---|---|---|
| task states (`include/linux/sched.h`, `kernel/sched.c`) | `task->state`, pending signals | `set_current_state`, `schedule`, `schedule_timeout`, `try_to_wake_up`, `signal_wake_up` | used by every sleeping primitive | a wake-up between announcing a sleep and `schedule()` |
| counting semaphore (`kernel/semaphore.c`) | `count`, `wait_list`, a `semaphore_waiter` on each sleeper's stack | `down`, `_interruptible`, `_killable`, `_timeout`, `_trylock`, `up` | task states, lists, timers | timeout or signal against a permit that is already granted |
| mutex (`kernel/mutex.c`, four fastpath headers) | `count`, `wait_list` | `mutex_lock`, `_interruptible`, `_killable`, `_trylock`, `_unlock` | task states, lists; used by SRCU | lock-free fastpaths against slowpaths under `wait_lock` |
| rw-semaphore (`lib/rwsem-spinlock.c`) | `activity`, `wait_list`, an `rwsem_waiter` on each sleeper's stack | `down/up_read`, `down/up_write`, both trylocks, `downgrade_write` | task states, lists | a hand-over the sleeper notices without a lock; frames that die |
| byte FIFO (`kernel/kfifo.c`) | `buffer`, `in`, `out`, `size` | `__kfifo_put/get`, `kfifo_put/get`, `kfifo_reset`, `kfifo_len` | used by drivers, between one reader and one writer without a lock | indices that wrap, copies that run at the same time |
| SRCU (`kernel/srcu.c`) | `completed`, two ranks of per-CPU counters, `mutex` | `srcu_read_lock/unlock`, `synchronize_srcu`, `init`, `cleanup` | mutex, `synchronize_sched` | readers without barriers, counters summed one by one, an early exit |
| completions, wait queues (`kernel/wait.c`, `sched.c`) | `done`, the queue of waiters | `complete(_all)`, `wait_for_completion*`, `prepare_to_wait`, `finish_wait`, exclusive wake-ups | task states, timers | exclusive wake-ups given to a waiter that leaves on a signal |
| page lock (`mm/filemap.c`, `include/linux/pagemap.h`) | two bits of `page->flags`, a hashed wait queue | `lock_page(_killable)`, `trylock_page`, `unlock_page`, `wait_on_page_bit`, `end_page_writeback` | wait queues | the bit and the queue are under no common lock |
| work queues (`kernel/workqueue.c`) | the per-CPU work list, the PENDING bit, the current work | `queue_(delayed_)work`, `run_workqueue`, `flush_*`, `cancel_*`, CPU hotplug, `destroy_workqueue` | completions, kthreads, timers | work that queues itself again while it is cancelled or flushed |
| softirqs, tasklets (`kernel/softirq.c`) | the pending masks, the tasklet lists, SCHED and RUN bits, the disable count | schedule, disable, enable, kill, `__do_softirq`, ksoftirqd, CPU hotplug | kthreads; used by timers, RCU, drivers | a tasklet scheduled while it runs, on another CPU |
| classic RCU (`kernel/rcuclassic.c`) | `cur`, `completed`, `cpumask`, callback lists | `call_rcu`, quiescent states, `rcu_start_batch` | softirqs, the tick | grace periods that start while a CPU reports late |
| timers (`kernel/timer.c`) | wheels, `base->running_timer` | `mod_timer`, `del_timer(_sync)`, expiry | softirqs | deletion against a handler that re-arms |
| kernel threads, klists, rt-mutexes, interrupt management, futexes | | | | in the plan, section 6 |

Everything else (scheduling policies, signals' delivery, memory management, file
systems, networking, the block layer, drivers, architecture code) is listed in
`PROJECT.json` with the reason why it is not modelled.

What makes the modelled parts correct:

* **semaphore**: permits are neither lost nor duplicated; waiters are served in
  order; a waiter that was granted a permit wakes up.
* **mutex**: one owner; `count` always tells whether there is one; no waiter is
  forgotten whatever path the unlock takes.
* **rw-semaphore**: a writer excludes everybody; `activity` is exact; hand-over
  neither loses a sleeper nor touches a frame that is gone; nobody starves.
* **byte FIFO**: a bounded queue of bytes, although neither side takes a lock.
* **SRCU**: after `synchronize_srcu()` no reader holds what was unlinked before
  it; grace periods end; the counters are not freed under a reader.
* **completion**: no event is left beside a waiter that sleeps; a waiter leaves
  nothing on the queue.
* **page lock**: one owner; clearing a bit reaches everybody who waits for it,
  also when the one waiter that was woken is killed.
* **work queue**: the PENDING bit has one owner; a cancelled work is on no list
  and runs nowhere; a flush covers what was there when it was called, and returns;
  hotplug strands no work.
* **tasklet**: at most one place and one run at a time; quiet while disabled or
  killed; a raised softirq always has somebody to run it.

## 2. Modules

```
TaskState   KList            scheduler contract, lists
   |  \      /  |
   |   Semaphore ---refines---> FifoSemaphore   MCSemaphore  SemaphoreProofs
   |   Mutex     ---refines---> ExclusiveLock   MCMutex      MutexProofs
   |   RwSem     ---refines---> FifoRwLock      MCRwSem      RwSemProofs
   |   WaitQueue                 exclusive wake-ups
   |     |  Completion (MachineInt)             MCCompletion MachineIntProofs
   |     |  PageLock                            MCPageLock   PageLockProofs
   |
   Kfifo     (MachineInt) ---refines---> ByteQueue
                                                MCKfifo      MachineIntProofs
   Srcu      (MachineInt)                       MCSrcu       MachineIntProofs
   WorkQueue (KList)                            MCWorkQueue  WorkQueueProofs
   Tasklet   (KList)                            MCTasklet    TaskletProofs
   KernelLemmas                 lemmas about lists, used by the proofs
```

`MachineInt` is the arithmetic of an int that wraps at `Modulus`, 2^32 in the code.
The three components that count with such ints share it, and a proof module.
`Semaphore`, `Mutex`, `RwSem`, `Completion` and `PageLock` are composed with
`TaskState` and `KList` by EXTENDS: they share its variables `state` and `pending` and call its operators
where the C code calls the function of the same name. Definitions keep the names
of the C functions. `MC*` modules hold only what a TLC model needs.

A definition under a comment "Faulty variant" is the code with a plausible
mistake. No specification uses it: it records which mistake each property would
catch, and `PROJECT.json` says which property that is.

### TaskState and KList

`state[t]` is `task_struct.state` as a set of bits, `pending[t]` the most severe
pending signal. `try_to_wake_up(p, mask)` changes the state only if it meets the
mask. `schedule(t)` is enabled when the task may return: its state is
TASK_RUNNING again, or the signal check at the top of `schedule()` puts it back.
Run queues are left out, because whether a task that was woken had already been
taken off its queue makes no difference to the primitives. A list is a sequence
without repetition; `list_add_tail`, `list_del` and, for several entries at once,
`list_del_all` are the operations used.

### Semaphore

One step per section between two acquisitions of `sem->lock`. `pc[t]` is "idle",
"sched" (has dropped the lock, not yet returned from `schedule_timeout`),
"relock" (returned, about to take the lock) or "held". `waiter[t]` is the frame of
`__down_common`: `up`, `state`, `timeout`. A timeout is "max", "finite" or
"expired". The remaining time may have run out although it was a wake-up that
ended the sleep, so `schedule_timeout` chooses what is left. `up_foreign` is an
`up()` by somebody who never called `down()`, such as an interrupt handler;
`MaxSurplus` bounds how often.

| definition | code |
|---|---|
| `take_count`, `down_common`, `down_any` | the two branches of every `down*` |
| `down_round`, `down_relock` | the loop of `__down_common` |
| `schedule_timeout`, `process_timeout` | `kernel/timer.c`, with the timer on the stack |
| `release`, `up`, `up_foreign` | `up`, `__up` |

### Mutex

`arch` is the fastpath of the build: "armv6" (`arch/arm/include/asm/mutex.h`),
"xchg" and "dec" (`include/asm-generic/`), "null" (none, CONFIG_DEBUG_MUTEXES).
Fastpaths touch `count` without `wait_lock`, so a slowpath is one step per access
to `count`; the rest of what it does under `wait_lock` is seen by nobody in
between and joins the step. `wait_lock_free` says whether somebody is in the
middle of such a section. On ARMv6 a store-exclusive may fail, which sends the
task into the slowpath with `count` unchanged. The trylock of `mutex-xchg.h` makes
two exchanges, with a state ("restore") between them.

| definition | code |
|---|---|
| `fastpath_lock`, `fastpath_unlock`, `trylock_*` | `__mutex_fastpath_*`, `__mutex_trylock_slowpath` |
| `lock_slowpath`, `lock_retry`, `lock_schedule`, `lock_done` | `__mutex_lock_common` |
| `unlock_slowpath` | `__mutex_unlock_common_slowpath` |

### RwSem

`activity` and `wait_list` change in one step under `wait_lock`. The waker then
goes on holding `wait_lock` while it clears `waiter->task` and wakes the tasks it
took off the list, one after the other (`todo`, `cleared`); the sleepers look at
`task[t]` without the lock, so each of these is a step. `StrayWakeup` is a wake-up
left over from an earlier sleep, which the code must survive. The four functions
that wake are `up_read`, `up_write`, `downgrade_write` with `wake_first`,
`wake_clear` and `wake_task` for `__rwsem_do_wake` and `__rwsem_wake_one_writer`.

### Kfifo

`in` and `out` run modulo `Modulus` (2^32 in the code). The writer samples the
room, copies byte by byte and publishes `in`; the reader does the same with `out`.
`Slot` is the place the two `memcpy()` calls give to a byte. `given` and `got`
record the bytes of the last finished call of each side, for the refinement.
`Spec` is the lock-free use by one reader and one writer, `LockedSpec` any number
of callers through `fifo->lock`, each call one step, with `kfifo_reset` and the
restart at index 0 in `kfifo_get`.

### Srcu

Readers go through "hoisting" (the CPU may already fetch protected data),
"locking" (has sampled `completed`), "cs" and "unlocking" (the decrement is visible
but the last accesses may still be under way): neither `srcu_read_lock` nor
`srcu_read_unlock` has a barrier. An updater's unlinking may become visible after
its first read of `completed` ("called"). `synchronize_sched()` is modelled by its
contract: it returns when every window that was open when it was called has
closed (`sched`); classic RCU, which implements it, is in the plan. The counters of
the CPUs are added up one by one and wrap at `Modulus`. `owed[u]` is what the grace
period is about: the readers that may hold what updater `u` unlinked.
`sp->mutex` is held from one step to another by its owner only, which is what
`Mutex` and its proof justify.

### WaitQueue, Completion, PageLock

`WaitQueue` adds to `TaskState` whether a task is still on the run queue: a
wake-up of a task that has announced its sleep but not left the CPU changes its
state, yet `try_to_wake_up()` counts it as a success only if the state matched.
`Scanned` is the part of the queue that `__wake_up_common()` goes through until it
has woken the given number of exclusive waiters.

In `Completion` all that happens under `x->wait.lock` is one step; `pc[t]` is
"idle", "sched" or "relock", as in `Semaphore`. `done` is an unsigned int modulo
`Modulus`; `complete_all` adds half of it.

In `PageLock` there is no lock over the bit and the queue: queueing, testing the
bit, sleeping, and taking the entry off are steps, and so are clearing the bit and
waking ("wake", `ended`). All pages fall into one hash bucket, the worst case.
`abort_exclusive_wait` is what a killed waiter does with a wake-up it may have got.
The frame of a finished `lock_page()` is kept while the page is owned, to tell which
page that is; how it was waited for is forgotten (`Hold`).
In `finish_wait` the look at the list without the lock and the unlinking under it are
one step. The waker's wake-up and unlinking are one too: it has the lock of the queue.

| definition | code |
|---|---|
| `wake_up_all`, `Scanned`, `WakesUp` | `__wake_up_common`, `try_to_wake_up` |
| `wait_round`, `wait_relock`, `post` | `do_wait_for_common`, `complete`, `complete_all` |
| `prepare_to_wait`, `wait_test`, `wait_again`, `finish_wait` | `__wait_on_bit`, `__wait_on_bit_lock` |
| `unlock_page`, `wake_up_page`, `end_page_writeback` | the functions of that name |

### WorkQueue

One workqueue, with a worker per CPU or (`hot.single`) only one. `work[w]` holds
the PENDING bit, the cwq that `work->data` points to, and the timer of a delayed
work. `cwq[c]` is a `cpu_workqueue_struct` with the place of its worker in
`worker_thread()` and a stack `frames` of `run_workqueue()`: a callback that
flushes its own workqueue runs the list by hand, inside itself. A barrier is an
item on a worklist named by the task on whose stack it is; `done` holds the
completed ones. `call[t]` is where a client is in a flush or a cancel; what is
read without a lock (`work[w].cwq`) is kept from one step to the next. `hot` is the
CPU maps and the hotplug task, which also destroys the workqueue. A callback that has
flushed by hand ("byhand") may queue its work or flush again before it returns.
`owed[t]` is history: the callbacks that were queued or running when the flush of `t`
began. Each stays in it until it returns, as "queued", then "run", and "byhand" from
the time it runs another item of the list by hand (`Taken`).

| definition | code |
|---|---|
| `set_pending`, `queue_insert`, `arm_timer`, `delayed_work_timer_fn` | `queue_work`, `__queue_work`, `queue_delayed_work_on` |
| `worker_*`, `run_*` | `worker_thread`, `run_workqueue` |
| `flush_*`, `insert_wq_barrier` | `flush_workqueue`, `flush_cpu_workqueue`, `flush_work` |
| `cancel_*`, `grab_*`, `wait_on_*` | `__cancel_work_timer`, `try_to_grab_pending`, `wait_on_work` |
| `cpu_*`, `cleanup_*`, `destroy_workqueue` | `workqueue_cpu_callback`, `cleanup_workqueue_thread` |

The completion of a barrier is the simplest use of `Completion` (one event, one
waiter, initialised for each use), so that here it is a bit.

### Tasklet

`sched` and `runbit` are the two bits of `t->state`, `count` its disable count,
`vec` and `pend` the lists and pending masks of the CPUs. `soft[c]` is what
`__do_softirq()` and `tasklet_action()` do on CPU `c`; `ksd[c]` is its ksoftirqd.
On a CPU an interrupt suspends softirqs, softirqs suspend tasks, and a section
with softirqs off keeps softirqs out (`in_interrupt`, `Free`); who leaves such a
context runs pending softirqs, and a task that raises one outside of it wakes
ksoftirqd. The build is SMP: on UP `tasklet_trylock()` always succeeds. After CPU
hotplug the ksoftirqd of a dead CPU runs on another one and finds that one's
softirqs pending (`SeenPending`).

| definition | code |
|---|---|
| `tasklet_schedule*`, `schedule_insert`, `add_and_raise` | `tasklet_(hi_)schedule`, `raise_softirq_irqoff` |
| `softirq_action`, `softirq_round`, `tasklet_trylock`, `action_*` | `__do_softirq`, `tasklet_action` |
| `ksoftirqd_*` | `ksoftirqd` |
| `kill_*`, `disable_wait` | `tasklet_kill`, `tasklet_unlock_wait` |
| `cpu_*`, `takeover_tasklets` | `cpu_callback`, `takeover_tasklets` |

## 3. Runs

| run | instance | shows |
|---|---|---|
| `semaphore` | 3 tasks, count 1, 1 foreign up | PermitsConserved, GrantedIsAwake, refinement of `FifoSemaphore`; NoStarvation |
| `mutex` | 3 tasks, all four fastpaths | MutualExclusion, WakeupPromised, refinement of `ExclusiveLock`; ServedWhenQuiet |
| `rwsem` | 4 tasks | Consistent (ActivityExact, HeadMustWait), HandoffSeen, FramesAlive, refinement of `FifoRwLock`; NoStarvation |
| `kfifo` | buffers of 1, 2, 4 bytes, indices modulo 8 | WithinBounds, refinement of `ByteQueue` |
| `kfifo_locked` | the same, calls of up to 5 bytes | refinement of the queue that can be emptied |
| `srcu` | 2 readers, 2 updaters, 2 CPUs | GracePeriod, RankDrains (OldLocksDone, OldRankDrained), NotFreedInUse; GracePeriodEnds |
| `completion` | 3 tasks, `done` modulo 7 | NoWaiterForgotten, Consistent (QueueExact); DrainedWhenQuiet |
| `page_lock` | 3 tasks, 1 page, 2 bits | NoWaiterForgotten, Consistent (OneOwner, QueuedIsWaiting, ReadersInFront); ServedWhenQuiet |
| `workqueue` | 2 CPUs, 1 work, 2 clients | PendingHasOneOwner, Consistent (RunsWhereQueued), CancelledIsQuiet, FlushesCover (FlushCovers, FlushWorkCovers), BarrierAlive |
| `workqueue_hotplug` | 2 CPUs, one comes and goes, 1 client, destruction | NothingStranded; FlushReturns, SettledWhenQuiet |
| `tasklet` | 2 CPUs, one comes and goes, a task, an interrupt handler | BitsHaveOneOwner, DisabledIsQuiet, KilledIsQuiet, Consistent (ListIsRaised, RaisedIsPromised); ScheduledRuns, SettledWhenQuiet |
| `cancel_nested_doc` | 1 worker, 1 work, 1 client | a violation of CancelBlocks, see below |

Behind the semicolon: liveness. "Consistent" and "RankDrains" are the type
invariant together with the named invariants about how the parts of the state
agree. For `Semaphore`, `Mutex` and `Kfifo` the invariants of that kind (TypeOK,
QueueExact, CountTellsOwner, CopyIntact) are proved, section 4, and are not in a
run: the refinements and the invariants in the runs rest on them. All runs but the
last end without an error.

### Where code and comments disagree

`cancel_nested_doc`: the comment on `cancel_work_sync()` (`kernel/workqueue.c:576`)
promises to block until a running callback has completed. A callback that
flushes its own workqueue goes through `run_workqueue()` by hand, which resets
`cwq->current_work`; the canceller then sees nothing to wait for and returns while
the outer callback is still running. `CancelledIsQuiet` therefore excepts such
callbacks ("byhand"), and holds for all others.

Flushes fail in the same way. `flush_workqueue()` is documented to sleep "until all
works which were queued on entry have been handled" (`kernel/workqueue.c:405`), and
`flush_work()` to block until the callback has terminated (`kernel/workqueue.c:425`).
Let callback A run on a single worker. Either a client calls `flush_workqueue()`,
which queues its barrier, and A flushes its own workqueue: `run_workqueue()`, called by
hand, completes the barrier (`kernel/workqueue.c:369`). Or A has done so before,
`current_work` is NULL (`kernel/workqueue.c:312`), and the client finds nothing to wait
for (`kernel/workqueue.c:385`). Either way the flush returns while A is running.
`FlushCovers` and `FlushWorkCovers` except such callbacks, by name, and hold for all
others. `FlushBlocks` is what the comment says, without the exception. It has the same
cause as `CancelBlocks` and no run of its own: it is violated, in 13 steps, when "flush"
is added to the `Ops` of `MCWorkQueueNested.cfg` and the invariant is `FlushBlocks`.

Met in reading and modelling, and harmless, without a run of their own:

* `flush_work()` is documented to wait for the callback
  (`kernel/workqueue.c:425`) but looks only at the CPU the work was last queued
  on; a callback that still runs on an earlier CPU is not waited for.
  `FlushWorkCovers` states what the code does promise.
* `completion_done()` is documented to return 0 while there are waiters
  (`kernel/sched.c:4844`); it looks at `done` only, so that it returns 1 while a
  waiter that was woken has not run yet.
* `unlock_page()` is documented to wake sleepers in `wait_on_page_writeback()`
  (`mm/filemap.c:572`); `wake_bit_function()` turns away waiters for another bit.

### Bounds, and why they are enough

* **Tasks.** Three tasks are an owner and two waiters: one waiter may leave while
  the other is being woken. Four in `rwsem` are a holder and a queue of a writer
  behind, or in front of, two readers, so that a batch is woken past a waiting
  writer and a head can be a reader or a writer. The proofs cover any number for
  all components, and any number of CPUs.
* **InitCount = 1, MaxSurplus = 1.** Permits can be 0, 1 or 2, so the semaphore
  is used both as a lock and with two holders at once.
* **Sizes {1, 2, 3}, Modulus 8.** `kfifo_alloc` rounds to 1, 2 and 4 bytes. With
  each of them the indices wrap, full and empty buffers occur, copies run over
  the end of the buffer, and calls ask for more than fits.
* **Srcu.** Two updaters and `MaxCompleted = 2` let an updater find, when it gets
  the mutex, that others have advanced the count twice, and take the early exit.
  Two CPUs let a reader come on one and leave on the other while the sum is being
  taken. `Modulus = 4` makes the counters drift and wrap; it exceeds the number of
  readers, as 2^32 does. `completed` itself does not wrap in the instance.
* **Victims.** Signals go to some of the tasks only (two of three for the mutex,
  one for completions and the page lock). Signals to different tasks do not
  depend on each other; what matters is that a signalled waiter meets others that
  are not. Tasks are interchangeable otherwise, so that a liveness property that
  watches one task stands for all.
* **Completion.** `Modulus = 7`: `complete_all()` adds 3 (UINT_MAX/2 in the code),
  as many as there are tasks. `done` is kept from wrapping, as callers have to.
* **WorkQueue.** One work is enough for a callback to run on one CPU, be queued on
  another and be waited for by two clients. `MaxDepth = 2` is a callback that
  flushes its own workqueue; as in the code that runs the list by hand only makes
  sense on the worker of the callback, so it is used with a single worker. The
  hotplug run has one client, the callback being the second actor. The run with
  two clients has no hotplug, and cancels works with their timers
  (`cancel_delayed_work_sync()`, `cancel_delayed_work()`); the other one uses
  `cancel_work_sync()`, the same code without the step that stops the timer.
* **Tasklet.** One tasklet on two CPUs: its users are a task, an interrupt handler
  and its own function. `MaxRestart = 2` (10 in the code) has a round restarted
  and a round left to ksoftirqd. CPU 1 is the one that is interrupted and that
  comes and goes (`PinCPUs`, `HotCPUs`); sections with softirqs off are on it too.
  Only TASKLET_SOFTIRQ is used; HI_SOFTIRQ has the same handler over another list.
  Two tasks that disable a tasklet at the same time are beyond the instance, and
  covered by the proofs.
* Symmetry is used only in `workqueue`, which has no liveness property, over
  its clients, which are not otherwise distinguished.
* Deadlock is checked in every run: no instance can stop. It says little here,
  as signals and stray wake-ups keep steps possible; that waiters do get on is
  what the invariants about wake-ups and the liveness runs show.

### Fairness

* The steps of a task inside the kernel are weakly fair: a runnable task is
  eventually given the CPU, spinlocks are held for a few instructions, a timer
  that is set expires. `KernelStep` (in `Srcu` `Synchronize`, in `WorkQueue` and
  `Tasklet` the steps named in `FairSpec`) lists these steps. Nothing is fair about
  calling an operation or sending a signal.
* That holders release (semaphore, mutex, rw-semaphore) and readers leave (SRCU)
  is an assumption on callers; only the properties that need it have it
  (`HoldersRelease` in `Semaphore`).
* Callbacks of works return, however often they queue their own work before
  (strong fairness of `run_function`), and so do functions of tasklets; a task that
  disabled a tasklet enables it again.
* In `Tasklet` a task that spins until TASKLET_STATE_RUN is clear, or waits for a
  CPU that softirqs leave now and then, is strongly fair: with weak fairness it
  might test the bit at the wrong moment for ever. Interrupts are not fair, and
  `ScheduledRuns` promises nothing while they never cease.
* "WhenQuiet" properties have no assumption on callers but that they stop making
  new calls. They fail if any path loses a wake-up.
* Semaphores and rw-semaphores hand over to the first waiter, hence no
  starvation. A mutex is taken by whoever comes first, and starvation is possible
  by design. `ServedWhenQuiet` is what remains: once no new calls come in,
  everybody is served, which fails if any path loses a wake-up. The same holds of
  the page lock, where starting a writeback is new work too (`NewWork`).
* SRCU grace periods end although readers keep coming, since new readers use the
  other rank. The property starts once the updater has the mutex: getting there
  rests on the mutex, which is not fair.

## 4. Proofs

`tlapm` proves, for every value of the constants that the assumptions allow:

| theorem | statement |
|---|---|
| `SemaphoreTypeCorrect`, `SemaphorePermitsConserved`, `SemaphoreQueueExact`, `SemaphoreGrantedIsAwake` | the invariants of `Semaphore` |
| `SemaphoreIsFifo` | `Semaphore` implements `FifoSemaphore` |
| `MutexTypeCorrect`, `MutexMutualExclusion`, `MutexCountTellsOwner`, `MutexWakeupPromised` | the invariants of `Mutex`, on all fastpaths |
| `MutexImplementsLock` | `Mutex` implements `ExclusiveLock` |
| `KfifoTypeCorrect`, `KfifoWithinBounds`, `KfifoCopyIntact` | the invariants of lock-free use |
| `KfifoIsQueue` | lock-free use implements `ByteQueue` |
| `KfifoLockedWithinBounds` | the bounds under `fifo->lock` |
| `KfifoLockedIsQueue` | use under `fifo->lock` implements the queue that can be emptied |
| `RwSemConsistent`, `RwSemHandoffSeen`, `RwSemFramesAlive` | the invariants of `RwSem` |
| `RwSemIsFifo` | `RwSem` implements `FifoRwLock` |
| `SrcuInvariant`, `SrcuRankDrains`, `SrcuGracePeriod`, `SrcuNotFreedInUse` | the inductive invariant and the invariants of `Srcu` |
| `CompletionInvariant`, `CompletionConsistent`, `CompletionNoWaiterForgotten` | the inductive invariant and the invariants of `Completion` |
| `PageLockInvariant`, `PageLockConsistent`, `PageLockNoWaiterForgotten` | the inductive invariant and the invariants of `PageLock` |
| `TaskletConsistent`, `TaskletBitsHaveOneOwner`, `TaskletDisabledIsQuiet`, `TaskletKilledIsQuiet` | the invariants of `Tasklet` |
| `WorkQueueInvariant` | the inductive invariant of `WorkQueue` |
| `WorkQueueConsistent`, `WorkQueuePendingHasOneOwner`, `WorkQueueCancelledIsQuiet`, `WorkQueueFlushesCover`, `WorkQueueBarrierAlive`, `WorkQueueNothingStranded` | the invariants of `WorkQueue` |

**Assumptions.** `SemaphoreAssumption`: a finite set of tasks, natural numbers.
`MutexAssumption`: the fastpaths are among the four. `KfifoAssumption`: buffer
sizes are positive and `Modulus` is a multiple of each rounded size, at least
twice; this holds for 2^32 and the powers of two up to 2^31 that `kfifo_alloc`
admits. `RwSemAssumption`: a finite set of tasks. `PageLockAssumption`: the same, some
page, and bits among PG_locked and PG_writeback. `CompletionAssumption`: a finite
set of tasks, and `done` can count to 3 at least. `SrcuAssumption`: at least one
CPU, updaters are no readers, and an int can count more than the finitely many
readers; the number of updaters may be infinite. `TaskletAssumption`: at least one CPU, and
finitely many tasklets, tasks and interrupt handlers, since `t->count` is compared
with how many of them have disabled `t`. `WorkQueueAssumption`: at least one CPU,
and works, clients and the hotplug task are different things; the sets of works and
clients may be infinite. TLC evaluates all of them on its instances.

**Semaphore.** The inductive invariant is TypeOK, FrameInv (no frame outlives its
wait), QueueExact, GrantedIsAwake and PermitsConserved. The last is not inductive
alone: that a waiter may leave without costing a permit needs that it is queued
and not granted, which is what QueueExact says. The cardinality argument needs a
finite set of tasks.

**Mutex.** TypeOK, ListInv (the list holds the tasks inside `__mutex_lock_common`),
MutualExclusion, CountTellsOwner, WakeupPromised. MutualExclusion rests on
CountTellsOwner: a task enters only by finding `count` 1. Each step is shown to be
one of three kinds (takes the lock from 1, frees it to 1, leaves both the
ownership and "count is 1" alone); one lemma turns that into the invariant and
into the step of the abstract lock.

**Kfifo.** TypeOK and WithinBounds are inductive together: each side moves its own
index only, so the room a put saw can only grow, and so can the bytes a get saw.
For the contents, FrontCopied and BackWritten say what the two copies have done
so far. The core is arithmetic: the slot of byte `k` behind index `i` depends on
`i + k` modulo the size (`SlotShift`), distinct offsets below the size have
distinct slots (`SlotInjective`), and therefore the writer's slots are disjoint
from the bytes inside (`FreeSlot`). That indices may wrap needs the modulus to be a
multiple of the size: this is why the size is rounded to a power of two.
Under the lock a call is one step: `MovedInPuts` and `MovedOutGets` say that moving
an index over bytes that were copied appends or removes exactly them, for both
uses. The reset to 0 keeps the contents because `__kfifo_get` has left none.

**Srcu.** The inductive invariant `SrcuIInv` has two parts.
*Ordered* is about who waits for whom. What an updater is owed, references of readers
that are under way, is covered by its own grace period, or by one that another
updater began after it had published and after `completed` had gone on once since it
was called (`Serves`): this is what the early exit relies on when it compares
`completed` with a value read before the mutex was taken. A grace period covers a
reader first by its `synchronize_sched()`, as long as the reader has no counter, and
from the flip on by the old rank (`Covers`). That nobody gets into the old rank after
the second `synchronize_sched()`, and that the accesses delayed past a decrement are
over after the third, is `Waits`. `Lagging` bounds how far the flips may run ahead of
an updater whose unlinking is not visible yet: by one, because the next one would have
to wait for it. Without it the difference of 2 that the early exit asks for would not
mean that a whole grace period began after the unlinking.
*Counted* is about the counters, of which a single one says nothing. For each rank
there are partial sums `Sums[cpu]`, over the CPUs from `cpu` on, modulo the width of
an int, whose first is the number of critical sections counted there. While an
updater adds up, what it has and the partial sum of the CPUs that it has not read come
to a number between that of the critical sections and that of the readers. A reader
that goes on a CPU not read yet lowers both this number and that of the critical
sections, on a CPU already read only the latter; one that comes would spoil it, but by
OldLocksDone none comes to a rank that is scanned. So a scan that ends with 0 has found
the rank empty, although nobody was kept from leaving. For each step the new partial
sums are given as a function (one more, or one less, up to the CPU that changed), so
that no induction over the number of CPUs is needed; where `cleanup_srcu_struct()` finds
the sums of both ranks 0, a least counterexample (`LeastNatural`) takes its place. TLC
checked `SrcuIInv`, `Sums` being chosen among all functions of its type, on the run's
constants and with one reader and three updaters, before it was proved.

**RwSem.** The run's invariants, ListsExact (a waiter is on `wait_list` or among
those being woken, once) and OneWaker (whoever wakes has `wait_lock`). HandoffSeen
is not inductive without them: that a task which finds `waiter.task` clear has the
lock rests on the waker having counted it before, and on the waker being alone.
ActivityExact is a cardinality argument; a batch of readers is the longest prefix
without a writer (`FirstOfKind`, `PrefixCardinality`, `SplitProperties`). For the
refinement each waker's step admits that prefix, all other steps admit nobody.

**Completion.** The run's invariants and RelockAwake. NoWaiterForgotten counts the
waiters that are awake against `done`: a waiter that takes an event lowers both, as
it is itself awake and leaves the queue. `complete()` raises both or finds nobody
asleep, and a waiter that gives up after `done` was raised for it takes the event.

**PageLock.** The inductive invariant has the run's QueuedIsWaiting and
ReadersInFront, and further:
*FrameOk* (only the lock bit is waited for exclusively) and *SleepOk*: a task that has
announced its sleep is queued, because only a wake-up from the sleep itself takes an
entry off behind its task's back.
*Owned* says OneOwner without counting: two owners of a page are the same task.
*Promised* is NoWaiterForgotten with fewer tasks to rely on. A sleeper woken by a
signal may leave instead of taking the bit, so that it does not count as somebody
who will act for the bit as long as it is queued: it would then unlink itself and
pass nothing on. One that a wake-up took off the queue does count, as
`abort_exclusive_wait()` finds it gone and wakes the next (`SureToAct`). Who takes
the bit sets it, and thereby ends what was promised.
The core is the wake-up (`PageServed`). Since all that wait for a bit to clear are in
front of the exclusive waiters, the scan reaches all of them. It misses an
exclusive waiter only if one in front of it was woken and taken off the queue, which
is now sure to act. That the mask of every wake-up, also that
of an aborting waiter, meets every sleep on a bit is part of it. Queueing at the head and at the tail, and
unlinking several entries, keep the order (`DelAllProperties`, `ListDelOrder`).

**Tasklet.** Three groups of facts. *Shape* is what may happen on a CPU at a time:
what a softirq has taken off its list, where calls are, how far hotplug has come.
*Raised* needs it: a list that is not empty has its softirq pending, or the handler
that empties it is under way, and a pending softirq has somebody to run it, also
while a CPU comes or goes (HotShape says what is left of a dead CPU).
*Owned* says who has the bits. TASKLET_STATE_SCHED has one holder, and it is of one
of four kinds: a `tasklet_vec`, a list that `tasklet_action` took, the tasklet it
looks at, or a call between setting the bit and queueing. Each step that moves a
tasklet moves it from one kind to another; `takeover_tasklets` joins two lists that
are disjoint for this reason. `count` is the number of disablers, so that it is 0
only if there are none; with one runner this gives DisabledIsQuiet.

**WorkQueue.** The inductive invariant has three parts, each of which needs the one
before it.
*Shape* says what a call, a worker and the hotplug task may hold at each of their
places: all frames of a worker but the innermost one flush their workqueue by hand,
a call that grabbed a work is in a cancel, a CPU that is populated but not online is
the one the hotplug task is busy with, and a worker that is stopped, or whose flush
by that task is over, has an empty list unless it is just running something
(`Quiesced`). That a new worker cannot find old works follows from it.
*Owned* says that WORK_STRUCT_PENDING is a lock. The owner of a set bit is of one of
four kinds: a list, the hands of a worker (before `work_clear_pending()`, or about to
queue the work again), a call (between the bit and the queue, or a canceller) or a
timer. Each step that moves a work moves it from one kind to another. `KnowsCwq` (a
work on a list points to that cwq, so that whoever reads the pointer and finds it
unchanged under the lock has found the work) makes the grab of a canceller exact.
`Cancels` says that a canceller has seen the callback end on the CPUs it passed,
and that its barrier is queued, where it waits, as long as the callback runs there;
it holds because nobody else can queue the work while the canceller has the bit.
*Flushed* is about barriers: one is in one place only, and its task waits there; a
callback a flush still has to wait for is on a CPU the flush has yet to pass, and in
front of the barrier if that is queued on the same list, unless it has flushed its
own workqueue ("byhand"), when the invariant says nothing of it. So
`WorkQueueFlushesCover` and `WorkQueueCancelledIsQuiet` are about all callbacks but
these. The arguments about order
use that `list_add()`, `list_add_tail()` and insertion behind an entry keep the order
of all other entries.
Each action has a lemma; actions that differ only in what they move share lemmas
about that (a call that goes on, a worker that changes its place, the innermost
callback going on, an entry that comes to a list). TLC checked this invariant
on the constants of the three work-queue runs before it was proved.

`KernelLemmas` holds the facts the proofs share: what `list_add_tail` and `list_del`
do to members and order, prefixes and joins of lists, lengths as cardinalities.

### Only model-checked

The liveness properties (NoStarvation, ServedWhenQuiet, GracePeriodEnds,
DrainedWhenQuiet, FlushReturns, ScheduledRuns, SettledWhenQuiet), because fairness and
ENABLED are out of the prover's reach. Every invariant and every refinement that a
run checks is also a theorem. The helpers that are recursive functions
(`srcu_readers_active_idx`, `roundup_pow_of_two`) are used in the proofs by what their
defining equation or the assumptions on the constants say of them; what they
compute for every input would be an induction over data, which the prover cannot
instantiate, and TLC's instances evaluate them.

## 5. What is not modelled

* The memory model, except where SRCU depends on it. `Kfifo` is sequentially
  consistent: its barriers are taken to do what their comments say.
* Allocation failures, debugging code (lockdep, the checks of `mutex-debug.c`),
  tracing and statistics. None changes the state that the models keep.
* The wrap of `sp->completed`: the early exit compares a difference of two values,
  of which the older one is a few grace periods behind; a wrap does not change it.
* Of work queues: the freezer, and `schedule_on_each_cpu()` and `work_on_cpu()`,
  which are made of the operations above. A callback that flushes its own
  workqueue is modelled for a single worker only. Of softirqs: those
  queued for other CPUs (`__send_remote_softirq`), and all but the tasklet ones.
* Classic RCU, timers, kernel threads, klists, rt-mutexes, interrupt management
  and futexes have state machines of the same kind and are in the plan below.
* `kfifo_free()` and destruction of locks: the caller has to make sure that
  nobody uses them.
* All of memory management, file systems, networking, block layer, drivers and
  board code: dominated by hardware state or formats, or out of the reach of
  small instances.

## 6. Plan

Done: the locks, the FIFO, SRCU, completions, the page lock, work queues and
tasklets; proofs of all their invariants and refinements.
Next, in order:

1. `Timer` (`kernel/timer.c`): `del_timer_sync` returns only when the handler is
   done; then `WorkQueue` over it.
2. `RcuClassic` (`kernel/rcuclassic.c`): grace-period detection, shown to implement
   the contract of `synchronize_sched()` that `Srcu` uses.
3. `Kthread` (`kernel/kthread.c`): creation and `kthread_stop`, over `Completion`.
4. `Klist` (`lib/klist.c`), `IrqManage` (`kernel/irq/manage.c`), then `RtMutex`
   (`kernel/rtmutex.c`).

Theorems that would come with them: `WorkQueue` over a timer that may fire while it is
deleted, and the contract of `synchronize_sched()` from `RcuClassic`, on which the
theorems about `Srcu` rest.
