-------------------------------- MODULE Srcu --------------------------------
(***************************************************************************)
(* Sleepable read-copy update, kernel/srcu.c.  Readers count themselves in *)
(* one of two ranks of per-CPU counters; synchronize_srcu() flips the rank *)
(* and waits until the old one has drained.                                *)
(*                                                                         *)
(* Neither srcu_read_lock() nor srcu_read_unlock() has a memory barrier:   *)
(* the CPU may reach into the protected data before it samples             *)
(* sp->completed ("hoisting") and after the decrement of the counter is    *)
(* visible ("unlocking"), and an updater's unlinking of the data may       *)
(* become visible after its first read of sp->completed ("called").  Each  *)
(* of these windows closes when the CPU goes through the scheduler, which  *)
(* is what synchronize_sched() waits for.  sp->mutex is the lock that      *)
(* module Mutex models in detail.                                          *)
(***************************************************************************)
EXTENDS MachineInt, FiniteSets

CONSTANTS Readers, Updaters,
          NCPU,          \* the CPUs are 1..NCPU
          MaxCompleted,  \* bound: no synchronize_srcu() is called at this count
          None           \* no owner of the mutex

ASSUME SrcuAssumption ==
    /\ NCPU \in Nat \ {0} /\ MaxCompleted \in Nat
    /\ IsFiniteSet(Readers) /\ Modulus \in Nat /\ Modulus > Cardinality(Readers)
    /\ None \notin Updaters /\ Readers \cap Updaters = {}

CPUs == 1..NCPU

VARIABLES
    completed,  \* sp->completed
    c,          \* sp->per_cpu_ref: c[cpu][idx], ints that drift apart and wrap, since
                \* a reader may come on one CPU and go on another
    mutex,      \* the owner of sp->mutex
    alive,      \* sp->per_cpu_ref is allocated
    rpc, ridx,  \* where a reader is, and the index it passes to srcu_read_unlock()
    rcpu,       \* the CPU of a reader whose window is open
    upc,        \* where an updater is
    idx,        \* the local variable of synchronize_srcu()
    pos, sum,   \* those of srcu_readers_active_idx()
    sched,      \* whom an updater's synchronize_sched() still waits for
    owed        \* the readers that may hold what the updater unlinked

structVars == <<completed, c, alive>>
readerVars == <<rpc, ridx, rcpu>>
updaterVars == <<mutex, upc, idx, pos, sum>>
srcuVars == <<structVars, readerVars, updaterVars, sched, owed>>

\* A reader may hold references to the protected data except when idle, and
\* its CPU must go through the scheduler before it is ordered in these states.
ReaderPCs == {"idle", "hoisting", "locking", "cs", "unlocking"}
WindowPCs == {"hoisting", "locking", "unlocking"}

UpdaterPCs == {"idle", "called", "published", "sched1", "sched2", "scan",
               "sleep", "sched3", "returned"}

\* Who must go through the scheduler before a synchronize_sched() that starts
\* now may return.
Windows == {r \in Readers : rpc[r] \in WindowPCs} \cup
           {u \in Updaters : upc[u] = "called"}

\* t's window closes.
Leave(t) == sched' = [u \in Updaters |-> sched[u] \ {t}]

\* Code with preemption off runs on cpu.
CpuFree(r, cpu) == \A o \in Readers \ {r} : rpc[o] \in WindowPCs => rcpu[o] # cpu

SrcuTypeOK ==
    /\ completed \in Nat
    /\ c \in [CPUs -> [{0, 1} -> 0 .. Modulus - 1]]
    /\ mutex \in Updaters \cup {None}
    /\ alive \in BOOLEAN
    /\ rpc \in [Readers -> ReaderPCs]
    /\ ridx \in [Readers -> {0, 1}]
    /\ rcpu \in [Readers -> CPUs]
    /\ upc \in [Updaters -> UpdaterPCs]
    /\ idx \in [Updaters -> Nat]
    /\ pos \in [Updaters -> 1 .. NCPU + 1]
    /\ sum \in [Updaters -> 0 .. Modulus - 1]
    /\ sched \in [Updaters -> SUBSET (Readers \cup Updaters)]
    /\ owed \in [Updaters -> SUBSET Readers]

\* After init_srcu_struct().
SrcuInit ==
    /\ completed = 0
    /\ c = [cpu \in CPUs |-> [i \in {0, 1} |-> 0]]
    /\ mutex = None
    /\ alive = TRUE
    /\ rpc = [r \in Readers |-> "idle"]
    /\ ridx = [r \in Readers |-> 0]
    /\ rcpu = [r \in Readers |-> 1]
    /\ upc = [u \in Updaters |-> "idle"]
    /\ idx = [u \in Updaters |-> 0]
    /\ pos = [u \in Updaters |-> 1]
    /\ sum = [u \in Updaters |-> 0]
    /\ sched = [u \in Updaters |-> {}]
    /\ owed = [u \in Updaters |-> {}]

------------------------------------------------------------------------------
(* Readers. *)

\* The CPU, on its way to srcu_read_lock(), already fetches protected data.
read_hoist(r) ==
    /\ alive /\ rpc[r] = "idle"
    /\ \E cpu \in CPUs : CpuFree(r, cpu) /\ rcpu' = [rcpu EXCEPT ![r] = cpu]
    /\ rpc' = [rpc EXCEPT ![r] = "hoisting"]
    /\ UNCHANGED <<structVars, ridx, updaterVars, sched, owed>>

\* srcu_read_lock() samples sp->completed.
read_lock_sample(r) ==
    /\ rpc[r] = "hoisting"
    /\ ridx' = [ridx EXCEPT ![r] = completed % 2]
    /\ rpc' = [rpc EXCEPT ![r] = "locking"]
    /\ UNCHANGED <<structVars, rcpu, updaterVars, sched, owed>>

\* It counts the reader and switches preemption on again.
read_lock_count(r) ==
    /\ rpc[r] = "locking"
    /\ c' = [c EXCEPT ![rcpu[r]][ridx[r]] = Wrap(@ + 1)]
    /\ rpc' = [rpc EXCEPT ![r] = "cs"]
    /\ rcpu' = [rcpu EXCEPT ![r] = 1]
    /\ Leave(r)
    /\ UNCHANGED <<completed, alive, ridx, updaterVars, owed>>

\* srcu_read_unlock(), perhaps on another CPU.
srcu_read_unlock(r) ==
    /\ rpc[r] = "cs"
    /\ \E cpu \in CPUs : /\ CpuFree(r, cpu)
                         /\ rcpu' = [rcpu EXCEPT ![r] = cpu]
                         /\ c' = [c EXCEPT ![cpu][ridx[r]] = Wrap(@ - 1)]
    /\ rpc' = [rpc EXCEPT ![r] = "unlocking"]
    /\ UNCHANGED <<completed, alive, ridx, updaterVars, sched, owed>>

\* The last reference of the critical section is gone.
read_drain(r) ==
    /\ rpc[r] = "unlocking"
    /\ rpc' = [rpc EXCEPT ![r] = "idle"]
    /\ ridx' = [ridx EXCEPT ![r] = 0]
    /\ rcpu' = [rcpu EXCEPT ![r] = 1]
    /\ Leave(r)
    /\ owed' = [u \in Updaters |-> owed[u] \ {r}]
    /\ UNCHANGED <<structVars, updaterVars>>

------------------------------------------------------------------------------
(* Updaters. *)

goto(u, p) == upc' = [upc EXCEPT ![u] = p]

\* synchronize_sched() starts; the updater goes on when sched[u] is empty.
synchronize_sched(u) == sched' = [sched EXCEPT ![u] = Windows]

\* synchronize_srcu() reads sp->completed.
sync_call(u) ==
    /\ alive /\ upc[u] = "idle" /\ completed < MaxCompleted
    /\ idx' = [idx EXCEPT ![u] = completed]
    /\ goto(u, "called")
    /\ UNCHANGED <<structVars, readerVars, mutex, pos, sum, sched, owed>>

\* Everybody sees that the caller unlinked the data, before mutex_lock() at
\* the latest: only readers that are under way can hold it.
sync_publish(u) ==
    /\ upc[u] = "called"
    /\ owed' = [owed EXCEPT ![u] = {r \in Readers : rpc[r] # "idle"}]
    /\ goto(u, "published")
    /\ Leave(u)
    /\ UNCHANGED <<structVars, readerVars, mutex, idx, pos, sum>>

\* Faulty variant: one advance is taken to be enough.
others_did_it_once(u) == completed - idx[u] >= 1

\* Someone else did the work: two advances of the counter are enough.
others_did_it(u) == completed - idx[u] >= 2

sync_lock(u) ==
    /\ upc[u] = "published" /\ mutex = None
    /\ IF others_did_it(u)
       THEN /\ idx' = [idx EXCEPT ![u] = 0]
            /\ goto(u, "returned")
            /\ UNCHANGED <<mutex, sched>>
       ELSE /\ mutex' = u
            /\ synchronize_sched(u)
            /\ goto(u, "sched1")
            /\ UNCHANGED idx
    /\ UNCHANGED <<structVars, readerVars, pos, sum, owed>>

\* Faulty variant: the second synchronize_sched() is left out.
sync_flip_no_sched(u) ==
    /\ upc[u] = "sched1" /\ sched[u] = {}
    /\ idx' = [idx EXCEPT ![u] = completed % 2]
    /\ completed' = completed + 1
    /\ goto(u, "sched2")
    /\ UNCHANGED <<c, alive, readerVars, mutex, pos, sum, sched, owed>>

\* Faulty variant: new readers go on using the old rank.
sync_flip_forgotten(u) ==
    /\ upc[u] = "sched1" /\ sched[u] = {}
    /\ idx' = [idx EXCEPT ![u] = completed % 2]
    /\ synchronize_sched(u)
    /\ goto(u, "sched2")
    /\ UNCHANGED <<structVars, readerVars, mutex, pos, sum, owed>>

sync_flip(u) ==
    /\ upc[u] = "sched1" /\ sched[u] = {}
    /\ idx' = [idx EXCEPT ![u] = completed % 2]
    /\ completed' = completed + 1
    /\ synchronize_sched(u)
    /\ goto(u, "sched2")
    /\ UNCHANGED <<c, alive, readerVars, mutex, pos, sum, owed>>

\* srcu_readers_active_idx() starts, at first and again after every sleep.
scan_start(u) ==
    /\ \/ upc[u] = "sched2" /\ sched[u] = {}
       \/ upc[u] = "sleep"
    /\ pos' = [pos EXCEPT ![u] = 1]
    /\ sum' = [sum EXCEPT ![u] = 0]
    /\ goto(u, "scan")
    /\ UNCHANGED <<structVars, readerVars, mutex, idx, sched, owed>>

\* It adds up the counters of one CPU after the other.
scan_add(u) ==
    /\ upc[u] = "scan" /\ pos[u] <= NCPU
    /\ sum' = [sum EXCEPT ![u] = Wrap(@ + c[pos[u]][idx[u]])]
    /\ pos' = [pos EXCEPT ![u] = @ + 1]
    /\ UNCHANGED <<structVars, readerVars, mutex, upc, idx, sched, owed>>

\* schedule_timeout_interruptible(1) if there are readers left.
scan_end(u) ==
    /\ upc[u] = "scan" /\ pos[u] > NCPU
    /\ IF sum[u] # 0
       THEN goto(u, "sleep") /\ UNCHANGED sched
       ELSE goto(u, "sched3") /\ synchronize_sched(u)
    /\ pos' = [pos EXCEPT ![u] = 1]
    /\ sum' = [sum EXCEPT ![u] = 0]
    /\ UNCHANGED <<structVars, readerVars, mutex, idx, owed>>

sync_return(u) ==
    /\ upc[u] = "sched3" /\ sched[u] = {}
    /\ mutex' = None
    /\ idx' = [idx EXCEPT ![u] = 0]
    /\ goto(u, "returned")
    /\ UNCHANGED <<structVars, readerVars, pos, sum, sched, owed>>

\* The caller frees what it unlinked.
caller_frees(u) ==
    /\ upc[u] = "returned"
    /\ owed' = [owed EXCEPT ![u] = {}]
    /\ goto(u, "idle")
    /\ UNCHANGED <<structVars, readerVars, mutex, idx, pos, sum, sched>>

------------------------------------------------------------------------------
\* The counters of rank i on all CPUs, added up.
srcu_readers_active_idx(i) ==
    LET total[cpu \in 0..NCPU] == IF cpu = 0 THEN 0 ELSE Wrap(total[cpu - 1] + c[cpu][i])
    IN  total[NCPU]

\* Faulty variant: the readers of one rank only.
srcu_readers_active_one_rank == srcu_readers_active_idx(0)

srcu_readers_active == Wrap(srcu_readers_active_idx(0) + srcu_readers_active_idx(1))

\* cleanup_srcu_struct(): the caller makes sure that no call is under way, the
\* code that no critical section is.
cleanup_srcu_struct ==
    /\ alive /\ Windows = {} /\ \A u \in Updaters : upc[u] = "idle"
    /\ srcu_readers_active = 0
    /\ alive' = FALSE
    /\ UNCHANGED <<completed, c, readerVars, updaterVars, sched, owed>>

init_srcu_struct ==
    /\ ~alive
    /\ completed' = 0
    /\ c' = [cpu \in CPUs |-> [i \in {0, 1} |-> 0]]
    /\ alive' = TRUE
    /\ UNCHANGED <<readerVars, updaterVars, sched, owed>>

Reader(r) == \/ read_hoist(r) \/ read_lock_sample(r) \/ read_lock_count(r)
             \/ srcu_read_unlock(r) \/ read_drain(r)

\* The steps of a synchronize_srcu() that has been called.
Synchronize(u) == \/ sync_publish(u) \/ sync_lock(u) \/ sync_flip(u)
                  \/ scan_start(u) \/ scan_add(u) \/ scan_end(u) \/ sync_return(u)

SrcuNext == \/ \E r \in Readers : Reader(r)
        \/ \E u \in Updaters : sync_call(u) \/ Synchronize(u) \/ caller_frees(u)
        \/ cleanup_srcu_struct \/ init_srcu_struct

SrcuSpec == SrcuInit /\ [][SrcuNext]_srcuVars

\* CPUs go on executing, and readers leave their critical sections.
SrcuFairSpec ==
    /\ SrcuSpec
    /\ \A r \in Readers : WF_srcuVars(read_lock_sample(r) \/ read_lock_count(r)
                                    \/ srcu_read_unlock(r) \/ read_drain(r))
    /\ \A u \in Updaters : WF_srcuVars(Synchronize(u))

------------------------------------------------------------------------------
\* When synchronize_srcu() returns, by whichever exit, nobody can still hold
\* what the caller unlinked before the call.
GracePeriod == \A u \in Updaters : upc[u] = "returned" => owed[u] = {}

\* The comment at line 195: after the second synchronize_sched(), no
\* srcu_read_lock() that uses the old counters is still executing.
OldLocksDone ==
    \A u \in Updaters : upc[u] \in {"scan", "sleep", "sched3"} =>
       \A r \in Readers : ~(rpc[r] = "locking" /\ ridx[r] = idx[u])

\* The counters, which a reader may raise on one CPU and lower on another, are
\* not read at one instant; yet when their sum comes out 0 no critical section
\* of the old rank is left, and none begins until the flip after next.
OldRankDrained ==
    \A u \in Updaters : upc[u] = "sched3" =>
       \A r \in Readers : ~(rpc[r] = "cs" /\ ridx[r] = idx[u])

\* The rank that a synchronize_srcu() waits for only drains after the flip: no
\* late srcu_read_lock() joins it, and it is empty when the sum is 0.
RankDrains == SrcuTypeOK /\ OldLocksDone /\ OldRankDrained

\* cleanup_srcu_struct() frees the counters only when no critical section is
\* left that would still lower one.
NotFreedInUse == ~alive => \A r \in Readers : rpc[r] = "idle"

\* A synchronize_srcu() that waits is not held up by readers who come after
\* the flip, however many.  The updaters are all alike, so one is watched.
GracePeriodEnds == LET u == CHOOSE v \in Updaters : TRUE IN
    upc[u] = "sched1" ~> upc[u] = "returned"
==============================================================================
