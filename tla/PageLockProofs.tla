---------------------------- MODULE PageLockProofs ---------------------------
(***************************************************************************)
(* Proofs about the bits of pages, for any pages and any finite set of     *)
(* tasks: nobody sleeps on a clear bit unless somebody is sure to act for  *)
(* it.                                                                     *)
(***************************************************************************)
EXTENDS PageLock, KernelLemmas

\* What the frame of a call may say: exclusive waiters want the lock, nobody
\* sleeps interruptibly, and an owner's frame is one of lock_page().
FrameOk(t) ==
    /\ frame[t].mode \in {TASK_UNINTERRUPTIBLE, TASK_KILLABLE}
    /\ frame[t].exclusive => frame[t].key[2] = "locked"
    /\ pc[t] = "held" => frame[t].exclusive

\* Who has announced a sleep is queued: only a wake-up from the sleep itself
\* takes an entry off behind its task's back.
SleepOk(t) ==
    /\ "INTERRUPTIBLE" \notin state[t]
    /\ state[t] # TASK_RUNNING => t \in Members(wait)
    /\ ~on_rq[t] => pc[t] = "sched" /\ state[t] # TASK_RUNNING
    /\ pc[t] = "abort" => state[t] = TASK_RUNNING

\* t owns the page of key k.
Owns(t, k) == frame[t].key = k /\ frame[t].exclusive /\ pc[t] \in {"held", "finish"}

\* A page is locked exactly if one task, and no other, owns it.
Owned == \A p \in Pages :
    /\ Locked(p) \in flags <=> \E t \in Tasks : Owns(t, Locked(p))
    /\ \A t, u \in Tasks : Owns(t, Locked(p)) /\ Owns(u, Locked(p)) => t = u

\* A task that was woken acts if the wake-up took it off the queue: one that a
\* signal woke may leave, and is still queued then.
SureToAct(t, k) == ActsFor(t, k) /\ (pc[t] = "sched" => t \notin Members(wait))

\* Nobody sleeps on a clear bit unless somebody is sure to act for it.
Promised == \A s \in Tasks :
    Asleep(s) /\ frame[s].key \notin flags =>
       \/ \E p \in ended : frame[s].key = Writeback(p)
       \/ \E t \in Tasks : /\ SureToAct(t, frame[s].key)
                           /\ ~frame[s].exclusive => pc[t] = "wake"

\* The inductive invariant: the properties of the queue and the calls that the
\* promise of a wake-up depends on, and the promise.
PageIInv == /\ TypeOK /\ QueuedIsWaiting /\ ReadersInFront
            /\ \A t \in Tasks : FrameOk(t) /\ SleepOk(t)
            /\ Owned /\ Promised

USE DEF TASK_RUNNING, TASK_INTERRUPTIBLE, TASK_UNINTERRUPTIBLE, TASK_KILLABLE,
        TASK_ALL, TASK_NORMAL

\* The types of what the proofs compute with.
LEMMA PageTypes ==
    ASSUME PageIInv
    PROVE  /\ wait \in Seq(Tasks) /\ NoDup(wait) /\ Len(wait) \in Nat
           /\ Members(wait) \subseteq Tasks
           /\ flags \subseteq Keys /\ ended \subseteq Pages
           /\ \A t \in Tasks : /\ frame[t].key \in Keys
                               /\ pc[t] \in {"idle", "held", "wake"} \cup WaitPCs
                               /\ frame[t].exclusive \in BOOLEAN
           /\ \A p, r : /\ Locked(p) # Writeback(r)
                        /\ Locked(p) = Locked(r) => p = r
                        /\ Writeback(p) = Writeback(r) => p = r
<1>1. wait \in Seq(Tasks) /\ NoDup(wait) /\ flags \subseteq Keys /\ ended \subseteq Pages
  BY DEF PageIInv, TypeOK
<1>2. Members(wait) \subseteq Tasks /\ Len(wait) \in Nat
  BY <1>1 DEF Members
<1>3. \A t \in Tasks : /\ frame[t].key \in Keys /\ frame[t].exclusive \in BOOLEAN
                       /\ pc[t] \in {"idle", "held", "wake"} \cup WaitPCs
  BY DEF PageIInv, TypeOK, Frames
<1> QED BY <1>1, <1>2, <1>3 DEF Locked, Writeback

\* A key is one of a page's lock or of its writeback.
LEMMA PageKeys ==
    ASSUME NEW k \in Keys
    PROVE  \E p \in Pages : k = Locked(p) \/ k = Writeback(p)
<1>1. PICK p \in Pages, b \in Bits : k = <<p, b>>
  BY DEF Keys
<1>2. b \in {"locked", "writeback"}
  BY PageLockAssumption
<1> QED BY <1>1, <1>2 DEF Locked, Writeback

\* A call of t moves on: other calls stay where they are.
LEMMA PageMoves ==
    ASSUME TypeOK, NEW t \in Tasks
    PROVE  /\ \A x : Goto(t, x) => pc'[t] = x /\ \A u \in Tasks \ {t} : pc'[u] = pc[u]
           /\ \A x \in {"idle", "held", "wake"} \cup WaitPCs :
                 Goto(t, x) => pc' \in [Tasks -> {"idle", "held", "wake"} \cup WaitPCs]
           /\ \A f : frame' = [frame EXCEPT ![t] = f]
                 => frame'[t] = f /\ \A u \in Tasks \ {t} : frame'[u] = frame[u]
           /\ \A f \in Frames : frame' = [frame EXCEPT ![t] = f] => frame' \in [Tasks -> Frames]
           /\ \A x : state' = [state EXCEPT ![t] = x]
                 => state'[t] = x /\ \A u \in Tasks \ {t} : state'[u] = state[u]
<1>1. \A x : Goto(t, x) => pc'[t] = x /\ \A u \in Tasks \ {t} : pc'[u] = pc[u]
  BY DEF TypeOK, Goto
<1>2. \A x \in {"idle", "held", "wake"} \cup WaitPCs :
          Goto(t, x) => pc' \in [Tasks -> {"idle", "held", "wake"} \cup WaitPCs]
  BY DEF TypeOK, Goto
<1>3. \A f : frame' = [frame EXCEPT ![t] = f]
                 => frame'[t] = f /\ \A u \in Tasks \ {t} : frame'[u] = frame[u]
  BY DEF TypeOK
<1>4. \A f \in Frames : frame' = [frame EXCEPT ![t] = f] => frame' \in [Tasks -> Frames]
  BY DEF TypeOK
<1>5. \A x : state' = [state EXCEPT ![t] = x]
                 => state'[t] = x /\ \A u \in Tasks \ {t} : state'[u] = state[u]
  BY DEF TypeOK, WaitQueueTypeOK, TaskTypeOK
<1> QED BY <1>1, <1>2, <1>3, <1>4, <1>5

\* The calls of the other tasks, and their entries on the queue, stay.
OthersStay(t) == /\ \A u \in Tasks \ {t} : /\ pc'[u] = pc[u] /\ frame'[u] = frame[u]
                                           /\ state'[u] = state[u] /\ on_rq'[u] = on_rq[u]
                                           /\ u \in Members(wait') <=> u \in Members(wait)
                 /\ ended' = ended

\* t sleeps on nothing that it did not sleep on before, and still acts for the
\* bits that are clear.
KeepsPromise(t) ==
    /\ flags \subseteq flags'
    /\ Asleep(t)' => frame'[t].key \in flags' \/ (Asleep(t) /\ frame'[t] = frame[t])
    /\ \A k : SureToAct(t, k) => \/ k \in flags'
                                 \/ SureToAct(t, k)' /\ (pc[t] = "wake" => pc'[t] = "wake")

\* What holds of every call and every entry holds again when it holds of t's.
LEMMA PageStep ==
    ASSUME PageIInv, NEW t \in Tasks,
           \A u \in Tasks \ {t} : /\ pc'[u] = pc[u] /\ frame'[u] = frame[u]
                                  /\ state'[u] = state[u] /\ on_rq'[u] = on_rq[u]
                                  /\ u \in Members(wait') <=> u \in Members(wait),
           TypeOK', FrameOk(t)', SleepOk(t)', ReadersInFront', Owned', Promised',
           t \in Members(wait') => Waiting(t)'
    PROVE  PageIInv'
<1>1. QueuedIsWaiting'
  <2> SUFFICES ASSUME NEW u \in Members(wait')
               PROVE  Waiting(u)'
    BY DEF QueuedIsWaiting
  <2>1. u \in Tasks
    BY DEF TypeOK, Members
  <2> QED BY <2>1 DEF PageIInv, QueuedIsWaiting, Waiting
<1>2. \A u \in Tasks : FrameOk(u)' /\ SleepOk(u)'
  BY DEF PageIInv, FrameOk, SleepOk
<1> QED BY <1>1, <1>2 DEF PageIInv

\* A step of a call does no harm if it takes care of these.
LEMMA PageCallStep ==
    ASSUME PageIInv, NEW t \in Tasks, OthersStay(t), KeepsPromise(t),
           TypeOK', FrameOk(t)', SleepOk(t)', ReadersInFront', Owned',
           t \in Members(wait') => Waiting(t)'
    PROVE  PageIInv'
<1> USE DEF OthersStay
<1>3. ASSUME NEW s \in Tasks, Asleep(s)', frame'[s].key \notin flags'
      PROVE  Asleep(s) /\ frame'[s] = frame[s] /\ frame[s].key \notin flags
  BY <1>3 DEF KeepsPromise, Asleep
<1>4. ASSUME NEW u \in Tasks, NEW k, k \notin flags', SureToAct(u, k)
      PROVE  SureToAct(u, k)' /\ (pc[u] = "wake" => pc'[u] = "wake")
  <2>1. CASE u = t
    BY <1>4, <2>1 DEF KeepsPromise
  <2>2. CASE u # t
    BY <1>4, <2>2 DEF SureToAct, ActsFor
  <2> QED BY <2>1, <2>2
<1>5. Promised'
  <2> SUFFICES ASSUME NEW s \in Tasks, Asleep(s)', frame'[s].key \notin flags'
               PROVE  \/ \E p \in ended' : frame'[s].key = Writeback(p)
                      \/ \E u \in Tasks : /\ SureToAct(u, frame[s].key)'
                                          /\ ~frame'[s].exclusive => pc'[u] = "wake"
    BY DEF Promised
  <2>1. Asleep(s) /\ frame'[s] = frame[s] /\ frame[s].key \notin flags
    BY <1>3
  <2>2. CASE \E p \in ended : frame[s].key = Writeback(p)
    BY <2>1, <2>2
  <2>3. CASE \E u \in Tasks : /\ SureToAct(u, frame[s].key)
                              /\ ~frame[s].exclusive => pc[u] = "wake"
    <3>1. PICK u \in Tasks : /\ SureToAct(u, frame[s].key)
                             /\ ~frame[s].exclusive => pc[u] = "wake"
      BY <2>3
    <3>2. SureToAct(u, frame[s].key)' /\ (pc[u] = "wake" => pc'[u] = "wake")
      <4>1. ASSUME NEW k, k = frame[s].key
            PROVE  SureToAct(u, k)' /\ (pc[u] = "wake" => pc'[u] = "wake")
        BY <1>4, <2>1, <3>1, <4>1
      <4> QED BY <2>1, <4>1 DEF SureToAct, ActsFor
    <3> QED BY <2>1, <3>1, <3>2
  <2> QED BY <2>1, <2>2, <2>3 DEF PageIInv, Promised
<1> QED BY <1>5, PageStep

\* The owners stay, one comes, or one goes.
LEMMA PageOwned ==
    ASSUME PageIInv, NEW t \in Tasks,
           \A u \in Tasks \ {t} : pc'[u] = pc[u] /\ frame'[u] = frame[u]
    PROVE  /\ (\A p \in Pages : /\ Owns(t, Locked(p))' <=> Owns(t, Locked(p))
                                /\ Locked(p) \in flags' <=> Locked(p) \in flags)
                 => Owned'
           /\ \A r \in Pages :
                 /\ Locked(r) \notin flags /\ flags' = flags \cup {Locked(r)}
                 /\ \A p \in Pages : /\ ~Owns(t, Locked(p))
                                     /\ Owns(t, Locked(p))' <=> p = r
                 => Owned'
           /\ \A r \in Pages :
                 /\ Owns(t, Locked(r)) /\ flags' = flags \ {Locked(r)}
                 /\ \A p \in Pages : ~Owns(t, Locked(p))'
                 => Owned'
<1>1. \A u \in Tasks \ {t} : \A k : Owns(u, k)' <=> Owns(u, k)
  BY DEF Owns
<1>2. \A u \in Tasks, p, r \in Pages : Owns(u, Locked(p)) /\ Owns(u, Locked(r)) => p = r
  BY PageTypes DEF Owns
<1>3. ASSUME \A p \in Pages : /\ Owns(t, Locked(p))' <=> Owns(t, Locked(p))
                              /\ Locked(p) \in flags' <=> Locked(p) \in flags
      PROVE  Owned'
  BY <1>1, <1>3 DEF PageIInv, Owned
<1>4. ASSUME NEW r \in Pages, Locked(r) \notin flags, flags' = flags \cup {Locked(r)},
             \A p \in Pages : /\ ~Owns(t, Locked(p))
                              /\ Owns(t, Locked(p))' <=> p = r
      PROVE  Owned'
  <2>1. \A p \in Pages : Locked(p) \in flags' <=> Locked(p) \in flags \/ p = r
    BY <1>4, PageTypes
  <2>2. ASSUME NEW p \in Pages, NEW u \in Tasks, p # r
        PROVE  Owns(u, Locked(p))' <=> Owns(u, Locked(p))
    BY <1>1, <1>4, <2>2
  <2>3. ASSUME NEW u \in Tasks
        PROVE  Owns(u, Locked(r))' <=> u = t
    BY <1>1, <1>4 DEF PageIInv, Owned
  <2> QED BY <2>1, <2>2, <2>3 DEF PageIInv, Owned
<1>5. ASSUME NEW r \in Pages, Owns(t, Locked(r)), flags' = flags \ {Locked(r)},
             \A p \in Pages : ~Owns(t, Locked(p))'
      PROVE  Owned'
  <2>1. \A p \in Pages : Locked(p) \in flags' <=> Locked(p) \in flags /\ p # r
    BY <1>5, PageTypes
  <2>2. ASSUME NEW p \in Pages, NEW u \in Tasks, p # r
        PROVE  Owns(u, Locked(p))' <=> Owns(u, Locked(p))
    BY <1>1, <1>2, <1>5, <2>2
  <2>3. ASSUME NEW u \in Tasks
        PROVE  ~Owns(u, Locked(r))'
    BY <1>1, <1>5 DEF PageIInv, Owned
  <2> QED BY <2>1, <2>2, <2>3 DEF PageIInv, Owned
<1> QED BY <1>3, <1>4, <1>5

\* Who stays on the queue with the same frame stays in order.
LEMMA PageInFront ==
    ASSUME PageIInv, NEW t \in Tasks, OthersStay(t)
    PROVE  /\ wait' = wait /\ (t \in Members(wait) => frame'[t] = frame[t]) => ReadersInFront'
           /\ wait' = wait /\ t \notin Members(wait) => ReadersInFront'
<1>1. \A i \in 1..Len(wait) : wait[i] \in Tasks /\ wait[i] \in Members(wait)
  BY PageTypes DEF Members
<1> QED BY <1>1 DEF PageIInv, ReadersInFront, OthersStay

------------------------------------------------------------------------------
\* A new call of lock_page() or trylock_page(), or one that has to wait.
LEMMA PageCall ==
    ASSUME PageIInv, NEW t \in Tasks, NEW p \in Pages,
           \/ \E m \in LockModes(t) : lock_page(t, p, m)
           \/ trylock_page(t, p)
           \/ \E b \in Bits : wait_on_page_bit(t, <<p, b>>)
    PROVE  PageIInv'
<1>1. /\ pc[t] = "idle" /\ UNCHANGED <<state, pending, on_rq, wait, ended>>
      /\ \E f \in Frames, x \in {"held", "prepare"} :
            /\ Goto(t, x) /\ frame' = [frame EXCEPT ![t] = f]
            /\ f.mode \in {TASK_UNINTERRUPTIBLE, TASK_KILLABLE}
            /\ f.exclusive => f.key = Locked(p)
            /\ \/ x = "held" /\ f.exclusive /\ Locked(p) \notin flags /\ flags' = flags \cup {Locked(p)}
               \/ x = "prepare" /\ flags' = flags
  <2>1. \A b \in Bits, m \in {TASK_UNINTERRUPTIBLE, TASK_KILLABLE}, e \in BOOLEAN :
           LET f == Frame(<<p, b>>, m, e)
           IN f \in Frames /\ f.mode = m /\ f.exclusive = e /\ f.key = <<p, b>>
    BY DEF Frame, Frames, Keys, SleepStates
  <2>2. "locked" \in Bits /\ Locked(p) = <<p, "locked">>
    BY PageLockAssumption DEF Locked
  <2>3. CASE \E m \in LockModes(t) : lock_page(t, p, m)
    <3>1. PICK m \in {TASK_UNINTERRUPTIBLE, TASK_KILLABLE} : lock_page(t, p, m)
      BY <2>3 DEF LockModes
    <3>2. \A n \in {m, TASK_UNINTERRUPTIBLE} :
             LET f == Frame(Locked(p), n, TRUE)
             IN f \in Frames /\ f.mode = n /\ f.exclusive = TRUE /\ f.key = Locked(p)
      <4>1. m \in {TASK_UNINTERRUPTIBLE, TASK_KILLABLE} /\ TRUE \in BOOLEAN
        OBVIOUS
      <4>2. ASSUME NEW n \in {TASK_UNINTERRUPTIBLE, TASK_KILLABLE}
            PROVE  LET f == Frame(Locked(p), n, TRUE)
                   IN f \in Frames /\ f.mode = n /\ f.exclusive = TRUE /\ f.key = Locked(p)
        BY <2>1, <2>2, <4>1
      <4> QED BY <4>1, <4>2
    <3>3. CASE Locked(p) \notin flags
      BY <3>1, <3>2, <3>3 DEF lock_page, Hold, wqVars, taskVars
    <3>4. CASE Locked(p) \in flags
      BY <3>1, <3>2, <3>4 DEF lock_page, wqVars, taskVars
    <3> QED BY <3>3, <3>4
  <2>4. CASE trylock_page(t, p)
    <3>1. LET f == Frame(Locked(p), TASK_UNINTERRUPTIBLE, TRUE)
          IN /\ f \in Frames /\ f.mode = TASK_UNINTERRUPTIBLE /\ f.exclusive = TRUE
             /\ f.key = Locked(p)
      BY <2>1, <2>2
    <3> QED BY <2>4, <3>1 DEF trylock_page, Hold, wqVars, taskVars
  <2>5. CASE \E b \in Bits : wait_on_page_bit(t, <<p, b>>)
    <3>1. PICK b \in Bits : wait_on_page_bit(t, <<p, b>>)
      BY <2>5
    <3>2. LET f == Frame(<<p, b>>, TASK_UNINTERRUPTIBLE, FALSE)
          IN /\ f \in Frames /\ f.mode = TASK_UNINTERRUPTIBLE /\ f.exclusive = FALSE
      BY <2>1
    <3> QED BY <3>1, <3>2 DEF wait_on_page_bit, wqVars, taskVars
  <2> QED BY <2>3, <2>4, <2>5
<1>2. PICK f \in Frames, x \in {"held", "prepare"} :
            /\ Goto(t, x) /\ frame' = [frame EXCEPT ![t] = f]
            /\ f.mode \in {TASK_UNINTERRUPTIBLE, TASK_KILLABLE}
            /\ f.exclusive => f.key = Locked(p)
            /\ \/ x = "held" /\ f.exclusive /\ Locked(p) \notin flags /\ flags' = flags \cup {Locked(p)}
               \/ x = "prepare" /\ flags' = flags
  BY <1>1
<1>3. TypeOK
  BY DEF PageIInv
<1>4. /\ pc'[t] = x /\ frame'[t] = f /\ pc' \in [Tasks -> {"idle", "held", "wake"} \cup WaitPCs]
      /\ frame' \in [Tasks -> Frames]
      /\ \A u \in Tasks \ {t} : pc'[u] = pc[u] /\ frame'[u] = frame[u]
  BY <1>2, <1>3, PageMoves DEF WaitPCs
<1>5. OthersStay(t)
  BY <1>1, <1>4 DEF OthersStay
<1>6. t \notin Members(wait) /\ state[t] = TASK_RUNNING /\ on_rq[t] = TRUE
  <2>1. t \notin Members(wait)
    BY <1>1 DEF PageIInv, QueuedIsWaiting, Waiting, WaitPCs
  <2> QED BY <1>1, <2>1 DEF PageIInv, SleepOk, TypeOK, WaitQueueTypeOK
<1>7. TypeOK'
  <2>1. Locked(p) \in Keys
    BY PageLockAssumption DEF Locked, Keys
  <2> QED BY <1>1, <1>2, <1>3, <1>4, <2>1 DEF TypeOK, WaitQueueTypeOK, TaskTypeOK
<1>8. FrameOk(t)'
  BY <1>2, <1>4 DEF FrameOk, Locked
<1>9. SleepOk(t)'
  BY <1>1, <1>6 DEF SleepOk
<1>10. ReadersInFront'
  BY <1>1, <1>5, <1>6, PageInFront
<1>11. Owned'
  <2>1. \A q \in Pages : ~Owns(t, Locked(q))
    BY <1>1 DEF Owns
  <2>2. CASE x = "held"
    <3>1. \A q \in Pages : Owns(t, Locked(q))' <=> q = p
      BY <1>2, <1>4, <2>2, PageTypes DEF Owns
    <3> QED BY <1>2, <1>4, <2>1, <2>2, <3>1, PageOwned
  <2>3. CASE x = "prepare"
    <3>1. \A q \in Pages : ~Owns(t, Locked(q))'
      BY <1>4, <2>3 DEF Owns
    <3> QED BY <1>2, <1>4, <2>1, <2>3, <3>1, PageOwned
  <2> QED BY <2>2, <2>3
<1>12. KeepsPromise(t)
  <2>1. flags \subseteq flags'
    BY <1>2
  <2>2. ~Asleep(t)'
    BY <1>4 DEF Asleep
  <2>3. \A k : ~SureToAct(t, k)
    BY <1>1 DEF SureToAct, ActsFor
  <2> QED BY <2>1, <2>2, <2>3 DEF KeepsPromise
<1> QED BY <1>1, <1>5, <1>6, <1>7, <1>8, <1>9, <1>10, <1>11, <1>12, PageCallStep

\* prepare_to_wait(): readers in front, those that want the page behind.
LEMMA PagePrepare ==
    ASSUME PageIInv, NEW t \in Tasks, prepare_to_wait(t)
    PROVE  PageIInv'
<1> USE DEF prepare_to_wait
<1>1. TypeOK /\ FrameOk(t) /\ SleepOk(t)
  BY DEF PageIInv
<1>2. /\ pc[t] = "prepare" /\ pc'[t] = "test" /\ state'[t] = frame[t].mode
      /\ pc' \in [Tasks -> {"idle", "held", "wake"} \cup WaitPCs]
      /\ \A u \in Tasks \ {t} : pc'[u] = pc[u] /\ state'[u] = state[u]
      /\ UNCHANGED <<pending, on_rq, flags, frame, ended>>
  <2>1. Goto(t, "test") /\ state' = [state EXCEPT ![t] = frame[t].mode]
    OBVIOUS
  <2>2. pc'[t] = "test" /\ \A u \in Tasks \ {t} : pc'[u] = pc[u]
    BY <1>1, <2>1, PageMoves
  <2>3. pc' \in [Tasks -> {"idle", "held", "wake"} \cup WaitPCs]
    <3>1. "test" \in {"idle", "held", "wake"} \cup WaitPCs
      BY DEF WaitPCs
    <3> QED BY <1>1, <2>1, <3>1, PageMoves
  <2>4. state'[t] = frame[t].mode /\ \A u \in Tasks \ {t} : state'[u] = state[u]
    BY <1>1, <2>1, PageMoves
  <2> QED BY <2>2, <2>3, <2>4
<1>3. /\ wait' \in Seq(Tasks) /\ NoDup(wait')
      /\ Members(wait') = Members(wait) \cup {t}
      /\ ReadersInFront'
  <2>1. CASE t \in Members(wait)
    <3>1. wait' = wait
      BY <2>1
    <3>2. ReadersInFront'
      BY <1>2, <3>1 DEF PageIInv, ReadersInFront
    <3> QED BY <2>1, <3>1, <3>2, PageTypes
  <2>2. CASE t \notin Members(wait) /\ frame[t].exclusive
    <3>1. wait' = list_add_tail(wait, t)
      BY <2>2
    <3>2. /\ wait' \in Seq(Tasks) /\ NoDup(wait') /\ Members(wait') = Members(wait) \cup {t}
      BY <2>2, <3>1, AddTailProperties, PageTypes
    <3>3. /\ Len(wait') = Len(wait) + 1 /\ wait'[Len(wait) + 1] = t
          /\ \A i \in 1..Len(wait) : wait'[i] = wait[i]
      BY <3>1, PageTypes DEF list_add_tail
    <3>4. ReadersInFront'
      BY <1>2, <2>2, <3>3, PageTypes DEF PageIInv, ReadersInFront
    <3> QED BY <3>2, <3>4
  <2>3. CASE t \notin Members(wait) /\ ~frame[t].exclusive
    <3>1. wait' = <<t>> \o wait
      BY <2>3
    <3>2. /\ wait' \in Seq(Tasks) /\ NoDup(wait') /\ Members(wait') = Members(wait) \cup {t}
          /\ wait'[1] = t
          /\ \A i \in 1..Len(wait') : i > 1 => i - 1 \in 1..Len(wait) /\ wait'[i] = wait[i - 1]
      BY <2>3, <3>1, AddHeadProperties, PageTypes
    <3>3. ReadersInFront'
      <4> SUFFICES ASSUME NEW i \in 1..Len(wait'), NEW j \in 1..Len(wait'),
                          frame[wait'[i]].exclusive, ~frame[wait'[j]].exclusive
                   PROVE  j < i
        BY <1>2 DEF ReadersInFront
      <4>1. i > 1
        BY <2>3, <3>2
      <4>2. CASE j = 1
        BY <4>1, <4>2
      <4>3. CASE j > 1
        <5>1. j - 1 < i - 1
          BY <3>2, <4>1, <4>3 DEF PageIInv, ReadersInFront
        <5> QED BY <5>1
      <4> QED BY <4>2, <4>3
    <3> QED BY <3>2, <3>3
  <2> QED BY <2>1, <2>2, <2>3
<1>4. TypeOK'
  BY <1>1, <1>2, <1>3 DEF TypeOK, WaitQueueTypeOK, TaskTypeOK, Frames, SleepStates
<1>5. OthersStay(t)
  BY <1>2, <1>3 DEF OthersStay
<1>6. FrameOk(t)' /\ SleepOk(t)'
  BY <1>1, <1>2, <1>3 DEF FrameOk, SleepOk
<1>7. Owned'
  BY <1>2, PageOwned DEF Owns
<1>8. KeepsPromise(t)
  BY <1>2 DEF KeepsPromise, Asleep, SureToAct, ActsFor
<1> QED BY <1>2, <1>3, <1>4, <1>5, <1>6, <1>7, <1>8, PageCallStep DEF Waiting, WaitPCs

\* Looking at the bit, with the entry on the queue.
LEMMA PageTest ==
    ASSUME PageIInv, NEW t \in Tasks, wait_test(t)
    PROVE  PageIInv'
<1> DEFINE x == IF frame[t].key \in flags THEN "sched" ELSE "again"
<1>1. /\ TypeOK /\ FrameOk(t) /\ SleepOk(t) /\ pc[t] = "test" /\ Goto(t, x)
      /\ UNCHANGED <<state, pending, on_rq, flags, wait, frame, ended>>
  BY DEF PageIInv, wait_test, wqVars, taskVars
<1>2. pc'[t] = x /\ \A u \in Tasks \ {t} : pc'[u] = pc[u]
  BY <1>1, PageMoves
<1>3. pc' \in [Tasks -> {"idle", "held", "wake"} \cup WaitPCs]
  <2>1. x \in {"idle", "held", "wake"} \cup WaitPCs
    BY DEF WaitPCs
  <2> QED BY <1>1, <2>1, PageMoves
<1>4. TypeOK'
  BY <1>1, <1>3 DEF TypeOK, WaitQueueTypeOK, TaskTypeOK
<1>5. OthersStay(t)
  BY <1>1, <1>2 DEF OthersStay
<1>6. FrameOk(t)' /\ SleepOk(t)'
  BY <1>1, <1>2 DEF FrameOk, SleepOk
<1>7. Owned'
  BY <1>1, <1>2, PageOwned DEF Owns
<1>8. KeepsPromise(t)
  BY <1>1, <1>2 DEF KeepsPromise, Asleep, SureToAct, ActsFor
<1>9. ReadersInFront'
  BY <1>1, <1>5, PageInFront
<1> QED BY <1>2, <1>4, <1>5, <1>6, <1>7, <1>8, <1>9, PageCallStep DEF Waiting, WaitPCs

\* Going to sleep for good.
LEMMA PageSleep ==
    ASSUME PageIInv, NEW t \in Tasks, sync_page_sleep(t)
    PROVE  PageIInv'
<1>1. /\ TypeOK /\ FrameOk(t) /\ SleepOk(t) /\ pc[t] = "sched" /\ state[t] # TASK_RUNNING
      /\ on_rq' = [on_rq EXCEPT ![t] = FALSE]
      /\ UNCHANGED <<state, pending, flags, wait, pc, frame, ended>>
  BY DEF PageIInv, sync_page_sleep, schedule_out, pageVars, taskVars
<1>2. on_rq'[t] = FALSE /\ \A u \in Tasks \ {t} : on_rq'[u] = on_rq[u]
  BY <1>1 DEF TypeOK, WaitQueueTypeOK
<1>3. on_rq' \in [Tasks -> BOOLEAN]
  BY <1>1 DEF TypeOK, WaitQueueTypeOK
<1>4. TypeOK'
  BY <1>1, <1>3 DEF TypeOK, WaitQueueTypeOK, TaskTypeOK
<1>5. OthersStay(t)
  BY <1>1, <1>2 DEF OthersStay
<1>6. FrameOk(t)' /\ SleepOk(t)'
  BY <1>1, <1>2 DEF FrameOk, SleepOk
<1>7. Owned'
  BY <1>1, PageOwned DEF Owns
<1>8. KeepsPromise(t)
  BY <1>1 DEF KeepsPromise, Asleep, SureToAct, ActsFor
<1>9. ReadersInFront'
  BY <1>1, <1>5, PageInFront
<1> QED BY <1>1, <1>4, <1>5, <1>6, <1>7, <1>8, <1>9, PageCallStep DEF Waiting, WaitPCs

\* Coming back from schedule(), woken or killed.
LEMMA PageBack ==
    ASSUME PageIInv, NEW t \in Tasks, sync_page(t)
    PROVE  PageIInv'
<1> DEFINE x == IF frame[t].mode = TASK_KILLABLE /\ pending[t] = "fatal" THEN "abort" ELSE "again"
<1>1. /\ TypeOK /\ FrameOk(t) /\ SleepOk(t) /\ pc[t] = "sched" /\ Goto(t, x) /\ on_rq[t]
      /\ state' = [state EXCEPT ![t] = TASK_RUNNING]
      /\ state[t] = TASK_RUNNING \/ signal_pending_state(state[t], t)
      /\ UNCHANGED <<pending, on_rq, flags, wait, frame, ended>>
  BY DEF PageIInv, sync_page, schedule_in, schedule
<1>2. pc'[t] = x /\ \A u \in Tasks \ {t} : pc'[u] = pc[u]
  BY <1>1, PageMoves
<1>3. pc' \in [Tasks -> {"idle", "held", "wake"} \cup WaitPCs]
  <2>1. x \in {"idle", "held", "wake"} \cup WaitPCs
    BY DEF WaitPCs
  <2> QED BY <1>1, <2>1, PageMoves
<1>4. state'[t] = TASK_RUNNING /\ \A u \in Tasks \ {t} : state'[u] = state[u]
  BY <1>1, PageMoves
<1>5. TypeOK'
  BY <1>1, <1>3 DEF TypeOK, WaitQueueTypeOK, TaskTypeOK
<1>6. OthersStay(t)
  BY <1>1, <1>2, <1>4 DEF OthersStay
<1>7. FrameOk(t)' /\ SleepOk(t)'
  BY <1>1, <1>2, <1>4 DEF FrameOk, SleepOk
<1>8. Owned'
  BY <1>1, <1>2, PageOwned DEF Owns
<1>9. KeepsPromise(t)
  BY <1>1, <1>2, <1>4 DEF KeepsPromise, Asleep, SureToAct, ActsFor
<1>10. ReadersInFront'
  BY <1>1, <1>6, PageInFront
<1> QED BY <1>2, <1>5, <1>6, <1>7, <1>8, <1>9, <1>10, PageCallStep DEF Waiting, WaitPCs

\* The condition of the loops: test_and_set_bit(), or test_bit().
LEMMA PageAgain ==
    ASSUME PageIInv, NEW t \in Tasks, wait_again(t)
    PROVE  PageIInv'
<1> DEFINE x == IF frame[t].key \in flags THEN "prepare" ELSE "finish"
<1>1. /\ TypeOK /\ FrameOk(t) /\ SleepOk(t) /\ pc[t] = "again" /\ Goto(t, x)
      /\ flags' = IF frame[t].exclusive THEN flags \cup {frame[t].key} ELSE flags
      /\ UNCHANGED <<state, pending, on_rq, wait, frame, ended>>
  BY DEF PageIInv, wait_again, wqVars, taskVars
<1>2. pc'[t] = x /\ \A u \in Tasks \ {t} : pc'[u] = pc[u]
  BY <1>1, PageMoves
<1>3. pc' \in [Tasks -> {"idle", "held", "wake"} \cup WaitPCs]
  <2>1. x \in {"idle", "held", "wake"} \cup WaitPCs
    BY DEF WaitPCs
  <2> QED BY <1>1, <2>1, PageMoves
<1>4. TypeOK'
  BY <1>1, <1>3, PageTypes DEF TypeOK, WaitQueueTypeOK, TaskTypeOK
<1>5. OthersStay(t)
  BY <1>1, <1>2 DEF OthersStay
<1>6. FrameOk(t)' /\ SleepOk(t)'
  BY <1>1, <1>2 DEF FrameOk, SleepOk
<1>7. Owned'
  <2>1. \A p \in Pages : ~Owns(t, Locked(p))
    BY <1>1 DEF Owns
  <2>2. CASE frame[t].exclusive /\ frame[t].key \notin flags
    <3>1. PICK p \in Pages : frame[t].key = Locked(p)
      <4>1. PICK p \in Pages : frame[t].key = Locked(p) \/ frame[t].key = Writeback(p)
        BY PageTypes, PageKeys
      <4> QED BY <1>1, <2>2, <4>1 DEF FrameOk, Writeback
    <3>2. \A q \in Pages : Owns(t, Locked(q))' <=> q = p
      BY <1>1, <1>2, <2>2, <3>1, PageTypes DEF Owns
    <3>3. Locked(p) \notin flags /\ flags' = flags \cup {Locked(p)}
      BY <1>1, <2>2, <3>1
    <3> QED BY <1>1, <1>2, <2>1, <3>2, <3>3, PageOwned
  <2>3. CASE ~(frame[t].exclusive /\ frame[t].key \notin flags)
    <3>1. flags' = flags /\ \A p \in Pages : ~Owns(t, Locked(p))'
      BY <1>1, <1>2, <2>3 DEF Owns
    <3> QED BY <1>1, <1>2, <2>1, <3>1, PageOwned
  <2> QED BY <2>2, <2>3
<1>8. KeepsPromise(t)
  BY <1>1, <1>2 DEF KeepsPromise, Asleep, SureToAct, ActsFor
<1>9. ReadersInFront'
  BY <1>1, <1>5, PageInFront
<1> QED BY <1>2, <1>4, <1>5, <1>6, <1>7, <1>8, <1>9, PageCallStep DEF Waiting, WaitPCs

\* A frame that is not in use.
LEMMA PageAnyFrame == /\ AnyFrame \in Frames /\ AnyFrame.mode = TASK_UNINTERRUPTIBLE
                      /\ ~AnyFrame.exclusive
<1>1. \E p : p \in Pages
  BY PageLockAssumption
<1>2. Locked(CHOOSE p \in Pages : TRUE) \in Keys
  BY <1>1, PageLockAssumption DEF Locked, Keys
<1> HIDE DEF TASK_UNINTERRUPTIBLE
<1>3. TASK_UNINTERRUPTIBLE \in SleepStates
  BY DEF SleepStates
<1> QED BY <1>2, <1>3 DEF AnyFrame, Frame, Frames

\* Entries that are taken off leave the readers in front.
LEMMA PageOrder ==
    ASSUME PageIInv, wait' \in Seq(Tasks),
           \A i, j \in 1..Len(wait') : i < j =>
              \E k, l \in 1..Len(wait) : k < l /\ wait[k] = wait'[i] /\ wait[l] = wait'[j],
           \A u \in Members(wait') : frame'[u] = frame[u]
    PROVE  ReadersInFront'
<1> SUFFICES ASSUME NEW i \in 1..Len(wait'), NEW j \in 1..Len(wait'),
                    frame[wait'[i]].exclusive, ~frame[wait'[j]].exclusive
             PROVE  j < i
  BY DEF ReadersInFront, Members
<1>1. ~(i < j)
  <2> SUFFICES ASSUME i < j PROVE FALSE
    OBVIOUS
  <2>1. PICK k, l \in 1..Len(wait) : k < l /\ wait[k] = wait'[i] /\ wait[l] = wait'[j]
    OBVIOUS
  <2>2. l < k
    BY <2>1 DEF PageIInv, ReadersInFront
  <2> QED BY <2>1, <2>2
<1>2. i # j
  OBVIOUS
<1> QED BY <1>1, <1>2

\* The end of a wait: the entry of t is off the queue, and others stay in order.
LEMMA PageUnlinked ==
    ASSUME PageIInv, NEW t \in Tasks,
           wait' = IF t \in Members(wait) THEN list_del(wait, t) ELSE wait,
           \A u \in Tasks \ {t} : frame'[u] = frame[u]
    PROVE  /\ wait' \in Seq(Tasks) /\ NoDup(wait') /\ Members(wait') = Members(wait) \ {t}
           /\ ReadersInFront'
<1>1. /\ wait' \in Seq(Tasks) /\ NoDup(wait') /\ Members(wait') = Members(wait) \ {t}
      /\ \A i, j \in 1..Len(wait') : i < j =>
            \E k, l \in 1..Len(wait) : k < l /\ wait[k] = wait'[i] /\ wait[l] = wait'[j]
  <2>1. CASE t \in Members(wait)
    <3> PICK r : r = list_del(wait, t)
      OBVIOUS
    <3>1. wait \in Seq(Tasks) /\ NoDup(wait)
      BY PageTypes
    <3>2. r \in Seq(Tasks) /\ NoDup(r) /\ Members(r) = Members(wait) \ {t}
      BY <2>1, <3>1, ListDelProperties
    <3>3. \A i, j \in 1..Len(r) : i < j =>
             \E k, l \in 1..Len(wait) : k < l /\ wait[k] = r[i] /\ wait[l] = r[j]
      BY <2>1, <3>1, ListDelOrder
    <3>4. wait' = r
      BY <2>1
    <3> QED BY <3>2, <3>3, <3>4
  <2>2. CASE t \notin Members(wait)
    BY <2>2, PageTypes
  <2> QED BY <2>1, <2>2
<1>2. \A u \in Members(wait') : frame'[u] = frame[u]
  BY <1>1, PageTypes
<1> QED BY <1>1, <1>2, PageOrder

\* finish_wait(): the call has the page, or has seen the bit clear.
LEMMA PageFinish ==
    ASSUME PageIInv, NEW t \in Tasks, finish_wait(t)
    PROVE  PageIInv'
<1>1. /\ TypeOK /\ FrameOk(t) /\ SleepOk(t) /\ pc[t] = "finish" /\ on_rq[t]
      /\ state' = [state EXCEPT ![t] = TASK_RUNNING]
      /\ wait' = IF t \in Members(wait) THEN list_del(wait, t) ELSE wait
      /\ UNCHANGED <<pending, on_rq, flags, ended>>
  BY DEF PageIInv, finish_wait, SleepOk
<1>2. PICK f \in Frames, x \in {"held", "idle"} :
         /\ Goto(t, x) /\ frame' = [frame EXCEPT ![t] = f]
         /\ \/ /\ frame[t].exclusive /\ x = "held" /\ f.exclusive
               /\ f.key = frame[t].key /\ f.mode = TASK_UNINTERRUPTIBLE
            \/ ~frame[t].exclusive /\ x = "idle" /\ f = AnyFrame
  <2>1. CASE frame[t].exclusive
    <3> DEFINE g == Frame(frame[t].key, TASK_UNINTERRUPTIBLE, TRUE)
    <3>1. /\ g \in Frames /\ g.exclusive /\ g.key = frame[t].key
          /\ g.mode = TASK_UNINTERRUPTIBLE
      BY PageTypes DEF Frame, Frames, SleepStates
    <3>2. Goto(t, "held") /\ frame' = [frame EXCEPT ![t] = g]
      BY <2>1 DEF finish_wait, Hold
    <3> HIDE DEF g
    <3> QED BY <2>1, <3>1, <3>2
  <2>2. CASE ~frame[t].exclusive
    BY <2>2, PageAnyFrame DEF finish_wait, Return
  <2> QED BY <2>1, <2>2
<1>3. /\ pc'[t] = x /\ frame'[t] = f /\ pc' \in [Tasks -> {"idle", "held", "wake"} \cup WaitPCs]
      /\ frame' \in [Tasks -> Frames] /\ state'[t] = TASK_RUNNING
      /\ \A u \in Tasks \ {t} : pc'[u] = pc[u] /\ frame'[u] = frame[u] /\ state'[u] = state[u]
  <2>1. pc'[t] = x /\ \A u \in Tasks \ {t} : pc'[u] = pc[u]
    BY <1>1, <1>2, PageMoves
  <2>2. pc' \in [Tasks -> {"idle", "held", "wake"} \cup WaitPCs]
    <3>1. x \in {"idle", "held", "wake"} \cup WaitPCs
      OBVIOUS
    <3> QED BY <1>1, <1>2, <3>1, PageMoves
  <2>3. /\ frame'[t] = f /\ frame' \in [Tasks -> Frames]
        /\ \A u \in Tasks \ {t} : frame'[u] = frame[u]
    BY <1>1, <1>2, PageMoves
  <2>4. state'[t] = TASK_RUNNING /\ \A u \in Tasks \ {t} : state'[u] = state[u]
    BY <1>1, PageMoves
  <2> QED BY <2>1, <2>2, <2>3, <2>4
<1>4. /\ wait' \in Seq(Tasks) /\ NoDup(wait') /\ Members(wait') = Members(wait) \ {t}
      /\ ReadersInFront'
  BY <1>1, <1>3, PageUnlinked
<1>5. TypeOK'
  BY <1>1, <1>3, <1>4 DEF TypeOK, WaitQueueTypeOK, TaskTypeOK
<1>6. OthersStay(t)
  BY <1>1, <1>3, <1>4 DEF OthersStay
<1>7. FrameOk(t)'
  BY <1>1, <1>2, <1>3, PageAnyFrame DEF FrameOk
<1>8. SleepOk(t)'
  BY <1>1, <1>2, <1>3 DEF SleepOk
<1>9. Owned'
  <2>1. ~frame[t].exclusive => ~AnyFrame.exclusive
    BY PageAnyFrame
  <2>2. \A p \in Pages : Owns(t, Locked(p))' <=> Owns(t, Locked(p))
    BY <1>1, <1>2, <1>3, <2>1 DEF Owns
  <2> QED BY <1>1, <1>3, <2>2, PageOwned
<1>10. KeepsPromise(t)
  BY <1>1, <1>2, <1>3 DEF KeepsPromise, Asleep, SureToAct, ActsFor
<1> QED BY <1>4, <1>5, <1>6, <1>7, <1>8, <1>9, <1>10, PageCallStep

\* A killed waiter that is still queued just leaves.
LEMMA PageAbortQueued ==
    ASSUME PageIInv, NEW t \in Tasks, pc[t] = "abort", t \in Members(wait),
           wait' = list_del(wait, t), Return(t), UNCHANGED <<state, on_rq, pending, flags, ended>>
    PROVE  PageIInv'
<1>1. TypeOK /\ FrameOk(t) /\ SleepOk(t) /\ on_rq[t]
  BY DEF PageIInv, SleepOk
<1>2. Goto(t, "idle") /\ frame' = [frame EXCEPT ![t] = AnyFrame] /\ AnyFrame \in Frames
  BY PageAnyFrame DEF Return
<1>3. /\ pc'[t] = "idle" /\ frame'[t] = AnyFrame
      /\ pc' \in [Tasks -> {"idle", "held", "wake"} \cup WaitPCs]
      /\ frame' \in [Tasks -> Frames]
      /\ \A u \in Tasks \ {t} : pc'[u] = pc[u] /\ frame'[u] = frame[u]
  BY <1>1, <1>2, PageMoves
<1>4. /\ wait' \in Seq(Tasks) /\ NoDup(wait') /\ Members(wait') = Members(wait) \ {t}
      /\ ReadersInFront'
  BY <1>3, PageUnlinked
<1>5. TypeOK'
  BY <1>1, <1>3, <1>4 DEF TypeOK, WaitQueueTypeOK, TaskTypeOK
<1>6. OthersStay(t)
  BY <1>3, <1>4 DEF OthersStay
<1>7. FrameOk(t)' /\ SleepOk(t)'
  BY <1>1, <1>3, PageAnyFrame DEF FrameOk, SleepOk
<1>8. Owned'
  BY <1>3, PageOwned DEF Owns
<1>9. KeepsPromise(t)
  BY <1>3 DEF KeepsPromise, Asleep, SureToAct, ActsFor
<1> QED BY <1>4, <1>5, <1>6, <1>7, <1>8, <1>9, PageCallStep

------------------------------------------------------------------------------
\* unlock_page() takes over the duty to wake from the clearing of the bit on.
LEMMA PageUnlock ==
    ASSUME PageIInv, NEW t \in Tasks, unlock_page(t)
    PROVE  PageIInv'
<1>1. /\ TypeOK /\ FrameOk(t) /\ SleepOk(t) /\ pc[t] = "held" /\ Goto(t, "wake")
      /\ flags' = flags \ {frame[t].key}
      /\ UNCHANGED <<state, pending, on_rq, wait, frame, ended>>
  BY DEF PageIInv, unlock_page, wqVars, taskVars
<1>2. pc'[t] = "wake" /\ \A u \in Tasks \ {t} : pc'[u] = pc[u]
  BY <1>1, PageMoves
<1>3. pc' \in [Tasks -> {"idle", "held", "wake"} \cup WaitPCs]
  <2>1. "wake" \in {"idle", "held", "wake"} \cup WaitPCs
    OBVIOUS
  <2> QED BY <1>1, <2>1, PageMoves
<1>4. TypeOK'
  BY <1>1, <1>3 DEF TypeOK, WaitQueueTypeOK, TaskTypeOK
<1>5. FrameOk(t)' /\ SleepOk(t)'
  BY <1>1, <1>2 DEF FrameOk, SleepOk
<1>6. PICK r \in Pages : frame[t].key = Locked(r) /\ frame[t].exclusive
  <2>1. PICK r \in Pages : frame[t].key = Locked(r) \/ frame[t].key = Writeback(r)
    BY PageTypes, PageKeys
  <2> QED BY <1>1, <2>1 DEF FrameOk, Writeback
<1>7. Owned'
  <2>1. Owns(t, Locked(r)) /\ \A q \in Pages : ~Owns(t, Locked(q))'
    BY <1>1, <1>2, <1>6 DEF Owns
  <2> QED BY <1>1, <1>2, <1>6, <2>1, PageOwned
<1>8. t \notin Members(wait)
  BY <1>1 DEF PageIInv, QueuedIsWaiting, Waiting, WaitPCs
<1>9. ReadersInFront'
  BY <1>1 DEF PageIInv, ReadersInFront
<1>10. Promised'
  <2> SUFFICES ASSUME NEW s \in Tasks, Asleep(s)', frame[s].key \notin flags'
               PROVE  \/ \E p \in ended : frame[s].key = Writeback(p)
                      \/ \E u \in Tasks : /\ SureToAct(u, frame[s].key)'
                                          /\ ~frame[s].exclusive => pc'[u] = "wake"
    BY <1>1 DEF Promised, SureToAct, ActsFor
  <2>1. CASE frame[s].key = frame[t].key
    BY <1>1, <1>2, <2>1 DEF SureToAct, ActsFor
  <2>2. CASE frame[s].key # frame[t].key
    <3>1. Asleep(s) /\ frame[s].key \notin flags
      BY <1>1, <1>2, <2>2 DEF Asleep
    <3>2. CASE \E p \in ended : frame[s].key = Writeback(p)
      BY <3>2
    <3>3. ASSUME NEW u \in Tasks, SureToAct(u, frame[s].key),
                 ~frame[s].exclusive => pc[u] = "wake"
          PROVE  SureToAct(u, frame[s].key)' /\ (~frame[s].exclusive => pc'[u] = "wake")
      <4>1. u # t
        BY <1>1, <3>3 DEF SureToAct, ActsFor
      <4> QED BY <1>1, <1>2, <3>3, <4>1 DEF SureToAct, ActsFor
    <3> QED BY <3>1, <3>2, <3>3 DEF PageIInv, Promised
  <2> QED BY <2>1, <2>2
<1> QED BY <1>1, <1>2, <1>4, <1>5, <1>7, <1>8, <1>9, <1>10, PageStep

\* Setting PG_writeback and the delivery and the handling of signals.
LEMMA PageOther ==
    ASSUME PageIInv, NEW t \in Tasks,
           set_page_writeback(t) \/ Signal(t) \/ HandleSignal(t)
    PROVE  PageIInv'
<1>1. TypeOK /\ FrameOk(t) /\ SleepOk(t)
  BY DEF PageIInv
<1>2. CASE set_page_writeback(t)
  <2>1. PICK r : /\ Writeback(r) \in Keys \ flags /\ flags' = flags \cup {Writeback(r)}
                 /\ UNCHANGED <<state, pending, on_rq, wait, pc, frame, ended>>
    BY <1>2 DEF set_page_writeback, wqVars, taskVars
  <2>2. TypeOK'
    BY <1>1, <2>1 DEF TypeOK, WaitQueueTypeOK, TaskTypeOK
  <2>3. OthersStay(t) /\ FrameOk(t)' /\ SleepOk(t)'
    BY <1>1, <2>1 DEF OthersStay, FrameOk, SleepOk
  <2>4. Owned'
    <3>1. \A p \in Pages : Locked(p) \in flags' <=> Locked(p) \in flags
      BY <2>1, PageTypes
    <3> QED BY <2>1, <3>1, PageOwned DEF Owns
  <2>5. KeepsPromise(t)
    BY <2>1 DEF KeepsPromise, Asleep, SureToAct, ActsFor
  <2>6. ReadersInFront' /\ (t \in Members(wait') => Waiting(t)')
    BY <2>1 DEF PageIInv, ReadersInFront, QueuedIsWaiting, Waiting
  <2> QED BY <2>2, <2>3, <2>4, <2>5, <2>6, PageCallStep
<1>3. CASE Signal(t)
  <2>1. PICK m \in {{"INTERRUPTIBLE", "WAKEKILL"}, {"INTERRUPTIBLE"}} :
           /\ state' = [state EXCEPT ![t] = IF @ \cap m = {} THEN @ ELSE TASK_RUNNING]
           /\ on_rq' = [on_rq EXCEPT ![t] = @ \/ state'[t] = TASK_RUNNING]
           /\ pending' = [pending EXCEPT ![t] = "fatal"]
           /\ UNCHANGED <<flags, wait, pc, frame, ended>>
    BY <1>3 DEF Signal, deliver_signal, signal_wake_up, try_to_wake_up, pageVars
  <2>2. /\ state'[t] = state[t] \/ state'[t] = TASK_RUNNING
        /\ \A u \in Tasks \ {t} : state'[u] = state[u] /\ on_rq'[u] = on_rq[u]
    BY <1>1, <2>1 DEF TypeOK, WaitQueueTypeOK, TaskTypeOK
  <2>3. /\ on_rq'[t] <=> on_rq[t] \/ state'[t] = TASK_RUNNING
        /\ on_rq' \in [Tasks -> BOOLEAN]
    BY <1>1, <2>1, Zenon DEF TypeOK, WaitQueueTypeOK
  <2>4. TypeOK'
    <3>1. state' \in [Tasks -> SleepStates \cup {TASK_RUNNING}]
      BY <1>1, <2>1 DEF TypeOK, WaitQueueTypeOK, TaskTypeOK
    <3>2. pending' \in [Tasks -> Signals]
      BY <1>1, <2>1 DEF TypeOK, WaitQueueTypeOK, TaskTypeOK, Signals
    <3> QED BY <1>1, <2>1, <2>3, <3>1, <3>2 DEF TypeOK, WaitQueueTypeOK, TaskTypeOK
  <2>5. OthersStay(t) /\ FrameOk(t)'
    BY <1>1, <2>1, <2>2 DEF OthersStay, FrameOk
  <2>6. SleepOk(t)'
    BY <1>1, <2>1, <2>2, <2>3 DEF SleepOk
  <2>7. Owned'
    BY <2>1, PageOwned DEF Owns
  <2>8. KeepsPromise(t)
    BY <2>1, <2>2 DEF KeepsPromise, Asleep, SureToAct, ActsFor
  <2>9. ReadersInFront' /\ (t \in Members(wait') => Waiting(t)')
    BY <2>1 DEF PageIInv, ReadersInFront, QueuedIsWaiting, Waiting
  <2> QED BY <2>4, <2>5, <2>6, <2>7, <2>8, <2>9, PageCallStep
<1>4. CASE HandleSignal(t)
  <2>1. /\ pending' = [pending EXCEPT ![t] = "none"]
        /\ UNCHANGED <<state, on_rq, flags, wait, pc, frame, ended>>
    BY <1>4 DEF HandleSignal, pageVars
  <2>2. TypeOK'
    BY <1>1, <2>1 DEF TypeOK, WaitQueueTypeOK, TaskTypeOK, Signals
  <2>3. OthersStay(t) /\ FrameOk(t)' /\ SleepOk(t)'
    BY <1>1, <2>1 DEF OthersStay, FrameOk, SleepOk
  <2>4. Owned'
    BY <2>1, PageOwned DEF Owns
  <2>5. KeepsPromise(t)
    BY <2>1 DEF KeepsPromise, Asleep, SureToAct, ActsFor
  <2>6. ReadersInFront' /\ (t \in Members(wait') => Waiting(t)')
    BY <2>1 DEF PageIInv, ReadersInFront, QueuedIsWaiting, Waiting
  <2> QED BY <2>2, <2>3, <2>4, <2>5, <2>6, PageCallStep
<1> QED BY <1>2, <1>3, <1>4

\* end_page_writeback() puts itself down as the one that will wake.
LEMMA PageEnd ==
    ASSUME PageIInv, NEW p \in Pages, end_page_writeback(p)
    PROVE  PageIInv'
<1>1. /\ flags' = flags \ {Writeback(p)} /\ ended' = ended \cup {p}
      /\ UNCHANGED <<state, pending, on_rq, wait, pc, frame>>
  BY DEF end_page_writeback, wqVars, taskVars
<1>2. TypeOK'
  BY <1>1 DEF PageIInv, TypeOK, WaitQueueTypeOK, TaskTypeOK
<1>3. /\ QueuedIsWaiting' /\ ReadersInFront'
      /\ \A t \in Tasks : FrameOk(t)' /\ SleepOk(t)'
  BY <1>1 DEF PageIInv, QueuedIsWaiting, Waiting, ReadersInFront, FrameOk, SleepOk
<1>4. Owned'
  <2>1. \A q \in Pages : Locked(q) \in flags' <=> Locked(q) \in flags
    BY <1>1, PageTypes
  <2> QED BY <1>1, <2>1 DEF PageIInv, Owned, Owns
<1>5. Promised'
  <2> SUFFICES ASSUME NEW s \in Tasks, Asleep(s), frame[s].key \notin flags'
               PROVE  \/ \E q \in ended' : frame[s].key = Writeback(q)
                      \/ \E u \in Tasks : /\ SureToAct(u, frame[s].key)
                                          /\ ~frame[s].exclusive => pc[u] = "wake"
    BY <1>1 DEF Promised, SureToAct, ActsFor, Asleep
  <2>1. CASE frame[s].key = Writeback(p)
    BY <1>1, <2>1
  <2>2. CASE frame[s].key # Writeback(p)
    BY <1>1, <2>2 DEF PageIInv, Promised
  <2> QED BY <2>1, <2>2
<1> QED BY <1>2, <1>3, <1>4, <1>5 DEF PageIInv

------------------------------------------------------------------------------
\* wake_up_bit() wakes tasks, and takes off the queue only such that it woke
\* from a sleep on the key.
LEMMA PageWoken ==
    ASSUME PageIInv, NEW k, NEW mode, "UNINTERRUPTIBLE" \in mode, wake_up_bit(k, mode)
    PROVE  /\ wait' \in Seq(Tasks) /\ NoDup(wait') /\ Members(wait') \subseteq Members(wait)
           /\ \A i, j \in 1..Len(wait') : i < j =>
                 \E m, l \in 1..Len(wait) : m < l /\ wait[m] = wait'[i] /\ wait[l] = wait'[j]
           /\ state' \in [Tasks -> SleepStates \cup {TASK_RUNNING}]
           /\ on_rq' \in [Tasks -> BOOLEAN]
           /\ \A u \in Tasks : /\ state'[u] = state[u] \/ state'[u] = TASK_RUNNING
                               /\ on_rq'[u] <=> on_rq[u] \/ state'[u] = TASK_RUNNING
                               /\ u \in Members(wait) \ Members(wait') => state'[u] = TASK_RUNNING
<1> DEFINE succeeds  == wake_bit_function(k, mode)
           exclusive == {s \in Tasks : frame[s].exclusive}
           called    == Scanned(wait, 1, exclusive, succeeds)
           ts        == {s \in called : frame[s].key = k /\ k \notin flags}
<1>1. /\ state' = [t \in Tasks |-> IF t \in ts /\ state[t] \cap mode # {}
                                  THEN TASK_RUNNING ELSE state[t]]
      /\ on_rq' = [t \in Tasks |-> on_rq[t] \/ state'[t] = TASK_RUNNING]
      /\ wait' = list_del_all(wait, called \cap succeeds)
  BY DEF wake_up_bit, wake_up_all
<1>2. \A s \in succeeds : /\ s \in Tasks /\ state[s] \cap mode # {}
                          /\ frame[s].key = k /\ k \notin flags
  BY DEF wake_bit_function, WakesUp
<1> HIDE DEF succeeds, called, exclusive
<1>3. /\ wait' \in Seq(Tasks) /\ NoDup(wait')
      /\ Members(wait') = Members(wait) \ (called \cap succeeds)
      /\ \A i, j \in 1..Len(wait') : i < j =>
            \E m, l \in 1..Len(wait) : m < l /\ wait[m] = wait'[i] /\ wait[l] = wait'[j]
  <2>1. wait \in Seq(Tasks) /\ NoDup(wait)
    BY PageTypes
  <2> DEFINE gone == called \cap succeeds
             r == list_del_all(wait, gone)
  <2> HIDE DEF gone
  <2>2. /\ r \in Seq(Tasks) /\ Members(r) = Members(wait) \ gone /\ NoDup(r)
        /\ \A i, j \in 1..Len(r) : i < j =>
              \E m, l \in 1..Len(wait) : m < l /\ wait[m] = r[i] /\ wait[l] = r[j]
    BY <2>1, DelAllProperties
  <2>3. wait' = r
    BY <1>1 DEF gone
  <2> HIDE DEF r
  <2>4. /\ wait' \in Seq(Tasks) /\ NoDup(wait') /\ Members(wait') = Members(wait) \ gone
        /\ \A i, j \in 1..Len(wait') : i < j =>
              \E m, l \in 1..Len(wait) : m < l /\ wait[m] = wait'[i] /\ wait[l] = wait'[j]
    BY <2>2, <2>3
  <2> QED BY <2>4, Zenon DEF gone
<1>4. state' \in [Tasks -> SleepStates \cup {TASK_RUNNING}]
  <2>1. \A u \in Tasks : state[u] \in SleepStates \cup {TASK_RUNNING}
    BY DEF PageIInv, TypeOK, WaitQueueTypeOK, TaskTypeOK
  <2> QED BY <1>1, <2>1
<1>5. \A u \in Tasks : on_rq'[u] = (on_rq[u] \/ state'[u] = TASK_RUNNING)
  BY <1>1, Zenon
<1>6. on_rq' \in [Tasks -> BOOLEAN]
  <2>1. \A u \in Tasks : (on_rq[u] \/ state'[u] = TASK_RUNNING) \in BOOLEAN
    OBVIOUS
  <2> QED BY <1>1, <2>1, Zenon
<1>7. \A u \in Tasks : state'[u] = IF u \in ts /\ state[u] \cap mode # {}
                                   THEN TASK_RUNNING ELSE state[u]
  BY <1>1, Zenon
<1>8. \A u \in called \cap succeeds : u \in ts /\ state[u] \cap mode # {}
  BY <1>2
<1> HIDE DEF ts
<1> QED BY <1>3, <1>4, <1>5, <1>6, <1>7, <1>8

\* A sleeper that the scan of the queue reaches is woken; one that it does not
\* reach is behind an exclusive one that was.
LEMMA PageServed ==
    ASSUME PageIInv, NEW k, NEW mode, "UNINTERRUPTIBLE" \in mode, wake_up_bit(k, mode),
           k \notin flags, NEW s \in Tasks, Asleep(s), frame[s].key = k,
           state'[s] # TASK_RUNNING
    PROVE  /\ frame[s].exclusive
           /\ \E u \in Members(wait) : /\ frame[u].exclusive /\ frame[u].key = k
                                       /\ pc[u] = "sched" /\ state'[u] = TASK_RUNNING
                                       /\ u \notin Members(wait')
<1> DEFINE succeeds  == wake_bit_function(k, mode)
           exclusive == {x \in Tasks : frame[x].exclusive}
           called    == Scanned(wait, 1, exclusive, succeeds)
           ts        == {x \in called : frame[x].key = k /\ k \notin flags}
           W         == {j \in 1..Len(wait) : wait[j] \in exclusive \cap succeeds}
<1>1. /\ state' = [t \in Tasks |-> IF t \in ts /\ state[t] \cap mode # {}
                                  THEN TASK_RUNNING ELSE state[t]]
      /\ wait' = list_del_all(wait, called \cap succeeds)
  BY DEF wake_up_bit, wake_up_all
<1>2. \A x \in Tasks : state'[x] = IF x \in ts /\ state[x] \cap mode # {}
                                   THEN TASK_RUNNING ELSE state[x]
  BY <1>1, Zenon
<1>3. \A x \in Tasks : state[x] # TASK_RUNNING =>
                          x \in Members(wait) /\ state[x] \cap mode # {}
  <2> TAKE x \in Tasks
  <2> SUFFICES ASSUME state[x] # TASK_RUNNING
               PROVE  x \in Members(wait) /\ state[x] \cap mode # {}
    OBVIOUS
  <2>1. x \in Members(wait) /\ "INTERRUPTIBLE" \notin state[x]
    BY DEF PageIInv, SleepOk
  <2>2. state[x] \in SleepStates \cup {TASK_RUNNING}
    BY DEF PageIInv, TypeOK, WaitQueueTypeOK, TaskTypeOK
  <2> QED BY <2>1, <2>2 DEF SleepStates
<1>4. \A x \in succeeds : /\ x \in Tasks /\ state[x] \cap mode # {} /\ ~on_rq[x]
                          /\ frame[x].key = k /\ pc[x] = "sched"
  BY DEF wake_bit_function, WakesUp, PageIInv, SleepOk
<1>5. \A i \in 1..Len(wait) : wait[i] \in called \/ \E j \in W : j < i
  <2> TAKE i \in 1..Len(wait)
  <2> SUFFICES ASSUME ~\E j \in W : j < i
               PROVE  wait[i] \in called
    OBVIOUS
  <2>1. {j \in 1 .. i - 1 : wait[j] \in exclusive \cap succeeds} = {}
    BY PageTypes
  <2>2. Cardinality({j \in 1 .. i - 1 : wait[j] \in exclusive \cap succeeds}) < 1
    <3> DEFINE S == {j \in 1 .. i - 1 : wait[j] \in exclusive \cap succeeds}
    <3>1. S = {}
      BY <2>1
    <3> HIDE DEF S
    <3>2. Cardinality(S) = 0
      BY <3>1, FS_EmptySet
    <3>3. Cardinality(S) < 1
      BY <3>2
    <3> QED BY <3>3 DEF S
  <2> HIDE DEF exclusive, succeeds
  <2> QED BY <2>2 DEF Scanned
<1>6. PICK i \in 1..Len(wait) : wait[i] = s
  BY <1>3 DEF Asleep, Members
<1>7. s \notin called
  <2>1. state[s] \cap mode # {}
    BY <1>3 DEF Asleep
  <2> HIDE DEF called
  <2> QED BY <1>2, <2>1
<1>8. W # {}
  BY <1>5, <1>6, <1>7
<1>9. PICK j \in W : \A l \in W : j <= l
  <2>1. W \in SUBSET Nat
    OBVIOUS
  <2> HIDE DEF W
  <2> QED BY <1>8, <2>1, LeastNatural
<1> DEFINE u == wait[j]
<1>10. u \in Members(wait) /\ u \in exclusive /\ u \in succeeds
  BY <1>9 DEF Members
<1>11. u \in called
  <2>1. j \in 1..Len(wait) /\ ~\E l \in W : l < j
    BY <1>9
  <2> HIDE DEF W, called
  <2> QED BY <1>5, <2>1
<1>12. /\ frame[u].exclusive /\ frame[u].key = k /\ pc[u] = "sched"
       /\ state'[u] = TASK_RUNNING
  <2>1. u \in ts
    BY <1>4, <1>10, <1>11
  <2> HIDE DEF ts, u, called
  <2> QED BY <1>2, <1>4, <1>10, <2>1
<1>13. u \notin Members(wait')
  <2>1. wait \in Seq(Tasks) /\ NoDup(wait)
    BY PageTypes
  <2> HIDE DEF called, succeeds, u
  <2>2. ASSUME NEW gone
        PROVE  Members(list_del_all(wait, gone)) = Members(wait) \ gone
    BY <2>1, DelAllProperties
  <2> QED BY <1>1, <1>10, <1>11, <2>2
<1>14. frame[s].exclusive
  <2>1. PICK l \in W : l < i
    BY <1>5, <1>6, <1>7
  <2>2. frame[wait[l]].exclusive /\ l \in 1..Len(wait)
    BY <2>1
  <2>3. ~frame[wait[i]].exclusive => i < l
    BY <2>2 DEF PageIInv, ReadersInFront
  <2> HIDE DEF W
  <2>4. ~(i < l)
    BY <2>1, <2>2
  <2> QED BY <1>6, <2>3, <2>4
<1> QED BY <1>10, <1>12, <1>13, <1>14

\* What no wake-up changes about the calls.
LEMMA PageWakeRest ==
    ASSUME PageIInv, NEW k, NEW mode, "UNINTERRUPTIBLE" \in mode, wake_up_bit(k, mode),
           UNCHANGED <<pending, flags>>, ended' \subseteq Pages,
           NEW idle \in SUBSET Tasks,
           \A t \in idle : t \notin Members(wait) /\ pc[t] \in {"wake", "abort"},
           pc' \in [Tasks -> {"idle", "held", "wake"} \cup WaitPCs],
           frame' \in [Tasks -> Frames],
           \A t \in idle : pc'[t] = "idle" /\ frame'[t] = AnyFrame,
           \A u \in Tasks \ idle : pc'[u] = pc[u] /\ frame'[u] = frame[u],
           Promised'
    PROVE  PageIInv'
<1>1. /\ wait' \in Seq(Tasks) /\ NoDup(wait') /\ Members(wait') \subseteq Members(wait)
      /\ \A i, j \in 1..Len(wait') : i < j =>
            \E m, l \in 1..Len(wait) : m < l /\ wait[m] = wait'[i] /\ wait[l] = wait'[j]
      /\ state' \in [Tasks -> SleepStates \cup {TASK_RUNNING}]
      /\ on_rq' \in [Tasks -> BOOLEAN]
      /\ \A u \in Tasks : /\ state'[u] = state[u] \/ state'[u] = TASK_RUNNING
                          /\ on_rq'[u] <=> on_rq[u] \/ state'[u] = TASK_RUNNING
                          /\ u \in Members(wait) \ Members(wait') => state'[u] = TASK_RUNNING
  BY PageWoken
<1>2. TypeOK'
  <2>1. pending' \in [Tasks -> Signals] /\ flags' \subseteq Keys
    BY DEF PageIInv, TypeOK, WaitQueueTypeOK, TaskTypeOK
  <2> QED BY <1>1, <2>1 DEF TypeOK, WaitQueueTypeOK, TaskTypeOK
<1>3. \A u \in Members(wait') : u \in Tasks \ idle
  BY <1>1, PageTypes
<1>4. QueuedIsWaiting'
  BY <1>1, <1>3 DEF PageIInv, QueuedIsWaiting, Waiting
<1>5. ReadersInFront'
  <2>1. \A u \in Members(wait') : frame'[u] = frame[u]
    BY <1>3
  <2> QED BY <1>1, <2>1, PageOrder
<1>6. ASSUME NEW u \in Tasks
      PROVE  FrameOk(u)'
  BY PageAnyFrame DEF PageIInv, FrameOk
<1>7. ASSUME NEW u \in Tasks
      PROVE  SleepOk(u)'
  <2>1. SleepOk(u)
    BY DEF PageIInv
  <2> QED BY <1>1, <2>1 DEF SleepOk
<1>8. Owned'
  <2>1. \A u \in Tasks : \A x : Owns(u, x)' <=> Owns(u, x)
    BY DEF Owns
  <2> QED BY <2>1 DEF PageIInv, Owned
<1> QED BY <1>2, <1>4, <1>5, <1>6, <1>7, <1>8 DEF PageIInv

\* Who is still asleep on a clear bit after a wake-up is promised another one:
\* by an exclusive waiter that was woken, or by somebody on another key.
LEMMA PagePromiseKept ==
    ASSUME PageIInv, NEW k, NEW mode, "UNINTERRUPTIBLE" \in mode, wake_up_bit(k, mode),
           NEW s \in Tasks, Asleep(s), state'[s] # TASK_RUNNING, frame[s].key \notin flags
    PROVE  \/ frame[s].key = k /\ \E u \in Members(wait) :
                 /\ frame[s].exclusive
                 /\ frame[u].exclusive /\ frame[u].key = k
                 /\ pc[u] = "sched" /\ state'[u] = TASK_RUNNING
                 /\ u \notin Members(wait')
           \/ frame[s].key # k /\ \E p \in ended : frame[s].key = Writeback(p)
           \/ frame[s].key # k /\ \E u \in Tasks :
                 /\ SureToAct(u, frame[s].key)
                 /\ ~frame[s].exclusive => pc[u] = "wake"
                 /\ pc[u] = "sched" => state'[u] = TASK_RUNNING /\ u \notin Members(wait')
                 /\ u \notin Members(wait) => u \notin Members(wait')
<1>1. CASE frame[s].key = k
  BY <1>1, PageServed
<1>2. CASE frame[s].key # k
  <2>1. CASE \E p \in ended : frame[s].key = Writeback(p)
    BY <1>2, <2>1
  <2>2. CASE \E u \in Tasks : /\ SureToAct(u, frame[s].key)
                              /\ ~frame[s].exclusive => pc[u] = "wake"
    <3>1. PICK u \in Tasks : /\ SureToAct(u, frame[s].key)
                             /\ ~frame[s].exclusive => pc[u] = "wake"
      BY <2>2
    <3>2. /\ Members(wait') \subseteq Members(wait)
          /\ state'[u] = state[u] \/ state'[u] = TASK_RUNNING
      BY PageWoken
    <3>3. pc[u] = "sched" => state'[u] = TASK_RUNNING /\ u \notin Members(wait')
      BY <3>1, <3>2 DEF SureToAct, ActsFor
    <3> QED BY <1>2, <3>1, <3>2, <3>3
  <2> QED BY <2>1, <2>2 DEF PageIInv, Promised
<1> QED BY <1>1, <1>2

\* A task that owes a wake-up for its key, as an unlocker or as a killed waiter
\* that was woken, makes it.
LEMMA PageWake ==
    ASSUME PageIInv, NEW t \in Tasks,
           pc[t] = "wake" \/ (pc[t] = "abort" /\ t \notin Members(wait)),
           NEW mode, "UNINTERRUPTIBLE" \in mode, wake_up_bit(frame[t].key, mode),
           Return(t), UNCHANGED <<pending, flags, ended>>
    PROVE  PageIInv'
<1>1. TypeOK /\ t \notin Members(wait)
  BY DEF PageIInv, QueuedIsWaiting, Waiting, WaitPCs
<1>2. Goto(t, "idle") /\ frame' = [frame EXCEPT ![t] = AnyFrame] /\ AnyFrame \in Frames
  BY PageAnyFrame DEF Return
<1>3. /\ pc'[t] = "idle" /\ frame'[t] = AnyFrame
      /\ pc' \in [Tasks -> {"idle", "held", "wake"} \cup WaitPCs]
      /\ frame' \in [Tasks -> Frames]
      /\ \A u \in Tasks \ {t} : pc'[u] = pc[u] /\ frame'[u] = frame[u]
  BY <1>1, <1>2, PageMoves
<1>4. Promised'
  <2> SUFFICES ASSUME NEW s \in Tasks, Asleep(s)', frame'[s].key \notin flags
               PROVE  \/ \E p \in ended : frame'[s].key = Writeback(p)
                      \/ \E u \in Tasks : /\ SureToAct(u, frame[s].key)'
                                          /\ ~frame'[s].exclusive => pc'[u] = "wake"
    BY DEF Promised, SureToAct, ActsFor
  <2>1. s # t /\ frame'[s] = frame[s] /\ pc[s] = "sched" /\ state'[s] # TASK_RUNNING
    BY <1>3 DEF Asleep
  <2>2. Asleep(s)
    BY <2>1, PageWoken DEF Asleep
  <2>3. \/ frame[s].key = frame[t].key /\ \E u \in Members(wait) :
                 /\ frame[s].exclusive
                 /\ frame[u].exclusive /\ frame[u].key = frame[t].key
                 /\ pc[u] = "sched" /\ state'[u] = TASK_RUNNING
                 /\ u \notin Members(wait')
        \/ frame[s].key # frame[t].key /\ \E p \in ended : frame[s].key = Writeback(p)
        \/ frame[s].key # frame[t].key /\ \E u \in Tasks :
                 /\ SureToAct(u, frame[s].key)
                 /\ ~frame[s].exclusive => pc[u] = "wake"
                 /\ pc[u] = "sched" => state'[u] = TASK_RUNNING /\ u \notin Members(wait')
                 /\ u \notin Members(wait) => u \notin Members(wait')
    BY <2>1, <2>2, PagePromiseKept
  <2>4. ASSUME NEW u \in Members(wait), frame[s].key = frame[t].key,
               frame[s].exclusive, frame[u].exclusive, frame[u].key = frame[t].key,
               pc[u] = "sched", state'[u] = TASK_RUNNING, u \notin Members(wait')
        PROVE  u \in Tasks /\ SureToAct(u, frame[s].key)'
    <3>1. u \in Tasks /\ u # t
      BY <1>1, <2>4, PageTypes
    <3>2. pc'[u] = pc[u] /\ frame'[u] = frame[u]
      BY <1>3, <3>1
    <3>3. frame'[s].key = frame[s].key
      BY <2>1
    <3> QED BY <2>4, <3>1, <3>2, <3>3 DEF SureToAct, ActsFor
  <2>5. ASSUME NEW u \in Tasks, frame[s].key # frame[t].key,
               SureToAct(u, frame[s].key),
               pc[u] = "sched" => state'[u] = TASK_RUNNING /\ u \notin Members(wait'),
               u \notin Members(wait) => u \notin Members(wait')
        PROVE  SureToAct(u, frame[s].key)' /\ (pc[u] = "wake" => pc'[u] = "wake")
    <3>1. u # t
      BY <2>5 DEF SureToAct, ActsFor
    <3>2. pc'[u] = pc[u] /\ frame'[u] = frame[u]
      BY <1>3, <3>1
    <3>3. frame'[s].key = frame[s].key
      BY <2>1
    <3> QED BY <2>5, <3>2, <3>3 DEF SureToAct, ActsFor
  <2> QED BY <2>1, <2>3, <2>4, <2>5
<1>5. ended \subseteq Pages
  BY PageTypes
<1> DEFINE idle == {t}
<1>6. /\ idle \in SUBSET Tasks
      /\ \A u \in idle : u \notin Members(wait) /\ pc[u] \in {"wake", "abort"}
      /\ \A u \in idle : pc'[u] = "idle" /\ frame'[u] = AnyFrame
      /\ \A u \in Tasks \ idle : pc'[u] = pc[u] /\ frame'[u] = frame[u]
  BY <1>1, <1>3
<1> HIDE DEF idle
<1> QED BY <1>3, <1>4, <1>5, <1>6, PageWakeRest

\* The interrupt that ended the writeback makes its wake-up.
LEMMA PageWakeWriteback ==
    ASSUME PageIInv, NEW p \in Pages, wake_up_writeback(p)
    PROVE  PageIInv'
<1>1. /\ ended' = ended \ {p} /\ wake_up_bit(Writeback(p), TASK_NORMAL)
      /\ UNCHANGED <<pending, flags, pc, frame>>
      /\ "UNINTERRUPTIBLE" \in TASK_NORMAL
  BY DEF wake_up_writeback
<1>2. Promised'
  <2> SUFFICES ASSUME NEW s \in Tasks, Asleep(s)', frame[s].key \notin flags
               PROVE  \/ \E q \in ended' : frame[s].key = Writeback(q)
                      \/ \E u \in Tasks : /\ SureToAct(u, frame[s].key)'
                                          /\ ~frame[s].exclusive => pc[u] = "wake"
    BY <1>1 DEF Promised, SureToAct, ActsFor
  <2>1. pc[s] = "sched" /\ state'[s] # TASK_RUNNING
    BY <1>1 DEF Asleep
  <2>2. Asleep(s)
    BY <1>1, <2>1, PageWoken DEF Asleep
  <2>3. \/ frame[s].key = Writeback(p) /\ \E u \in Members(wait) :
                 /\ frame[s].exclusive
                 /\ frame[u].exclusive /\ frame[u].key = Writeback(p)
                 /\ pc[u] = "sched" /\ state'[u] = TASK_RUNNING
                 /\ u \notin Members(wait')
        \/ frame[s].key # Writeback(p) /\ \E q \in ended : frame[s].key = Writeback(q)
        \/ frame[s].key # Writeback(p) /\ \E u \in Tasks :
                 /\ SureToAct(u, frame[s].key)
                 /\ ~frame[s].exclusive => pc[u] = "wake"
                 /\ pc[u] = "sched" => state'[u] = TASK_RUNNING /\ u \notin Members(wait')
                 /\ u \notin Members(wait) => u \notin Members(wait')
    BY <1>1, <2>1, <2>2, PagePromiseKept
  <2>4. CASE frame[s].key = Writeback(p) /\ \E u \in Members(wait) :
                 /\ frame[s].exclusive
                 /\ frame[u].exclusive /\ frame[u].key = Writeback(p)
                 /\ pc[u] = "sched" /\ state'[u] = TASK_RUNNING
                 /\ u \notin Members(wait')
    BY <1>1, <2>4, PageTypes DEF SureToAct, ActsFor
  <2>5. CASE frame[s].key # Writeback(p) /\ \E q \in ended : frame[s].key = Writeback(q)
    BY <1>1, <2>5
  <2>6. CASE frame[s].key # Writeback(p) /\ \E u \in Tasks :
                 /\ SureToAct(u, frame[s].key)
                 /\ ~frame[s].exclusive => pc[u] = "wake"
                 /\ pc[u] = "sched" => state'[u] = TASK_RUNNING /\ u \notin Members(wait')
                 /\ u \notin Members(wait) => u \notin Members(wait')
    <3>1. PICK u \in Tasks :
             /\ SureToAct(u, frame[s].key)
             /\ ~frame[s].exclusive => pc[u] = "wake"
             /\ pc[u] = "sched" => state'[u] = TASK_RUNNING /\ u \notin Members(wait')
             /\ u \notin Members(wait) => u \notin Members(wait')
      BY <2>6
    <3>2. SureToAct(u, frame[s].key)'
      BY <1>1, <3>1 DEF SureToAct, ActsFor
    <3> QED BY <3>1, <3>2
  <2> QED BY <2>3, <2>4, <2>5, <2>6
<1>3. /\ pc \in [Tasks -> {"idle", "held", "wake"} \cup WaitPCs]
      /\ frame \in [Tasks -> Frames]
  BY DEF PageIInv, TypeOK
<1>4. ended' \subseteq Pages
  BY <1>1, PageTypes
<1> DEFINE idle == {}
<1>5. /\ idle \in SUBSET Tasks
      /\ \A u \in idle : u \notin Members(wait) /\ pc[u] \in {"wake", "abort"}
      /\ \A u \in idle : pc'[u] = "idle" /\ frame'[u] = AnyFrame
  OBVIOUS
<1> HIDE DEF idle
<1> QED BY <1>1, <1>2, <1>3, <1>4, <1>5, PageWakeRest

------------------------------------------------------------------------------
\* Unlocked pages without waiters satisfy the invariant.
LEMMA PageInit == Init => PageIInv
<1> SUFFICES ASSUME Init PROVE PageIInv
  OBVIOUS
<1> USE DEF Init, WaitQueueInit, TaskInit
<1>1. TypeOK
  <2>1. TaskTypeOK
    BY DEF TaskTypeOK, Signals
  <2>2. on_rq \in [Tasks -> BOOLEAN]
    BY Zenon
  <2>3. frame \in [Tasks -> Frames]
    BY PageAnyFrame
  <2>4. wait \in Seq(Tasks) /\ NoDup(wait)
    BY DEF NoDup
  <2>5. pc \in [Tasks -> {"idle", "held", "wake"} \cup WaitPCs]
    OBVIOUS
  <2> QED BY <2>1, <2>2, <2>3, <2>4, <2>5 DEF TypeOK, WaitQueueTypeOK
<1>2. QueuedIsWaiting /\ ReadersInFront
  BY DEF QueuedIsWaiting, ReadersInFront, Members
<1>3. \A t \in Tasks : on_rq[t] = TRUE
  BY Zenon
<1>4. \A t \in Tasks : FrameOk(t) /\ SleepOk(t)
  BY <1>3, PageAnyFrame DEF FrameOk, SleepOk
<1>5. Owned
  BY DEF Owned, Owns
<1>6. Promised
  BY DEF Promised, Asleep
<1> QED BY <1>1, <1>2, <1>4, <1>5, <1>6 DEF PageIInv

\* Every step keeps the invariant.
LEMMA PageNext == PageIInv /\ [Next]_vars => PageIInv'
<1> SUFFICES ASSUME PageIInv, [Next]_vars PROVE PageIInv'
  OBVIOUS
<1>1. ASSUME NEW t \in Tasks, NewCall(t) PROVE PageIInv'
  BY <1>1, PageCall DEF NewCall
<1>2. ASSUME NEW t \in Tasks, abort_exclusive_wait(t) PROVE PageIInv'
  <2>1. pc[t] = "abort" /\ Return(t) /\ UNCHANGED <<pending, flags, ended>>
    BY <1>2 DEF abort_exclusive_wait
  <2>2. CASE t \in Members(wait) /\ wait' = list_del(wait, t) /\ UNCHANGED <<state, on_rq>>
    BY <2>1, <2>2, PageAbortQueued
  <2>3. CASE t \notin Members(wait) /\ wake_up_bit(frame[t].key, frame[t].mode)
    <3>1. "UNINTERRUPTIBLE" \in frame[t].mode
      BY DEF PageIInv, FrameOk
    <3> QED BY <2>1, <2>3, <3>1, PageWake
  <2> QED BY <1>2, <2>2, <2>3 DEF abort_exclusive_wait
<1>3. ASSUME NEW t \in Tasks, wake_up_page(t) PROVE PageIInv'
  <2> DEFINE mode == TASK_NORMAL
  <2>1. pc[t] = "wake" /\ Return(t) /\ UNCHANGED <<pending, flags, ended>>
    BY <1>3 DEF wake_up_page
  <2>2. wake_up_bit(frame[t].key, mode) /\ "UNINTERRUPTIBLE" \in mode
    BY <1>3 DEF wake_up_page
  <2> HIDE DEF mode
  <2> QED BY <2>1, <2>2, PageWake
<1>4. ASSUME NEW t \in Tasks, KernelStep(t) PROVE PageIInv'
  BY <1>2, <1>3, <1>4, PagePrepare, PageTest, PageSleep, PageBack, PageAgain, PageFinish
     DEF KernelStep
<1>5. ASSUME NEW p \in Pages, Interrupt(p) PROVE PageIInv'
  BY <1>5, PageEnd, PageWakeWriteback DEF Interrupt
<1>6. CASE UNCHANGED vars
  <2>1. UNCHANGED <<state, pending, on_rq, flags, wait, pc, frame, ended>>
    BY <1>6 DEF vars, wqVars, taskVars, pageVars
  <2> QED BY <2>1
          DEF PageIInv, TypeOK, WaitQueueTypeOK, TaskTypeOK, QueuedIsWaiting, Waiting,
              ReadersInFront, FrameOk, SleepOk, Owned, Owns, Promised, Asleep,
              SureToAct, ActsFor
<1> QED BY <1>1, <1>4, <1>5, <1>6, PageUnlock, PageOther DEF Next

\* The inductive invariant of the page lock.
THEOREM PageLockInvariant == Spec => []PageIInv
  BY PageInit, PageNext, PTL DEF Spec

\* A locked page has one owner and a page that is not locked has none, only
\* tasks inside a wait are queued, and readers of a bit are in front.
THEOREM PageLockConsistent == Spec => []Consistent
<1>1. PageIInv => Consistent
  <2> SUFFICES ASSUME PageIInv PROVE Consistent
    OBVIOUS
  <2>1. ASSUME NEW p \in Pages
        PROVE  Cardinality(Owners(p)) = IF Locked(p) \in flags THEN 1 ELSE 0
    <3>1. Owners(p) = {t \in Tasks : Owns(t, Locked(p))}
      BY DEF Owners, Owns
    <3>2. CASE Locked(p) \notin flags
      <4>1. Owners(p) = {}
        BY <3>1, <3>2 DEF PageIInv, Owned
      <4> QED BY <3>2, <4>1, FS_EmptySet
    <3>3. CASE Locked(p) \in flags
      <4>1. PICK t \in Tasks : Owns(t, Locked(p))
        BY <3>3 DEF PageIInv, Owned
      <4>2. Owners(p) = {t}
        BY <3>1, <4>1 DEF PageIInv, Owned
      <4> QED BY <3>3, <4>2, FS_Singleton
    <3> QED BY <3>2, <3>3
  <2> QED BY <2>1 DEF Consistent, OneOwner, PageIInv
<1> QED BY <1>1, PageLockInvariant, PTL

\* Nobody sleeps on a clear bit unless a wake-up is on its way.
THEOREM PageLockNoWaiterForgotten == Spec => []NoWaiterForgotten
<1>1. PageIInv => NoWaiterForgotten
  BY DEF PageIInv, Promised, NoWaiterForgotten, SureToAct
<1> QED BY <1>1, PageLockInvariant, PTL
==============================================================================
