--------------------------- MODULE WorkQueueProofs ---------------------------
(***************************************************************************)
(* Proofs about one workqueue for any number of CPUs, works and clients,   *)
(* any depth of nested callbacks, and any CPUs that come and go.           *)
(***************************************************************************)
EXTENDS WorkQueue, KernelLemmas

\* Where an item is, and who else may own the PENDING bit of a work.
ListOf(x)  == {c \in CPUs : x \in Members(cwq[c].worklist)}
HandOf(x)  == RunningAt(x, {"clear", "requeue", "byhand_requeue"})
CallOf(w)  == {t \in Clients : call[t].w = w /\ (call[t].pc \in {"insert", "arm"} \/ call[t].got)}
TimerOf(w) == {work[w].timer} \ {"none"}

------------------------------------------------------------------------------
\* A worker has frames while it is in run_workqueue().  All but the innermost
\* one flush their own workqueue, and current_work is the item of that one.
FramesOk(fs, current) ==
    /\ fs = <<>> => current = NULL
    /\ \A i \in 1..Len(fs) : /\ i < Len(fs) => fs[i].at = "byhand"
                             /\ fs[i].at \in {"requeue"} \cup ByHand => fs[i].item \in Works
                             /\ fs[i].at \in {"clear", "run", "requeue"} => current = fs[i].item
WorkerOk(c) == /\ NoDup(cwq[c].worklist)
               /\ cwq[c].thread = "busy" <=> cwq[c].frames # <<>>
               /\ FramesOk(cwq[c].frames, cwq[c].current_work)

\* What a call knows at each place.
CallOk(k, online) ==
    /\ k.pc \in {"insert", "arm", "fw_lock", "fw_wait", "fw_ret", "c_timer", "c_grab",
                 "c_read", "c_lock", "c_wait", "c_cpu", "c_cpu_wait", "c_clear", "cd_clear"}
          => k.w \in Works
    /\ k.pc \in {"insert", "arm", "flush_wait", "fw_lock", "fw_wait", "c_lock", "c_cpu",
                 "c_cpu_wait"} => k.cpu \in CPUs
    /\ k.pc = "flush" => k.cpu \in 1 .. NCPU + 1
    /\ k.got => k.pc \in {"c_wait", "c_cpu", "c_cpu_wait", "c_clear", "cd_clear"}
    /\ k.pc \in {"c_clear", "cd_clear"} => k.got
    /\ k.pc = "c_clear" => k.cpu = NCPU + 1
    /\ k.pc = "insert" => k.cpu \in online

\* No calls, and no works on a timer, any more.
NoUsers == /\ \A t \in Clients : call[t].pc = "idle"
           /\ \A w \in Works : work[w].timer = "none"

\* What each place of the hotplug task says about the CPU maps.
MapsOk ==
    /\ hot.at \notin {"idle", "destroyed"} => hot.cpu \in CPUs
    /\ hot.at \in {"idle", "destroyed", "prepared", "online"} => hot.todo = {}
    /\ hot.online \subseteq hot.populated
    /\ \A c \in hot.populated \ hot.online :
          hot.todo = {} /\ c = hot.cpu /\ hot.at \notin {"idle", "online", "destroyed"}
    /\ hot.todo = {} /\ hot.at \notin {"idle", "online", "destroyed"} => hot.cpu \notin hot.online
    /\ hot.single => hot.online = CPUs /\ (hot.todo = {} => hot.at \in {"idle", "destroyed"})
    /\ hot.todo # {} => hot.cpu \in hot.todo
    /\ hot.at \in {"prepared", "online"} => hot.cpu \in hot.populated

\* Which workers there are, and how far they are.
ThreadOk(c, thread, stop) ==
    /\ c \notin wq_cpu_map => thread = "none"
    /\ thread = "created" <=> hot.at \in {"prepared", "online"} /\ c = hot.cpu
    /\ stop => hot.at = "stop_wait" /\ c = hot.cpu
    /\ thread = "exited" => stop
    /\ thread = "none" /\ c \in wq_cpu_map =>
          \/ hot.at = "destroyed"
          \/ hot.todo # {} /\ c \notin hot.todo
          \/ hot.todo = {} /\ hot.at = "flush" /\ c = hot.cpu
    /\ hot.at = "destroyed" \/ (hot.todo # {} /\ c \notin hot.todo) => thread = "none"
    /\ hot.at \in {"flush_wait", "stop", "stop_wait"} /\ c = hot.cpu => thread # "none"

\* A worker that is stopped, or about to be, has nothing on its list, unless
\* it is busy.
Quiescing(c) ==
    \/ cwq[c].thread \in {"none", "exited"}
    \/ c = hot.cpu /\ hot.at \in {"stop", "stop_wait"}
    \/ c = hot.cpu /\ hot.at = "flush_wait" /\ Admin \in done
Quiesced(c) == Quiescing(c) => cwq[c].thread = "busy" \/ cwq[c].worklist = <<>>

Workers == \A c \in CPUs : WorkerOk(c)
CallsOk == \A t \in Clients : CallOk(call[t], hot.online)
Hotplug == /\ MapsOk
           /\ hot.todo # {} \/ hot.at = "destroyed" => NoUsers
           /\ \A c \in CPUs : ThreadOk(c, cwq[c].thread, cwq[c].stop) /\ Quiesced(c)

Shape == TypeOK /\ Workers /\ CallsOk /\ Hotplug

------------------------------------------------------------------------------
\* Just one element in the first set, and none in the others.
Alone(S, S1, S2, S3) == (\E x \in S : S = {x}) /\ S1 = {} /\ S2 = {} /\ S3 = {}

\* PENDING is a lock: owned if it is set, by one owner of one kind.
Owner(w) ==
    \/ /\ ~work[w].pending
       /\ ListOf(w) = {} /\ HandOf(w) = {} /\ CallOf(w) = {} /\ TimerOf(w) = {}
    \/ /\ work[w].pending
       /\ \/ Alone(ListOf(w), HandOf(w), CallOf(w), TimerOf(w))
          \/ Alone(HandOf(w), ListOf(w), CallOf(w), TimerOf(w))
          \/ Alone(CallOf(w), ListOf(w), HandOf(w), TimerOf(w))
          \/ Alone(TimerOf(w), ListOf(w), HandOf(w), CallOf(w))

\* A work knows where it is queued, and a work that runs has been queued.
KnowsCwq(w) ==
    /\ \A c \in ListOf(w) \cup RunningAt(w, {"clear"}) : work[w].cwq = c
    /\ Running(w) # {} => work[w].cwq # 0

\* A canceller that owns the bit has seen the callback end on the CPUs it
\* passed, and its barrier is behind the callback on the one it waits for.
Cancels(t) == call[t].got /\ call[t].pc \in {"c_cpu", "c_cpu_wait", "c_clear"} =>
    \A c \in Running(call[t].w) :
        /\ c >= call[t].cpu
        /\ call[t].pc = "c_cpu_wait" /\ c = call[t].cpu => c \in ListOf(t)

Owned == /\ \A w \in Works : Owner(w) /\ KnowsCwq(w)
         /\ \A t \in Clients : Cancels(t)

------------------------------------------------------------------------------
\* The CPU on which a task has its barrier.
Home(t) == IF t = Admin THEN hot.cpu ELSE call[t].cpu
Awaits(t) == IF t = Admin THEN hot.at = "flush_wait"
             ELSE call[t].pc \in {"flush_wait", "fw_wait", "c_cpu_wait"}

\* A barrier is in one place, and its task waits for it there.
Barrier(t) ==
    /\ \A c \in ListOf(t) \cup Running(t) : t \notin done /\ Awaits(t) /\ c = Home(t)
    /\ ListOf(t) \cap Running(t) = {}

Before(q, x, y) == \E i, j \in 1..Len(q) : i < j /\ q[i] = x /\ q[j] = y

\* What a flush has to wait for is still there, on no CPU that the flush has
\* passed, and in front of its barrier; but for callbacks that have flushed
\* their own workqueue.
Owes(t, o) ==
    /\ call[t].pc \in {"flush", "flush_wait", "fw_lock", "fw_wait", "fw_ret"}
    /\ call[t].pc \in {"fw_lock", "fw_wait", "fw_ret"} => o[2] = call[t].w
    /\ o[3] # "byhand" =>
          /\ o[1] \in IF o[3] = "queued" THEN ListOf(o[2]) ELSE Running(o[2])
          /\ call[t].pc \in {"flush", "flush_wait"} => o[1] >= call[t].cpu
          /\ call[t].pc = "fw_ret" => o[1] # call[t].cpu
          /\ call[t].pc \in {"flush_wait", "fw_wait"} /\ o[1] = call[t].cpu =>
                /\ o[1] \in ListOf(t)
                /\ o[3] = "queued" => Before(cwq[o[1]].worklist, o[2], t)

Flushed == /\ \A t \in Waits : Barrier(t)
           /\ \A t \in Clients : \A o \in owed[t] : Owes(t, o)

\* That a work has one owner depends on which workers there are and what they
\* hold; that a flush or a cancel does not return early depends on where the
\* barriers are.
IInv == Shape /\ Owned /\ Flushed

------------------------------------------------------------------------------
\* r is q with x put in behind its first i entries.
Into(q, x, i, r) == /\ i \in 0..Len(q)
                    /\ Len(r) = Len(q) + 1
                    /\ \A k \in 1..i : r[k] = q[k]
                    /\ r[i + 1] = x
                    /\ \A k \in i + 1 .. Len(q) : r[k + 1] = q[k]

\* What r keeps of q.
LEMMA Inserted ==
    ASSUME NEW T, NEW q \in Seq(T), NEW r \in Seq(T), NEW x, NEW i, Into(q, x, i, r)
    PROVE  /\ Members(r) = Members(q) \cup {x}
           /\ NoDup(q) /\ x \notin Members(q) => NoDup(r)
           /\ \A y, z : Before(q, y, z) => Before(r, y, z)
           /\ \A y, z : Before(r, y, z) /\ y # x /\ z # x => Before(q, y, z)
           /\ \A k \in 1..i : Before(r, q[k], x)
<1> DEFINE at(k) == IF k <= i THEN k ELSE k + 1
           from(k) == IF k <= i THEN k ELSE k - 1
<1>1. /\ Len(q) \in Nat /\ Len(r) \in Nat /\ i \in Nat /\ i \in 0..Len(q)
      /\ Len(r) = Len(q) + 1
      /\ \A k \in 1..i : r[k] = q[k]
      /\ r[i + 1] = x
      /\ \A k \in i + 1 .. Len(q) : r[k + 1] = q[k]
  BY DEF Into
<1>2. \A k \in 1..Len(q) : at(k) \in 1..Len(r) /\ at(k) # i + 1 /\ r[at(k)] = q[k]
  BY <1>1
<1>3. \A k \in 1..Len(r) : k # i + 1 =>
         from(k) \in 1..Len(q) /\ at(from(k)) = k /\ q[from(k)] = r[k]
  BY <1>1
<1>4. \A j, k \in 1..Len(q) : j < k => at(j) < at(k)
  BY <1>1
<1>5. \A j, k \in 1..Len(r) : j # i + 1 /\ k # i + 1 /\ j < k => from(j) < from(k)
  BY <1>1
<1>6. i + 1 \in 1..Len(r)
  BY <1>1
<1> HIDE DEF at, from
<1>7. Members(r) = Members(q) \cup {x}
  <2>1. ASSUME NEW y \in Members(r)
        PROVE  y \in Members(q) \cup {x}
    <3>1. PICK k \in 1..Len(r) : r[k] = y
      BY DEF Members
    <3>2. CASE k = i + 1
      BY <1>1, <3>1, <3>2
    <3>3. CASE k # i + 1
      BY <1>3, <3>1, <3>3 DEF Members
    <3> QED BY <3>2, <3>3
  <2>2. \A y \in Members(q) : y \in Members(r)
    BY <1>2 DEF Members
  <2>3. x \in Members(r)
    BY <1>1, <1>6 DEF Members
  <2> QED BY <2>1, <2>2, <2>3
<1>8. ASSUME NoDup(q), x \notin Members(q)
      PROVE  NoDup(r)
  <2>1. SUFFICES ASSUME NEW j \in 1..Len(r), NEW k \in 1..Len(r), r[j] = r[k]
                 PROVE  j = k
    BY DEF NoDup
  <2>2. \A l \in 1..Len(r) : l # i + 1 => r[l] # x
    BY <1>3, <1>8 DEF Members
  <2>3. CASE j = i + 1 \/ k = i + 1
    BY <1>1, <2>1, <2>2, <2>3
  <2>4. CASE j # i + 1 /\ k # i + 1
    <3>1. /\ from(j) \in 1..Len(q) /\ from(k) \in 1..Len(q)
          /\ q[from(j)] = q[from(k)] /\ at(from(j)) = j /\ at(from(k)) = k
      BY <1>3, <2>1, <2>4
    <3>2. from(j) = from(k)
      BY <1>8, <3>1 DEF NoDup
    <3> QED BY <3>1, <3>2
  <2> QED BY <2>3, <2>4
<1>9. \A y, z : Before(q, y, z) => Before(r, y, z)
  <2>1. SUFFICES ASSUME NEW y, NEW z, NEW j \in 1..Len(q), NEW k \in 1..Len(q),
                        j < k, q[j] = y, q[k] = z
                 PROVE  Before(r, y, z)
    BY DEF Before
  <2>2. at(j) \in 1..Len(r) /\ at(k) \in 1..Len(r) /\ at(j) < at(k)
        /\ r[at(j)] = y /\ r[at(k)] = z
    BY <1>2, <1>4, <2>1
  <2> QED BY <2>2 DEF Before
<1>10. \A y, z : Before(r, y, z) /\ y # x /\ z # x => Before(q, y, z)
  <2>1. SUFFICES ASSUME NEW y, NEW z, NEW j \in 1..Len(r), NEW k \in 1..Len(r),
                        j < k, r[j] = y, r[k] = z, y # x, z # x
                 PROVE  Before(q, y, z)
    BY DEF Before
  <2>2. j # i + 1 /\ k # i + 1
    BY <1>1, <2>1
  <2>3. from(j) \in 1..Len(q) /\ from(k) \in 1..Len(q) /\ from(j) < from(k)
        /\ q[from(j)] = y /\ q[from(k)] = z
    BY <1>3, <1>5, <2>1, <2>2
  <2> QED BY <2>3 DEF Before
<1>11. \A k \in 1..i : Before(r, q[k], x)
  <2>1. SUFFICES ASSUME NEW k \in 1..i
                 PROVE  Before(r, q[k], x)
    OBVIOUS
  <2>2. k \in 1..Len(r) /\ k < i + 1 /\ r[k] = q[k]
    BY <1>1
  <2> QED BY <1>1, <1>6, <2>2 DEF Before
<1> QED BY <1>7, <1>8, <1>9, <1>10, <1>11

\* The three places where insert_work() may put an entry.
LEMMA AtTail ==
    ASSUME NEW T, NEW q \in Seq(T), NEW x \in T
    PROVE  LET r == list_add_tail(q, x)
           IN  /\ r \in Seq(T)
               /\ Members(r) = Members(q) \cup {x}
               /\ NoDup(q) /\ x \notin Members(q) => NoDup(r)
               /\ \A y, z : Before(q, y, z) => Before(r, y, z)
               /\ \A y \in Members(q) : Before(r, y, x)
<1> DEFINE r == list_add_tail(q, x)
<1>1. /\ r \in Seq(T) /\ Len(r) = Len(q) + 1 /\ Len(q) \in Nat
      /\ \A k \in 1..Len(q) : r[k] = q[k]
      /\ r[Len(q) + 1] = x
  BY DEF list_add_tail
<1> HIDE DEF r
<1>2. /\ Members(r) = Members(q) \cup {x}
      /\ NoDup(q) /\ x \notin Members(q) => NoDup(r)
      /\ \A y, z : Before(q, y, z) => Before(r, y, z)
      /\ \A k \in 1..Len(q) : Before(r, q[k], x)
  <2>1. Into(q, x, Len(q), r)
    BY <1>1 DEF Into
  <2> QED BY <1>1, <2>1, Inserted
<1>3. \A y \in Members(q) : Before(r, y, x)
  BY <1>2 DEF Members
<1> QED BY <1>1, <1>2, <1>3 DEF r

\* list_add() at the head: insert_wq_barrier() with tail = 0.
LEMMA AtHead ==
    ASSUME NEW T, NEW q \in Seq(T), NEW x \in T
    PROVE  LET r == <<x>> \o q
           IN  /\ r \in Seq(T)
               /\ Members(r) = Members(q) \cup {x}
               /\ NoDup(q) /\ x \notin Members(q) => NoDup(r)
               /\ \A y, z : Before(q, y, z) => Before(r, y, z)
<1> DEFINE r == <<x>> \o q
<1>1. /\ r \in Seq(T) /\ Len(r) = Len(q) + 1 /\ Len(q) \in Nat
      /\ \A k \in 1..Len(q) : r[k + 1] = q[k]
      /\ r[1] = x
  OBVIOUS
<1> HIDE DEF r
<1>2. Into(q, x, 0, r)
  BY <1>1 DEF Into
<1>3. /\ Members(r) = Members(q) \cup {x}
      /\ NoDup(q) /\ x \notin Members(q) => NoDup(r)
      /\ \A y, z : Before(q, y, z) => Before(r, y, z)
  BY <1>1, <1>2, Inserted
<1> QED BY <1>1, <1>3 DEF r

\* __list_add() behind the work: what insert_work() of a barrier does after it.
LEMMA AtBehind ==
    ASSUME NEW c \in CPUs, NEW x \in Items, cwq[c].worklist \in Seq(Items),
           NEW y \in Members(cwq[c].worklist)
    PROVE  LET q == cwq[c].worklist
               r == Behind(c, x, y)
           IN  /\ r \in Seq(Items)
               /\ Members(r) = Members(q) \cup {x}
               /\ NoDup(q) /\ x \notin Members(q) => NoDup(r)
               /\ \A v, z : Before(q, v, z) => Before(r, v, z)
               /\ Before(r, y, x)
<1> DEFINE q == cwq[c].worklist
           i == CHOOSE k \in 1..Len(q) : q[k] = y
           r == SubSeq(q, 1, i) \o <<x>> \o SubSeq(q, i + 1, Len(q))
<1>1. i \in 1..Len(q) /\ q[i] = y
  BY DEF Members
<1>2. Behind(c, x, y) = r
  BY DEF Behind
<1> HIDE DEF i
<1>3. q \in Seq(Items) /\ Len(q) \in Nat /\ i \in 0..Len(q) /\ i \in Nat
  BY <1>1
<1> HIDE DEF q
<1>4. r \in Seq(Items) /\ Into(q, x, i, r)
  <2> DEFINE a == SubSeq(q, 1, i)
             b == SubSeq(q, i + 1, Len(q))
  <2>1. a \in Seq(Items) /\ Len(a) = i /\ \A k \in 1..i : a[k] = q[k]
    BY <1>3
  <2>2. /\ b \in Seq(Items) /\ Len(b) = Len(q) - i
        /\ \A k \in 1 .. Len(q) - i : b[k] = q[i + k]
    BY <1>3
  <2> HIDE DEF a, b
  <2>3. a \o <<x>> \in Seq(Items) /\ Len(a \o <<x>>) = i + 1 /\ (a \o <<x>>)[i + 1] = x
        /\ \A k \in 1..i : (a \o <<x>>)[k] = q[k]
    BY <1>3, <2>1
  <2> DEFINE d == a \o <<x>>
  <2> HIDE DEF d
  <2>4. /\ d \o b \in Seq(Items) /\ Len(d \o b) = Len(q) + 1
        /\ \A k \in 1 .. i + 1 : (d \o b)[k] = d[k]
        /\ \A k \in 1 .. Len(q) - i : (d \o b)[i + 1 + k] = b[k]
    BY <1>3, <2>2, <2>3 DEF d
  <2>5. r = d \o b
    BY DEF d, a, b
  <2>6. ASSUME NEW k \in i + 1 .. Len(q)
        PROVE  (d \o b)[k + 1] = q[k]
    <3>1. k - i \in 1 .. Len(q) - i /\ i + 1 + (k - i) = k + 1 /\ i + (k - i) = k
      BY <1>3
    <3>2. (d \o b)[i + 1 + (k - i)] = b[k - i] /\ b[k - i] = q[i + (k - i)]
      BY <2>2, <2>4, <3>1
    <3> QED BY <3>1, <3>2
  <2>7. \A k \in 1..i : (d \o b)[k] = q[k]
    BY <1>3, <2>3, <2>4 DEF d
  <2>8. (d \o b)[i + 1] = x
    BY <1>3, <2>3, <2>4 DEF d
  <2> QED BY <1>3, <2>4, <2>5, <2>6, <2>7, <2>8 DEF Into
<1> HIDE DEF r
<1>5. /\ Members(r) = Members(q) \cup {x}
      /\ NoDup(q) /\ x \notin Members(q) => NoDup(r)
      /\ \A v, z : Before(q, v, z) => Before(r, v, z)
      /\ \A k \in 1..i : Before(r, q[k], x)
  BY <1>3, <1>4, Inserted
<1>6. Before(r, y, x)
  BY <1>1, <1>3, <1>5
<1> QED BY <1>2, <1>4, <1>5, <1>6 DEF q

\* Taking an entry off a list keeps the order of the others.
LEMMA TakenOff ==
    ASSUME NEW T, NEW q \in Seq(T), NoDup(q)
    PROVE  /\ q # <<>> => \A y, z : Before(q, y, z) /\ y # Head(q) =>
                 z # Head(q) /\ Before(Tail(q), y, z)
           /\ \A x \in Members(q) : \A y, z : Before(q, y, z) /\ y # x /\ z # x =>
                 Before(list_del(q, x), y, z)
<1>1. ASSUME q # <<>>, NEW y, NEW z, Before(q, y, z), y # Head(q)
      PROVE  z # Head(q) /\ Before(Tail(q), y, z)
  <2> DEFINE r == Tail(q)
  <2>1. /\ r \in Seq(T) /\ Len(q) = Len(r) + 1 /\ Len(r) \in Nat /\ Head(q) = q[1]
        /\ \A k \in 1..Len(r) : q[k + 1] = r[k]
    BY <1>1
  <2> HIDE DEF r
  <2>2. Into(r, Head(q), 0, q)
    BY <2>1 DEF Into
  <2>3. \A v, w : Before(q, v, w) /\ v # Head(q) /\ w # Head(q) => Before(r, v, w)
    BY <2>1, <2>2, Inserted
  <2>4. PICK j, k \in 1..Len(q) : j < k /\ q[j] = y /\ q[k] = z
    BY <1>1 DEF Before
  <2>5. k # 1 /\ 1 \in 1..Len(q)
    BY <2>1, <2>4
  <2>6. z # Head(q)
    BY <2>1, <2>4, <2>5 DEF NoDup
  <2> QED BY <1>1, <2>3, <2>6 DEF r
<1>2. ASSUME NEW x \in Members(q), NEW y, NEW z, Before(q, y, z), y # x, z # x
      PROVE  Before(list_del(q, x), y, z)
  <2> DEFINE at == CHOOSE i \in 1..Len(q) : q[i] = x
             r  == [i \in 1 .. Len(q) - 1 |-> IF i < at THEN q[i] ELSE q[i + 1]]
  <2>1. at \in 1..Len(q) /\ q[at] = x
    BY DEF Members
  <2>2. list_del(q, x) = r
    BY DEF list_del
  <2> HIDE DEF at
  <2>3. /\ Len(q) \in Nat /\ at \in Nat /\ Len(q) - 1 \in Nat
    BY <2>1
  <2>4. r \in Seq(T) /\ Len(r) = Len(q) - 1
    BY <2>2, ListDelProperties
  <2>5. \A k \in 1 .. Len(q) - 1 : r[k] = IF k < at THEN q[k] ELSE q[k + 1]
    OBVIOUS
  <2> HIDE DEF r
  <2>6. Into(r, x, at - 1, q)
    BY <2>1, <2>3, <2>4, <2>5 DEF Into
  <2>7. \A v, w : Before(q, v, w) /\ v # x /\ w # x => Before(r, v, w)
    BY <2>4, <2>6, Inserted
  <2> QED BY <1>2, <2>2, <2>7
<1> QED BY <1>1, <1>2

------------------------------------------------------------------------------
\* The types of what the proofs compute with.
LEMMA Types ==
    ASSUME TypeOK
    PROVE  /\ work \in [Works -> WorkRec] /\ cwq \in [CPUs -> CwqRec] /\ call \in [Clients -> Calls]
           /\ \A c \in CPUs : /\ cwq[c].worklist \in Seq(Items) /\ cwq[c].frames \in Seq(RunFrames)
                              /\ cwq[c].awake \in BOOLEAN /\ cwq[c].stop \in BOOLEAN
           /\ \A t \in Clients : call[t] \in Calls
           /\ hot \in HotRec /\ hot.online \subseteq CPUs /\ hot.populated \subseteq CPUs
           /\ hot.todo \subseteq CPUs /\ hot.single \in BOOLEAN
BY DEF TypeOK, CwqRec, HotRec

\* Barriers are no works, and nothing is both a task and no work.
LEMMA Kinds ==
    /\ \A w \in Works : w \notin Waits /\ w \in Items /\ w # NULL
    /\ \A t \in Clients : t \in Waits /\ t \notin Works /\ t # Admin
    /\ \A t \in Waits : t \in Items /\ t # NULL /\ t \notin Works
    /\ Admin \in Waits
    /\ \A x \in Items : x \in Works \/ x \in Waits
    /\ \A t \in Waits : t \in Clients \/ t = Admin
BY WorkQueueAssumption DEF Waits, Items

\* Only the innermost callback of a worker counts as running.
LEMMA TopFrame ==
    ASSUME NEW fs \in Seq(RunFrames), fs # <<>>,
           \A i \in 1..Len(fs) : i < Len(fs) => fs[i].at = "byhand",
           NEW P, "byhand" \notin P
    PROVE  \A x : (\E f \in Members(fs) : f.item = x /\ f.at \in P)
                     <=> fs[Len(fs)].item = x /\ fs[Len(fs)].at \in P
<1>1. Len(fs) \in 1..Len(fs)
  OBVIOUS
<1>2. ASSUME NEW f \in Members(fs), f.at \in P
      PROVE  f = fs[Len(fs)]
  <2>1. PICK i \in 1..Len(fs) : f = fs[i]
    BY DEF Members
  <2>2. ~ i < Len(fs)
    BY <1>2, <2>1
  <2>3. i = Len(fs)
    BY <2>1, <2>2
  <2> QED BY <2>1, <2>3
<1>3. fs[Len(fs)] \in Members(fs)
  BY <1>1 DEF Members
<1> QED BY <1>2, <1>3

\* The call of t is now at p, with this work, CPU and flags.
To(t, p, w, c, d, g) ==
    /\ call' \in [Clients -> Calls]
    /\ \A s \in Clients : s # t => call'[s] = call[s]
    /\ call'[t].pc = p /\ call'[t].w = w /\ call'[t].cpu = c
    /\ call'[t].timed = d /\ call'[t].got = g

Places == {"idle", "insert", "arm", "flush", "flush_wait",
           "fw_lock", "fw_wait", "fw_ret", "c_timer", "c_grab", "c_read",
           "c_lock", "c_wait", "c_cpu", "c_cpu_wait", "c_clear", "cd_clear"}

\* The calls a client starts and ends are records of the right type.
LEMMA NewCalls ==
    ASSUME TypeOK, NEW t \in Clients, NEW p \in Places, NEW w \in Works \cup {NULL},
           NEW c \in 0 .. NCPU + 1, NEW d \in BOOLEAN
    PROVE  /\ Become(t, Idle) => To(t, "idle", NULL, 0, FALSE, FALSE)
           /\ Become(t, [Idle EXCEPT !.pc = p, !.w = w, !.cpu = c]) => To(t, p, w, c, FALSE, FALSE)
           /\ Become(t, [Idle EXCEPT !.pc = p, !.cpu = c]) => To(t, p, NULL, c, FALSE, FALSE)
           /\ Become(t, [Idle EXCEPT !.pc = p, !.w = w, !.timed = d]) => To(t, p, w, 0, d, FALSE)
           /\ Become(t, [Idle EXCEPT !.pc = p, !.w = w, !.got = TRUE]) => To(t, p, w, 0, FALSE, TRUE)
<1>0. 0 \in 0 .. NCPU + 1 /\ call \in [Clients -> Calls]
  BY WorkQueueAssumption, Types
<1> DEFINE r == Idle
<1>1. r \in Calls
  BY <1>0 DEF Idle, Calls
<1>2. r.pc = "idle" /\ r.w = NULL /\ r.cpu = 0 /\ r.timed = FALSE /\ r.got = FALSE
  BY DEF Idle
<1>3. ASSUME NEW k \in Calls PROVE [k EXCEPT !.pc = p] \in Calls
  BY DEF Calls, Places
<1>4. ASSUME NEW k \in Calls PROVE [k EXCEPT !.w = w] \in Calls
  BY DEF Calls
<1>5. ASSUME NEW k \in Calls PROVE [k EXCEPT !.cpu = c] \in Calls
  BY DEF Calls
<1>6. ASSUME NEW k \in Calls PROVE [k EXCEPT !.timed = d] \in Calls
  BY DEF Calls
<1>7. ASSUME NEW k \in Calls PROVE [k EXCEPT !.got = TRUE] \in Calls
  BY DEF Calls
<1> HIDE DEF r
<1>8. [r EXCEPT !.pc = p, !.w = w, !.cpu = c] \in Calls
  <2>1. [r EXCEPT !.pc = p, !.w = w, !.cpu = c]
          = [[[r EXCEPT !.pc = p] EXCEPT !.w = w] EXCEPT !.cpu = c]
    BY <1>1 DEF Calls
  <2> QED BY <1>1, <1>3, <1>4, <1>5, <2>1
<1>9. [r EXCEPT !.pc = p, !.cpu = c] \in Calls
  <2>1. [r EXCEPT !.pc = p, !.cpu = c] = [[r EXCEPT !.pc = p] EXCEPT !.cpu = c]
    BY <1>1 DEF Calls
  <2> QED BY <1>1, <1>3, <1>5, <2>1
<1>10. [r EXCEPT !.pc = p, !.w = w, !.timed = d] \in Calls
  <2>1. [r EXCEPT !.pc = p, !.w = w, !.timed = d]
          = [[[r EXCEPT !.pc = p] EXCEPT !.w = w] EXCEPT !.timed = d]
    BY <1>1 DEF Calls
  <2> QED BY <1>1, <1>3, <1>4, <1>6, <2>1
<1>11. [r EXCEPT !.pc = p, !.w = w, !.got = TRUE] \in Calls
  <2>1. [r EXCEPT !.pc = p, !.w = w, !.got = TRUE]
          = [[[r EXCEPT !.pc = p] EXCEPT !.w = w] EXCEPT !.got = TRUE]
    BY <1>1 DEF Calls
  <2> QED BY <1>1, <1>3, <1>4, <1>7, <2>1
<1>12. ASSUME NEW k \in Calls, Become(t, k)
       PROVE  To(t, k.pc, k.w, k.cpu, k.timed, k.got)
  BY <1>0, <1>12 DEF Become, To
<1>13. Become(t, Idle) => To(t, "idle", NULL, 0, FALSE, FALSE)
  BY <1>1, <1>2, <1>12 DEF r
<1>14. ASSUME Become(t, [r EXCEPT !.pc = p, !.w = w, !.cpu = c])
       PROVE  To(t, p, w, c, FALSE, FALSE)
  <2> DEFINE k == [r EXCEPT !.pc = p, !.w = w, !.cpu = c]
  <2>1. k.pc = p /\ k.w = w /\ k.cpu = c /\ k.timed = FALSE /\ k.got = FALSE
    BY <1>1, <1>2 DEF Calls
  <2>2. k \in Calls /\ Become(t, k)
    BY <1>8, <1>14
  <2> HIDE DEF k
  <2>3. To(t, k.pc, k.w, k.cpu, k.timed, k.got)
    BY <1>12, <2>2
  <2> QED BY <2>1, <2>3
<1>15. ASSUME Become(t, [r EXCEPT !.pc = p, !.cpu = c])
       PROVE  To(t, p, NULL, c, FALSE, FALSE)
  <2> DEFINE k == [r EXCEPT !.pc = p, !.cpu = c]
  <2>1. k.pc = p /\ k.w = NULL /\ k.cpu = c /\ k.timed = FALSE /\ k.got = FALSE
    BY <1>1, <1>2 DEF Calls
  <2>2. k \in Calls /\ Become(t, k)
    BY <1>9, <1>15
  <2> HIDE DEF k
  <2>3. To(t, k.pc, k.w, k.cpu, k.timed, k.got)
    BY <1>12, <2>2
  <2> QED BY <2>1, <2>3
<1>16. ASSUME Become(t, [r EXCEPT !.pc = p, !.w = w, !.timed = d])
       PROVE  To(t, p, w, 0, d, FALSE)
  <2> DEFINE k == [r EXCEPT !.pc = p, !.w = w, !.timed = d]
  <2>1. k.pc = p /\ k.w = w /\ k.cpu = 0 /\ k.timed = d /\ k.got = FALSE
    BY <1>1, <1>2 DEF Calls
  <2>2. k \in Calls /\ Become(t, k)
    BY <1>10, <1>16
  <2> HIDE DEF k
  <2>3. To(t, k.pc, k.w, k.cpu, k.timed, k.got)
    BY <1>12, <2>2
  <2> QED BY <2>1, <2>3
<1>17. ASSUME Become(t, [r EXCEPT !.pc = p, !.w = w, !.got = TRUE])
       PROVE  To(t, p, w, 0, FALSE, TRUE)
  <2> DEFINE k == [r EXCEPT !.pc = p, !.w = w, !.got = TRUE]
  <2>1. k.pc = p /\ k.w = w /\ k.cpu = 0 /\ k.timed = FALSE /\ k.got = TRUE
    BY <1>1, <1>2 DEF Calls
  <2>2. k \in Calls /\ Become(t, k)
    BY <1>11, <1>17
  <2> HIDE DEF k
  <2>3. To(t, k.pc, k.w, k.cpu, k.timed, k.got)
    BY <1>12, <2>2
  <2> QED BY <2>1, <2>3
<1> QED BY <1>13, <1>14, <1>15, <1>16, <1>17 DEF r

\* So is a call that goes on to its next place.
LEMMA CallGoesOn ==
    ASSUME TypeOK, NEW t \in Clients, NEW p \in Places, NEW c \in 0 .. NCPU + 1
    PROVE  /\ Step(t, p) => To(t, p, call[t].w, call[t].cpu, call[t].timed, call[t].got)
           /\ call' = [call EXCEPT ![t].cpu = c]
                => To(t, call[t].pc, call[t].w, c, call[t].timed, call[t].got)
           /\ call' = [call EXCEPT ![t].pc = p, ![t].cpu = c]
                => To(t, p, call[t].w, c, call[t].timed, call[t].got)
           /\ call' = [call EXCEPT ![t].cpu = c, ![t].pc = p]
                => To(t, p, call[t].w, c, call[t].timed, call[t].got)
           /\ call' = [call EXCEPT ![t].pc = p, ![t].got = TRUE]
                => To(t, p, call[t].w, call[t].cpu, call[t].timed, TRUE)
<1>0. call \in [Clients -> Calls] /\ call[t] \in Calls
  BY Types
<1> DEFINE k == call[t]
<1>1. ASSUME NEW r \in Calls PROVE [r EXCEPT !.pc = p] \in Calls
  BY DEF Calls, Places
<1>2. ASSUME NEW r \in Calls PROVE [r EXCEPT !.cpu = c] \in Calls
  BY DEF Calls
<1>3. ASSUME NEW r \in Calls PROVE [r EXCEPT !.got = TRUE] \in Calls
  BY DEF Calls
<1>4. [k EXCEPT !.pc = p, !.cpu = c] \in Calls
  <2>1. [k EXCEPT !.pc = p, !.cpu = c] = [[k EXCEPT !.pc = p] EXCEPT !.cpu = c]
    BY <1>0 DEF Calls
  <2> QED BY <1>0, <1>1, <1>2, <2>1
<1>5. [k EXCEPT !.cpu = c, !.pc = p] \in Calls
  <2>1. [k EXCEPT !.cpu = c, !.pc = p] = [[k EXCEPT !.cpu = c] EXCEPT !.pc = p]
    BY <1>0 DEF Calls
  <2> QED BY <1>0, <1>1, <1>2, <2>1
<1>6. [k EXCEPT !.pc = p, !.got = TRUE] \in Calls
  <2>1. [k EXCEPT !.pc = p, !.got = TRUE] = [[k EXCEPT !.pc = p] EXCEPT !.got = TRUE]
    BY <1>0 DEF Calls
  <2> QED BY <1>0, <1>1, <1>3, <2>1
<1>7. ASSUME Step(t, p)
      PROVE  To(t, p, k.w, k.cpu, k.timed, k.got)
  <2>1. call' = [call EXCEPT ![t] = [k EXCEPT !.pc = p]]
    BY <1>0, <1>7 DEF Step
  <2> QED BY <1>0, <1>1, <2>1 DEF To, Calls
<1>8. ASSUME call' = [call EXCEPT ![t].cpu = c]
      PROVE  To(t, k.pc, k.w, c, k.timed, k.got)
  <2>1. call' = [call EXCEPT ![t] = [k EXCEPT !.cpu = c]]
    BY <1>0, <1>8
  <2> QED BY <1>0, <1>2, <2>1 DEF To, Calls
<1>9. ASSUME call' = [call EXCEPT ![t].pc = p, ![t].cpu = c]
      PROVE  To(t, p, k.w, c, k.timed, k.got)
  <2>1. call' = [call EXCEPT ![t] = [k EXCEPT !.pc = p, !.cpu = c]]
    BY <1>0, <1>9
  <2> QED BY <1>0, <1>4, <2>1 DEF To, Calls
<1>10. ASSUME call' = [call EXCEPT ![t].cpu = c, ![t].pc = p]
       PROVE  To(t, p, k.w, c, k.timed, k.got)
  <2>1. call' = [call EXCEPT ![t] = [k EXCEPT !.cpu = c, !.pc = p]]
    BY <1>0, <1>10
  <2> QED BY <1>0, <1>5, <2>1 DEF To, Calls
<1>11. ASSUME call' = [call EXCEPT ![t].pc = p, ![t].got = TRUE]
       PROVE  To(t, p, k.w, k.cpu, k.timed, TRUE)
  <2>1. call' = [call EXCEPT ![t] = [k EXCEPT !.pc = p, !.got = TRUE]]
    BY <1>0, <1>11
  <2> QED BY <1>0, <1>6, <2>1 DEF To, Calls
<1> QED BY <1>7, <1>8, <1>9, <1>10, <1>11

------------------------------------------------------------------------------
\* Nothing but the list of c changes, which becomes q; a worker may wake up.
List(c, q) ==
    /\ cwq' \in [CPUs -> CwqRec]
    /\ \A d \in CPUs : d # c => cwq'[d] = cwq[d]
    /\ cwq'[c].worklist = q
    /\ cwq'[c].frames = cwq[c].frames /\ cwq'[c].current_work = cwq[c].current_work
    /\ cwq'[c].thread = cwq[c].thread /\ cwq'[c].stop = cwq[c].stop

\* What insert_work() and list_del_init() change of a cwq.
LEMMA ListFields ==
    ASSUME TypeOK, NEW c \in CPUs, NEW q \in Seq(Items)
    PROVE  /\ insert_work(c, q) => List(c, q)
           /\ cwq' = [cwq EXCEPT ![c].worklist = q] => List(c, q)
<1>0. cwq \in [CPUs -> CwqRec] /\ cwq[c] \in CwqRec /\ cwq[c].awake \in BOOLEAN
  BY Types
<1>1. ASSUME NEW r \in CwqRec PROVE [r EXCEPT !.worklist = q] \in CwqRec
  BY DEF CwqRec
<1>2. ASSUME NEW r \in CwqRec, NEW b \in BOOLEAN PROVE [r EXCEPT !.awake = b] \in CwqRec
  BY DEF CwqRec
<1>3. ASSUME insert_work(c, q)
      PROVE  List(c, q)
  <2> DEFINE b == cwq[c].awake \/ cwq[c].thread \in {"check", "sleep"}
             r == cwq[c]
  <2>1. cwq' = [cwq EXCEPT ![c] = [r EXCEPT !.worklist = q, !.awake = b]]
    BY <1>0, <1>3 DEF insert_work
  <2>2. [r EXCEPT !.worklist = q, !.awake = b] = [[r EXCEPT !.worklist = q] EXCEPT !.awake = b]
    BY <1>0 DEF CwqRec
  <2>3. b \in BOOLEAN
    OBVIOUS
  <2> HIDE DEF b
  <2>4. [r EXCEPT !.worklist = q, !.awake = b] \in CwqRec
    BY <1>0, <1>1, <1>2, <2>2, <2>3
  <2> QED BY <1>0, <2>1, <2>4 DEF List, CwqRec
<1>4. ASSUME cwq' = [cwq EXCEPT ![c].worklist = q]
      PROVE  List(c, q)
  <2>1. cwq' = [cwq EXCEPT ![c] = [cwq[c] EXCEPT !.worklist = q]]
    BY <1>0, <1>4
  <2> QED BY <1>0, <1>1, <2>1 DEF List, CwqRec
<1> QED BY <1>3, <1>4

\* q is the list of c with x put in somewhere.
Placed(c, x, q) ==
    /\ q \in Seq(Items)
    /\ Members(q) = Members(cwq[c].worklist) \cup {x}
    /\ NoDup(cwq[c].worklist) /\ x \notin Members(cwq[c].worklist) => NoDup(q)
    /\ \A y, z : Before(cwq[c].worklist, y, z) => Before(q, y, z)

\* At the tail, at the head and behind an entry the list keeps its order.
LEMMA PlacedAt ==
    ASSUME TypeOK, NEW c \in CPUs, NEW x \in Items
    PROVE  /\ Placed(c, x, list_add_tail(cwq[c].worklist, x))
           /\ Placed(c, x, <<x>> \o cwq[c].worklist)
           /\ \A y \in Members(cwq[c].worklist) : /\ Placed(c, x, Behind(c, x, y))
                                                  /\ Before(Behind(c, x, y), y, x)
           /\ \A y \in Members(cwq[c].worklist) :
                 Before(list_add_tail(cwq[c].worklist, x), y, x)
<1>0. cwq[c].worklist \in Seq(Items)
  BY Types
<1>1. /\ Placed(c, x, list_add_tail(cwq[c].worklist, x))
      /\ \A y \in Members(cwq[c].worklist) : Before(list_add_tail(cwq[c].worklist, x), y, x)
  BY <1>0, AtTail DEF Placed
<1>2. Placed(c, x, <<x>> \o cwq[c].worklist)
  BY <1>0, AtHead DEF Placed
<1>3. ASSUME NEW y \in Members(cwq[c].worklist)
      PROVE  Placed(c, x, Behind(c, x, y)) /\ Before(Behind(c, x, y), y, x)
  BY <1>0, AtBehind DEF Placed
<1> QED BY <1>1, <1>2, <1>3

\* An entry is put on a list.  The others stay, in their order.
Adds(c, x) ==
    /\ \A y : y # x => ListOf(y)' = ListOf(y)
    /\ ListOf(x)' = ListOf(x) \cup {c}
    /\ \A y : /\ RunningAt(y, {"clear"})' = RunningAt(y, {"clear"})
              /\ HandOf(y)' = HandOf(y) /\ Running(y)' = Running(y)
    /\ \A d \in CPUs : \A y, z : Before(cwq[d].worklist, y, z) => Before(cwq'[d].worklist, y, z)

\* insert_work() of something that is not queued leaves a list without doubles.
LEMMA ListGrows ==
    ASSUME Shape, NEW c \in CPUs, NEW x \in Items, NEW q, List(c, q), Placed(c, x, q),
           x \notin Members(cwq[c].worklist)
    PROVE  Adds(c, x) /\ Workers'
<1>1. \A d \in CPUs : cwq'[d].frames = cwq[d].frames
  BY DEF List
<1>2. \A d \in CPUs : d # c => cwq'[d].worklist = cwq[d].worklist
  BY DEF List
<1>3. Members(cwq'[c].worklist) = Members(cwq[c].worklist) \cup {x}
  BY DEF List, Placed
<1>4. \A y : y # x => ListOf(y)' = ListOf(y)
  BY <1>2, <1>3 DEF ListOf
<1>5. ListOf(x)' = ListOf(x) \cup {c}
  BY <1>2, <1>3 DEF ListOf
<1>6. \A y : /\ RunningAt(y, {"clear"})' = RunningAt(y, {"clear"})
             /\ HandOf(y)' = HandOf(y) /\ Running(y)' = Running(y)
  BY <1>1 DEF RunningAt, HandOf, Running
<1>7. \A d \in CPUs : \A y, z : Before(cwq[d].worklist, y, z) => Before(cwq'[d].worklist, y, z)
  BY <1>2 DEF List, Placed
<1>8. ASSUME NEW d \in CPUs
      PROVE  WorkerOk(d)'
  <2>1. NoDup(cwq'[d].worklist)
    <3>1. NoDup(cwq[d].worklist)
      BY DEF Shape, Workers, WorkerOk
    <3> QED BY <1>2, <3>1 DEF List, Placed
  <2>2. /\ cwq'[d].thread = cwq[d].thread /\ cwq'[d].frames = cwq[d].frames
        /\ cwq'[d].current_work = cwq[d].current_work
    BY DEF List
  <2>3. /\ cwq'[d].thread = "busy" <=> cwq'[d].frames # <<>>
        /\ FramesOk(cwq'[d].frames, cwq'[d].current_work)
    BY <2>2 DEF Shape, Workers, WorkerOk
  <2> QED BY <2>1, <2>3 DEF WorkerOk
<1> QED BY <1>4, <1>5, <1>6, <1>7, <1>8 DEF Adds, Workers

------------------------------------------------------------------------------
\* An owner of the PENDING bit is the only one.
LEMMA Sole ==
    ASSUME NEW w \in Works, Owner(w)
    PROVE  /\ \A c \in ListOf(w) : /\ work[w].pending /\ ListOf(w) = {c}
                                   /\ HandOf(w) = {} /\ CallOf(w) = {} /\ TimerOf(w) = {}
           /\ \A c \in HandOf(w) : /\ work[w].pending /\ HandOf(w) = {c}
                                   /\ ListOf(w) = {} /\ CallOf(w) = {} /\ TimerOf(w) = {}
           /\ \A t \in CallOf(w) : /\ work[w].pending /\ CallOf(w) = {t}
                                   /\ ListOf(w) = {} /\ HandOf(w) = {} /\ TimerOf(w) = {}
           /\ \A a \in TimerOf(w) : /\ work[w].pending /\ TimerOf(w) = {a}
                                    /\ ListOf(w) = {} /\ HandOf(w) = {} /\ CallOf(w) = {}
           /\ ~work[w].pending => /\ ListOf(w) = {} /\ HandOf(w) = {}
                                  /\ CallOf(w) = {} /\ TimerOf(w) = {}
BY DEF Owner, Alone

\* All lists keep their entries, in their order; x may come to one.
Stays(x) ==
    /\ \A y : y # x => ListOf(y)' = ListOf(y)
    /\ ListOf(x) \subseteq ListOf(x)'
    /\ \A y : Running(y)' = Running(y)
    /\ \A d \in CPUs : \A y, z : Before(cwq[d].worklist, y, z) => Before(cwq'[d].worklist, y, z)

\* Besides, no callback goes on.
Keeps(x) ==
    /\ \A y : y # x => ListOf(y)' = ListOf(y)
    /\ ListOf(x) \subseteq ListOf(x)'
    /\ \A y : /\ RunningAt(y, {"clear"})' = RunningAt(y, {"clear"})
              /\ HandOf(y)' = HandOf(y) /\ Running(y)' = Running(y)
    /\ \A d \in CPUs : \A y, z : Before(cwq[d].worklist, y, z) => Before(cwq'[d].worklist, y, z)

\* Adding an entry keeps all others where they were.
LEMMA AddsKeeps ==
    ASSUME NEW c, NEW x, Adds(c, x)
    PROVE  Keeps(x)
BY DEF Adds, Keeps

\* So does a step that leaves the workers alone.
LEMMA SameKeeps ==
    ASSUME UNCHANGED cwq, NEW x
    PROVE  Keeps(x) /\ ListOf(x)' = ListOf(x)
BY DEF Keeps, ListOf, RunningAt, HandOf, Running

\* What a barrier that is in its place becomes.
LEMMA RestStays ==
    ASSUME TypeOK, Owned, Flushed, NEW t, NEW x, Stays(x), UNCHANGED hot,
           \A s \in Clients : s # t => call'[s] = call[s] /\ owed'[s] = owed[s],
           done' \subseteq done
    PROVE  /\ \A s \in Clients : s # t /\ s # x => Cancels(s)'
           /\ \A s \in Clients : s # t => \A o \in owed'[s] : Owes(s, o)'
           /\ \A s \in Waits : s # t /\ s # x => Barrier(s)'
<1>1. ASSUME NEW s \in Clients, s # t, s # x
      PROVE  Cancels(s)'
  <2>1. Cancels(s)
    BY DEF Owned
  <2>2. call'[s] = call[s] /\ ListOf(s)' = ListOf(s) /\ \A w : Running(w)' = Running(w)
    BY <1>1 DEF Stays
  <2> QED BY <2>1, <2>2 DEF Cancels
<1>2. ASSUME NEW s \in Clients, s # t, NEW o \in owed'[s]
      PROVE  Owes(s, o)'
  <2>1. call'[s] = call[s] /\ owed'[s] = owed[s]
    BY <1>2
  <2>2. Owes(s, o)
    BY <1>2, <2>1 DEF Flushed
  <2>3. /\ \A y : ListOf(y) \subseteq ListOf(y)'
        /\ \A y : Running(y)' = Running(y)
        /\ \A d \in CPUs : \A y, z : Before(cwq[d].worklist, y, z) => Before(cwq'[d].worklist, y, z)
    BY DEF Stays
  <2>4. o[1] \in CPUs
    BY <1>2, <2>1 DEF TypeOK
  <2> QED BY <2>1, <2>2, <2>3, <2>4 DEF Owes
<1>3. ASSUME NEW s \in Waits, s # t, s # x
      PROVE  Barrier(s)'
  <2>1. Barrier(s)
    BY <1>3 DEF Flushed
  <2>2. /\ ListOf(s)' = ListOf(s) /\ Running(s)' = Running(s)
        /\ s # Admin => call'[s] = call[s]
        /\ s \in done' => s \in done
    BY <1>3, Kinds DEF Stays
  <2> QED BY <2>1, <2>2 DEF Barrier, Awaits, Home
<1> QED BY <1>1, <1>2, <1>3

\* What the other clients hold, wait for and are owed is still as it was.
LEMMA OthersStay ==
    ASSUME TypeOK, Owned, Flushed, NEW t, NEW x, Keeps(x), UNCHANGED hot,
           \A s \in Clients : s # t => call'[s] = call[s] /\ owed'[s] = owed[s],
           done' \subseteq done
    PROVE  /\ \A s \in Clients : s # t /\ s # x => Cancels(s)'
           /\ \A s \in Clients : s # t => \A o \in owed'[s] : Owes(s, o)'
           /\ \A s \in Waits : s # t /\ s # x => Barrier(s)'
<1>1. Stays(x)
  BY DEF Keeps, Stays
<1> QED BY <1>1, RestStays

\* A client goes on: what has to be seen to for the shape of the state.
LEMMA ClientShape ==
    ASSUME Shape, NEW t \in Clients, NEW p, NEW w, NEW c, NEW d, NEW g, To(t, p, w, c, d, g),
           CallOk(call'[t], hot.online), hot.todo = {}, hot.at # "destroyed", UNCHANGED hot,
           work' \in [Works -> WorkRec], cwq' \in [CPUs -> CwqRec], done' \subseteq done,
           owed' \in [Clients -> SUBSET (CPUs \X Works \X {"queued", "run", "byhand"})],
           Workers',
           \A k \in CPUs : /\ cwq'[k].thread = cwq[k].thread /\ cwq'[k].stop = cwq[k].stop
                           /\ \/ cwq'[k].worklist = cwq[k].worklist
                              \/ cwq[k].worklist = <<>> => cwq'[k].worklist = <<>>
                              \/ Quiescing(k) => cwq[k].thread = "busy"
    PROVE  Shape'
<1>1. TypeOK'
  BY DEF Shape, TypeOK, To
<1>2. CallsOk'
  <2>1. ASSUME NEW s \in Clients
        PROVE  CallOk(call'[s], hot'.online)
    <3>1. CASE s = t
      BY <3>1
    <3>2. CASE s # t
      BY <3>2 DEF Shape, CallsOk, To
    <3> QED BY <3>1, <3>2
  <2> QED BY <2>1 DEF CallsOk
<1>3. Hotplug'
  <2>1. MapsOk'
    BY DEF Shape, Hotplug, MapsOk
  <2>2. ASSUME NEW k \in CPUs
        PROVE  ThreadOk(k, cwq[k].thread, cwq[k].stop)' /\ Quiesced(k)'
    <3>1. ThreadOk(k, cwq[k].thread, cwq[k].stop) /\ Quiesced(k)
      BY DEF Shape, Hotplug
    <3>2. ThreadOk(k, cwq[k].thread, cwq[k].stop)'
      BY <3>1 DEF ThreadOk, wq_cpu_map
    <3>3. Quiescing(k)' => Quiescing(k)
      BY DEF Quiescing
    <3>4. Quiesced(k)'
      BY <3>1, <3>3 DEF Quiesced
    <3> QED BY <3>2, <3>4
  <2> QED BY <2>1, <2>2 DEF Hotplug
<1> QED BY <1>1, <1>2, <1>3 DEF Shape

------------------------------------------------------------------------------
\* A client that has a call has a workqueue.
LEMMA InUse ==
    ASSUME Shape, NEW t \in Clients, call[t].pc # "idle" \/ NewCall(t)
    PROVE  hot.todo = {} /\ hot.at # "destroyed"
BY DEF Shape, Hotplug, NoUsers, NewCall

\* Who awaits no barrier has none, and who is not in a flush waits for nothing.
LEMMA NoBarrier ==
    ASSUME Flushed, NEW t \in Waits, ~Awaits(t) \/ t \in done
    PROVE  ListOf(t) = {} /\ Running(t) = {}
<1>1. \A c \in ListOf(t) \cup Running(t) : FALSE
  BY DEF Flushed, Barrier
<1> QED BY <1>1

\* A call that is not in a flush has nothing to wait for.
LEMMA NoDebts ==
    ASSUME Flushed, NEW t \in Clients,
           call[t].pc \notin {"flush", "flush_wait", "fw_lock", "fw_wait", "fw_ret"}
    PROVE  owed[t] = {}
<1>1. \A o \in owed[t] : FALSE
  BY DEF Flushed, Owes
<1> QED BY <1>1

\* Works whose state, lists and calls stay have the owner they had.
LEMMA SameOwner ==
    ASSUME NEW v \in Works, Owner(v), KnowsCwq(v), work'[v] = work[v],
           ListOf(v)' = ListOf(v), HandOf(v)' = HandOf(v), CallOf(v)' = CallOf(v),
           Running(v)' \subseteq Running(v),
           RunningAt(v, {"clear"})' = RunningAt(v, {"clear"})
    PROVE  Owner(v)' /\ KnowsCwq(v)'
<1>1. TimerOf(v)' = TimerOf(v)
  BY DEF TimerOf
<1> QED BY <1>1 DEF Owner, KnowsCwq, Alone

\* A step of a client that touches neither works nor workers.
LEMMA CallStep ==
    ASSUME IInv, NEW t \in Clients, NEW p, NEW w, NEW c, NEW d, NEW g, To(t, p, w, c, d, g),
           CallOk(call'[t], hot.online), UNCHANGED <<work, cwq, done, hot>>,
           owed' \in [Clients -> SUBSET (CPUs \X Works \X {"queued", "run", "byhand"})],
           \A s \in Clients : s # t => owed'[s] = owed[s],
           call[t].pc # "idle" \/ NewCall(t),
           \A v \in Works : t \in CallOf(v)' <=> t \in CallOf(v),
           Cancels(t)', \A o \in owed'[t] : Owes(t, o)',
           Awaits(t) => t \in done
    PROVE  IInv'
<1>1. Shape'
  <2>1. hot.todo = {} /\ hot.at # "destroyed"
    BY InUse DEF IInv
  <2>2. Workers'
    BY DEF IInv, Shape, Workers, WorkerOk
  <2>3. work' \in [Works -> WorkRec] /\ cwq' \in [CPUs -> CwqRec]
    BY Types DEF IInv, Shape
  <2> QED BY <2>1, <2>2, <2>3, ClientShape DEF IInv
<1>2. \A s \in Clients : s # t => call'[s] = call[s]
  BY DEF To
<1>3. Keeps(t) /\ ListOf(t)' = ListOf(t)
  BY SameKeeps
<1>4. \A s \in Clients : s # t => Cancels(s)'
  BY <1>2, <1>3, OthersStay DEF IInv, Shape
<1>5. \A s \in Clients : s # t => \A o \in owed'[s] : Owes(s, o)'
  BY <1>2, <1>3, OthersStay DEF IInv, Shape
<1>6. \A s \in Waits : s # t => Barrier(s)'
  BY <1>2, <1>3, OthersStay DEF IInv, Shape
<1>7. ASSUME NEW v \in Works
      PROVE  Owner(v)' /\ KnowsCwq(v)'
  <2>1. CallOf(v)' = CallOf(v)
    BY <1>2 DEF CallOf
  <2>2. /\ ListOf(v)' = ListOf(v) /\ HandOf(v)' = HandOf(v) /\ Running(v)' = Running(v)
        /\ RunningAt(v, {"clear"})' = RunningAt(v, {"clear"})
    BY DEF ListOf, HandOf, Running, RunningAt
  <2> QED BY <2>1, <2>2, SameOwner DEF IInv, Owned
<1>8. Barrier(t)'
  <2>1. ListOf(t) = {} /\ Running(t) = {}
    BY Kinds, NoBarrier DEF IInv
  <2>2. ListOf(t)' = {} /\ Running(t)' = {}
    BY <2>1 DEF ListOf, Running, RunningAt
  <2> QED BY <2>2 DEF Barrier
<1>9. Owned'
  BY <1>4, <1>7 DEF Owned
<1>10. Flushed'
  BY <1>5, <1>6, <1>8 DEF Flushed
<1> QED BY <1>1, <1>9, <1>10 DEF IInv

------------------------------------------------------------------------------
\* A worker that runs something is in the middle of run_workqueue().
LEMMA RunningTop ==
    ASSUME Shape, NEW x, NEW c \in Running(x)
    PROVE  /\ c \in CPUs /\ cwq[c].frames # <<>> /\ cwq[c].thread = "busy"
           /\ cwq[c].current_work = x /\ x \in Items /\ x # NULL
           /\ Item(c) = x
<1>1. c \in CPUs /\ \E f \in Members(cwq[c].frames) : f.item = x /\ f.at \in {"clear", "run", "requeue"}
  BY DEF Running, RunningAt
<1>2. cwq[c].frames \in Seq(RunFrames) /\ WorkerOk(c)
  BY <1>1, Types DEF Shape, Workers
<1>3. cwq[c].frames # <<>>
  BY <1>1 DEF Members
<1>4. cwq[c].frames[Len(cwq[c].frames)].item = x
      /\ cwq[c].frames[Len(cwq[c].frames)].at \in {"clear", "run", "requeue"}
  <2>1. \A i \in 1..Len(cwq[c].frames) : i < Len(cwq[c].frames) => cwq[c].frames[i].at = "byhand"
    BY <1>2 DEF WorkerOk, FramesOk
  <2> DEFINE fs == cwq[c].frames
             P  == {"clear", "run", "requeue"}
  <2>2. "byhand" \notin P
    OBVIOUS
  <2>3. (\E f \in Members(fs) : f.item = x /\ f.at \in P)
  BY <1>1
  <2>4. fs \in Seq(RunFrames) /\ fs # <<>>
    BY <1>2, <1>3
  <2> HIDE DEF fs, P
  <2>5. \A y : (\E f \in Members(fs) : f.item = y /\ f.at \in P)
                <=> fs[Len(fs)].item = y /\ fs[Len(fs)].at \in P
    BY <2>1, <2>2, <2>4, TopFrame DEF fs
  <2>6. fs[Len(fs)].item = x /\ fs[Len(fs)].at \in P
    BY <2>3, <2>5
  <2> QED BY <2>6 DEF fs, P
<1>5. Len(cwq[c].frames) \in 1..Len(cwq[c].frames)
  BY <1>2, <1>3
<1>6. cwq[c].frames[Len(cwq[c].frames)] \in RunFrames
  BY <1>2, <1>5
<1>7. x \in Items
  BY <1>4, <1>6 DEF RunFrames
<1>8. cwq[c].current_work = x
  BY <1>2, <1>4, <1>5 DEF WorkerOk, FramesOk
<1>9. x # NULL
  BY <1>7, Kinds
<1> QED BY <1>1, <1>2, <1>3, <1>4, <1>7, <1>8, <1>9 DEF WorkerOk, Item

\* There is nothing on a CPU that is not populated, nor on one whose worker is
\* not active.
LEMMA NothingThere ==
    ASSUME Shape, NEW c \in CPUs, c \notin wq_cpu_map \/ ~Active(c)
    PROVE  \A x : c \notin ListOf(x) /\ c \notin Running(x)
<1>1. cwq[c].worklist = <<>>
  BY DEF Active, Shape, Hotplug, ThreadOk, Quiesced, Quiescing
<1>2. \A x : c \notin ListOf(x)
  BY <1>1 DEF ListOf, Members
<1>3. ASSUME NEW x, c \in Running(x)
      PROVE  FALSE
  <2>1. cwq[c].thread = "busy" /\ cwq[c].current_work = x /\ x # NULL
    BY <1>3, RunningTop
  <2>2. cwq[c].current_work = NULL \/ cwq[c].thread = "none"
    BY DEF Active, Shape, Hotplug, ThreadOk
  <2> QED BY <2>1, <2>2
<1> QED BY <1>2, <1>3

\* What an instance is.
LEMMA InstanceIs ==
    ASSUME NEW ws \in SUBSET Works
    PROVE  /\ Instances(ws) \in SUBSET (CPUs \X Works \X {"queued", "run", "byhand"})
           /\ \A o \in Instances(ws) :
                  /\ o[2] \in ws
                  /\ o[3] # "byhand" => o[1] \in IF o[3] = "queued" THEN ListOf(o[2]) ELSE Running(o[2])
<1>1. \A o \in Instances(ws) : o \in CPUs \X ws \X {"queued", "run", "byhand"}
  BY DEF Instances
<1>2. ASSUME NEW o \in Instances(ws)
      PROVE  /\ o[2] \in ws
             /\ o[3] # "byhand" => o[1] \in IF o[3] = "queued" THEN ListOf(o[2]) ELSE Running(o[2])
  <2>1. /\ o[1] \in CPUs /\ o[2] \in ws /\ o[3] \in {"queued", "run", "byhand"}
        /\ CASE o[3] = "queued" -> o[2] \in Members(cwq[o[1]].worklist)
             [] o[3] = "run"    -> o[1] \in Running(o[2])
             [] o[3] = "byhand" -> o[1] \in RunningAt(o[2], ByHand)
    BY <1>1, <1>2 DEF Instances
  <2>2. CASE o[3] = "queued"
    <3>1. o[2] \in Members(cwq[o[1]].worklist)
      BY <2>1, <2>2
    <3> QED BY <2>1, <2>2, <3>1 DEF ListOf
  <2>3. CASE o[3] = "run"
    <3>1. o[1] \in Running(o[2])
      BY <2>1, <2>3
    <3> QED BY <2>1, <2>3, <3>1
  <2>4. CASE o[3] = "byhand"
    BY <2>1, <2>4
  <2> QED BY <2>1, <2>2, <2>3, <2>4
<1> QED BY <1>1, <1>2

\* flush_workqueue() starts: all that is queued or runs is owed to it.
LEMMA FlushWorkqueue ==
    ASSUME IInv, NEW t \in Clients, flush_workqueue(t)
    PROVE  IInv'
<1> USE DEF IInv
<1>0. "flush" \in Places /\ 1 \in 0 .. NCPU + 1 /\ 1 \in 1 .. NCPU + 1
  BY WorkQueueAssumption DEF Places
<1>1. To(t, "flush", NULL, 1, FALSE, FALSE)
  BY <1>0, NewCalls DEF flush_workqueue, Shape
<1>2. CallOk(call'[t], hot.online)
  BY <1>0, <1>1 DEF CallOk, To
<1>3. /\ call[t].pc = "idle" /\ NewCall(t)
      /\ owed' = [owed EXCEPT ![t] = Instances(Works)]
      /\ UNCHANGED <<work, cwq, done, hot>>
  BY DEF flush_workqueue, NewCall
<1>4. /\ owed' \in [Clients -> SUBSET (CPUs \X Works \X {"queued", "run", "byhand"})]
      /\ \A s \in Clients : s # t => owed'[s] = owed[s]
      /\ owed'[t] = Instances(Works)
  BY <1>3, InstanceIs DEF Shape, TypeOK
<1>5. \A v \in Works : t \in CallOf(v)' <=> t \in CallOf(v)
  BY <1>1, <1>3 DEF CallOf, To, Shape, CallsOk, CallOk
<1>6. Cancels(t)'
  BY <1>1 DEF Cancels, To
<1>7. ASSUME NEW o \in owed'[t]
      PROVE  Owes(t, o)'
  <2>1. o \in CPUs \X Works \X {"queued", "run", "byhand"}
        /\ (o[3] # "byhand" => o[1] \in IF o[3] = "queued" THEN ListOf(o[2]) ELSE Running(o[2]))
    BY <1>4, <1>7, InstanceIs
  <2>2. ListOf(o[2])' = ListOf(o[2]) /\ Running(o[2])' = Running(o[2])
    BY <1>3 DEF ListOf, Running, RunningAt
  <2>3. o[1] >= 1
    BY <2>1 DEF CPUs
  <2> QED BY <1>1, <2>1, <2>2, <2>3 DEF Owes, To
<1>8. ~Awaits(t)
  BY <1>3, Kinds DEF Awaits
<1> QED BY <1>1, <1>2, <1>3, <1>4, <1>5, <1>6, <1>7, <1>8, CallStep

\* A flush goes on to the next CPU when there is nothing to wait for on this one.
LEMMA FlushMoves ==
    ASSUME IInv, NEW t \in Clients, call[t].pc \in {"flush", "flush_wait"},
           Awaits(t) => t \in done, call[t].cpu \in CPUs,
           To(t, "flush", call[t].w, call[t].cpu + 1, call[t].timed, call[t].got),
           UNCHANGED <<work, cwq, done, hot, owed>>,
           \A o \in owed[t] : o[3] # "byhand" => o[1] # call[t].cpu
    PROVE  IInv'
<1> USE DEF IInv
<1>0. call[t].cpu + 1 \in 1 .. NCPU + 1
  BY WorkQueueAssumption DEF CPUs
<1>1. ~call[t].got /\ ~call'[t].got
  BY DEF To, Shape, CallsOk, CallOk
<1>2. CallOk(call'[t], hot.online)
  BY <1>0, <1>1 DEF CallOk, To
<1>3. \A v \in Works : t \in CallOf(v)' <=> t \in CallOf(v)
  BY <1>1 DEF CallOf, To
<1>4. Cancels(t)'
  BY <1>1 DEF Cancels
<1>5. ASSUME NEW o \in owed'[t]
      PROVE  Owes(t, o)'
  <2>1. Owes(t, o) /\ (o[3] # "byhand" => o[1] # call[t].cpu) /\ o[1] \in CPUs
    BY <1>5 DEF Flushed, Shape, TypeOK
  <2>2. o[3] # "byhand" => o[1] >= call[t].cpu + 1
    BY <2>1 DEF Owes, CPUs
  <2>3. o[3] # "byhand" => o[1] \in IF o[3] = "queued" THEN ListOf(o[2]) ELSE Running(o[2])
    BY <2>1 DEF Owes
  <2>4. ListOf(o[2])' = ListOf(o[2]) /\ Running(o[2])' = Running(o[2])
    BY DEF ListOf, Running, RunningAt
  <2> QED BY <2>2, <2>3, <2>4 DEF Owes, To
<1>6. /\ owed' \in [Clients -> SUBSET (CPUs \X Works \X {"queued", "run", "byhand"})]
      /\ \A s \in Clients : s # t => owed'[s] = owed[s]
  BY DEF Shape, TypeOK
<1> QED BY <1>2, <1>3, <1>4, <1>5, <1>6, CallStep

\* wait_for_completion() in flush_cpu_workqueue() returns.
LEMMA FlushWaited ==
    ASSUME IInv, NEW t \in Clients, flush_waited(t)
    PROVE  IInv'
<1>0. call[t].pc = "flush_wait" /\ t \in done /\ call[t].cpu \in CPUs /\ "flush" \in Places
  BY DEF flush_waited, IInv, Shape, CallsOk, CallOk, Places
<1>1. call[t].cpu + 1 \in 0 .. NCPU + 1
  BY <1>0, WorkQueueAssumption DEF CPUs
<1>2. call' = [call EXCEPT ![t].pc = "flush", ![t].cpu = call[t].cpu + 1]
  BY DEF flush_waited
<1>3. To(t, "flush", call[t].w, call[t].cpu + 1, call[t].timed, call[t].got)
  BY <1>0, <1>1, <1>2, CallGoesOn DEF IInv, Shape
<1>4. ListOf(t) = {}
  BY <1>0, Kinds, NoBarrier DEF IInv
<1>5. \A o \in owed[t] : o[3] # "byhand" => o[1] # call[t].cpu
  BY <1>0, <1>4 DEF IInv, Flushed, Owes
<1> QED BY <1>0, <1>3, <1>5, FlushMoves DEF flush_waited

\* flush_cpu_workqueue() finds nothing on this CPU.
LEMMA FlushSkip ==
    ASSUME IInv, NEW t \in Clients, flush_skip(t)
    PROVE  IInv'
<1> USE DEF IInv
<1>0. /\ call[t].pc = "flush" /\ call[t].cpu \in 1 .. NCPU + 1 /\ call[t].cpu \notin wq_cpu_map
      /\ UNCHANGED <<work, cwq, done, hot>> /\ t # Admin
  BY Kinds DEF flush_skip, Shape, CallsOk, CallOk
<1>1. CASE call[t].cpu <= NCPU
  <2>1. call[t].cpu \in CPUs /\ call[t].cpu + 1 \in 0 .. NCPU + 1
    BY <1>0, <1>1, WorkQueueAssumption DEF CPUs
  <2>2. call' = [call EXCEPT ![t].cpu = call[t].cpu + 1] /\ UNCHANGED owed
    BY <1>1 DEF flush_skip
  <2>3. "flush" \in Places
    BY DEF Places
  <2>4. To(t, "flush", call[t].w, call[t].cpu + 1, call[t].timed, call[t].got)
    BY <1>0, <2>1, <2>2, <2>3, CallGoesOn DEF Shape
  <2>5. \A x : call[t].cpu \notin ListOf(x) /\ call[t].cpu \notin Running(x)
    BY <1>0, <2>1, NothingThere
  <2>6. \A o \in owed[t] : o[3] # "byhand" => o[1] # call[t].cpu
    BY <2>5 DEF Flushed, Owes
  <2>7. ~Awaits(t)
    BY <1>0 DEF Awaits
  <2> QED BY <1>0, <2>1, <2>2, <2>4, <2>6, <2>7, FlushMoves
<1>2. CASE ~ call[t].cpu <= NCPU
  <2>1. Become(t, Idle) /\ owed' = [owed EXCEPT ![t] = {}]
    BY <1>2 DEF flush_skip
  <2>2. "idle" \in Places /\ 0 \in 0 .. NCPU + 1 /\ FALSE \in BOOLEAN
    BY WorkQueueAssumption DEF Places
  <2>3. To(t, "idle", NULL, 0, FALSE, FALSE)
    BY <2>1, <2>2, NewCalls DEF Shape
  <2>4. CallOk(call'[t], hot.online) /\ Cancels(t)'
    BY <2>3 DEF CallOk, To, Cancels
  <2>5. \A v \in Works : t \in CallOf(v)' <=> t \in CallOf(v)
    BY <1>0, <2>3 DEF CallOf, To, Shape, CallsOk, CallOk
  <2>6. /\ owed' \in [Clients -> SUBSET (CPUs \X Works \X {"queued", "run", "byhand"})]
        /\ \A s \in Clients : s # t => owed'[s] = owed[s]
        /\ owed'[t] = {}
    BY <2>1 DEF Shape, TypeOK
  <2>7. ~Awaits(t)
    BY <1>0 DEF Awaits
  <2> QED BY <1>0, <2>3, <2>4, <2>5, <2>6, <2>7, CallStep
<1> QED BY <1>1, <1>2

\* flush_work() starts.
LEMMA FlushWork ==
    ASSUME IInv, NEW t \in Clients, NEW w \in Works, flush_work(t, w)
    PROVE  IInv'
<1> USE DEF IInv
<1> DEFINE c == work[w].cwq
<1>0. /\ "fw_lock" \in Places /\ c \in CPUs /\ c \in 0 .. NCPU + 1
      /\ w \in Works \cup {NULL}
  BY WorkQueueAssumption, Types DEF Places, flush_work, Shape, WorkRec, CPUs
<1> HIDE DEF c
<1>1. To(t, "fw_lock", w, c, FALSE, FALSE)
  BY <1>0, NewCalls DEF flush_work, Shape, c
<1>2. CallOk(call'[t], hot.online)
  BY <1>0, <1>1 DEF CallOk, To
<1>3. /\ call[t].pc = "idle" /\ NewCall(t)
      /\ owed' = [owed EXCEPT ![t] = Instances({w})]
      /\ UNCHANGED <<work, cwq, done, hot>>
  BY DEF flush_work, NewCall
<1>4. /\ owed' \in [Clients -> SUBSET (CPUs \X Works \X {"queued", "run", "byhand"})]
      /\ \A s \in Clients : s # t => owed'[s] = owed[s]
      /\ owed'[t] = Instances({w})
  BY <1>3, InstanceIs DEF Shape, TypeOK
<1>5. \A v \in Works : t \in CallOf(v)' <=> t \in CallOf(v)
  BY <1>1, <1>3 DEF CallOf, To, Shape, CallsOk, CallOk
<1>6. Cancels(t)'
  BY <1>1 DEF Cancels, To
<1>7. ASSUME NEW o \in owed'[t]
      PROVE  Owes(t, o)'
  <2>1. o[2] = w
        /\ (o[3] # "byhand" => o[1] \in IF o[3] = "queued" THEN ListOf(o[2]) ELSE Running(o[2]))
    BY <1>4, <1>7, InstanceIs
  <2>2. ListOf(o[2])' = ListOf(o[2]) /\ Running(o[2])' = Running(o[2])
    BY <1>3 DEF ListOf, Running, RunningAt
  <2> QED BY <1>1, <2>1, <2>2 DEF Owes, To
<1>8. ~Awaits(t)
  BY <1>3, Kinds DEF Awaits
<1> QED BY <1>1, <1>2, <1>3, <1>4, <1>5, <1>6, <1>7, <1>8, CallStep

\* wait_for_completion() in flush_work() returns.
LEMMA FlushWorkWaited ==
    ASSUME IInv, NEW t \in Clients, flush_work_waited(t)
    PROVE  IInv'
<1> USE DEF IInv
<1>0. /\ "fw_ret" \in Places /\ call[t].pc = "fw_wait" /\ t \in done
      /\ UNCHANGED <<work, cwq, done, hot, owed>>
      /\ call[t].cpu \in 0 .. NCPU + 1
  BY Types DEF Places, flush_work_waited, Shape, Calls
<1>1. To(t, "fw_ret", call[t].w, call[t].cpu, call[t].timed, call[t].got)
  BY <1>0, CallGoesOn DEF flush_work_waited, Shape
<1>2. CallOk(call'[t], hot.online) /\ ~call[t].got /\ ~call'[t].got
  BY <1>0, <1>1 DEF CallOk, To, Shape, CallsOk
<1>3. \A v \in Works : t \in CallOf(v)' <=> t \in CallOf(v)
  BY <1>0, <1>1, <1>2 DEF CallOf, To
<1>4. Cancels(t)'
  BY <1>2 DEF Cancels
<1>5. ListOf(t) = {}
  BY <1>0, Kinds, NoBarrier
<1>6. ASSUME NEW o \in owed'[t]
      PROVE  Owes(t, o)'
  <2>1. Owes(t, o)
    BY <1>0, <1>6 DEF Flushed
  <2>2. (o[3] # "byhand" => o[1] # call[t].cpu) /\ o[2] = call[t].w
    BY <1>0, <1>5, <2>1 DEF Owes
  <2>3. ListOf(o[2])' = ListOf(o[2]) /\ Running(o[2])' = Running(o[2])
    BY <1>0 DEF ListOf, Running, RunningAt
  <2>4. o[3] # "byhand" => o[1] \in IF o[3] = "queued" THEN ListOf(o[2]) ELSE Running(o[2])
    BY <2>1 DEF Owes
  <2> QED BY <1>1, <2>2, <2>3, <2>4 DEF Owes, To
<1>7. /\ owed' \in [Clients -> SUBSET (CPUs \X Works \X {"queued", "run", "byhand"})]
      /\ \A s \in Clients : s # t => owed'[s] = owed[s]
  BY <1>0 DEF Shape, TypeOK
<1> QED BY <1>0, <1>1, <1>2, <1>3, <1>4, <1>6, <1>7, CallStep

\* flush_work() returns, having waited or with nothing to wait for.
LEMMA FlushWorkReturn ==
    ASSUME IInv, NEW t \in Clients, flush_work_return(t)
    PROVE  IInv'
<1> USE DEF IInv
<1>0. /\ call[t].pc = "fw_ret" /\ t # Admin
      /\ Become(t, Idle) /\ owed' = [owed EXCEPT ![t] = {}]
      /\ UNCHANGED <<work, cwq, done, hot>>
  BY Kinds DEF flush_work_return
<1>1. "idle" \in Places /\ 0 \in 0 .. NCPU + 1 /\ FALSE \in BOOLEAN
  BY WorkQueueAssumption DEF Places
<1>2. To(t, "idle", NULL, 0, FALSE, FALSE)
  BY <1>0, <1>1, NewCalls DEF Shape
<1>3. CallOk(call'[t], hot.online) /\ Cancels(t)'
  BY <1>2 DEF CallOk, To, Cancels
<1>4. \A v \in Works : t \in CallOf(v)' <=> t \in CallOf(v)
  BY <1>0, <1>2 DEF CallOf, To, Shape, CallsOk, CallOk
<1>5. /\ owed' \in [Clients -> SUBSET (CPUs \X Works \X {"queued", "run", "byhand"})]
      /\ \A s \in Clients : s # t => owed'[s] = owed[s]
      /\ owed'[t] = {}
  BY <1>0 DEF Shape, TypeOK
<1>6. ~Awaits(t)
  BY <1>0 DEF Awaits
<1> QED BY <1>0, <1>2, <1>3, <1>4, <1>5, <1>6, CallStep

------------------------------------------------------------------------------
\* __cancel_work_timer() starts.
LEMMA CancelWorkSync ==
    ASSUME IInv, NEW t \in Clients, NEW w \in Works, NEW timed \in BOOLEAN,
           cancel_work_sync(t, w, timed)
    PROVE  IInv'
<1> USE DEF IInv
<1> DEFINE p == IF timed THEN "c_timer" ELSE "c_grab"
<1>0. p \in Places /\ 0 \in 0 .. NCPU + 1 /\ w \in Works \cup {NULL} /\ p \in {"c_timer", "c_grab"}
  BY WorkQueueAssumption DEF Places
<1>1. /\ call[t].pc = "idle" /\ NewCall(t) /\ t # Admin
      /\ Become(t, [Idle EXCEPT !.pc = p, !.w = w, !.timed = timed])
      /\ UNCHANGED <<work, cwq, done, hot, owed>>
  BY Kinds DEF cancel_work_sync, NewCall
<1> HIDE DEF p
<1>2. To(t, p, w, 0, timed, FALSE)
  BY <1>0, <1>1, NewCalls DEF Shape
<1>3. CallOk(call'[t], hot.online) /\ Cancels(t)'
  BY <1>0, <1>2 DEF CallOk, To, Cancels
<1>4. \A v \in Works : t \in CallOf(v)' <=> t \in CallOf(v)
  BY <1>0, <1>1, <1>2 DEF CallOf, To, Shape, CallsOk, CallOk
<1>5. owed[t] = {}
  BY <1>1, NoDebts
<1>6. /\ owed' \in [Clients -> SUBSET (CPUs \X Works \X {"queued", "run", "byhand"})]
      /\ \A s \in Clients : s # t => owed'[s] = owed[s]
      /\ owed'[t] = {}
  BY <1>1, <1>5 DEF Shape, TypeOK
<1>7. ~Awaits(t)
  BY <1>1 DEF Awaits
<1> QED BY <1>1, <1>2, <1>3, <1>4, <1>6, <1>7, CallStep

\* A cancel goes from one place to another, the same work in hand.
LEMMA CancelMoves ==
    ASSUME IInv, NEW t \in Clients,
           call[t].pc \in {"c_timer", "c_grab", "c_read", "c_lock", "c_wait", "c_cpu", "c_cpu_wait"},
           Awaits(t) => t \in done,
           NEW p \in {"c_timer", "c_grab", "c_read", "c_lock", "c_wait", "c_cpu", "c_clear"},
           NEW e \in 0 .. NCPU + 1, To(t, p, call[t].w, e, call[t].timed, call[t].got),
           p \in {"c_lock", "c_cpu"} => e \in CPUs,
           p = "c_clear" => e = NCPU + 1 /\ call[t].got,
           p \in {"c_timer", "c_grab", "c_read", "c_lock"} => ~call[t].got,
           p \in {"c_cpu", "c_clear"} /\ call[t].got => \A c \in Running(call[t].w) : c >= e,
           UNCHANGED <<work, cwq, done, hot, owed>>
    PROVE  IInv'
<1> USE DEF IInv
<1>1. CallOk(call'[t], hot.online)
  BY DEF CallOk, To, Shape, CallsOk
<1>2. \A v \in Works : t \in CallOf(v)' <=> t \in CallOf(v)
  BY DEF CallOf, To
<1>3. Cancels(t)'
  <2>1. Running(call[t].w)' = Running(call'[t].w)
    BY DEF Running, RunningAt, To
  <2>2. \A w : Running(w)' = Running(w)
    BY DEF Running, RunningAt
  <2> QED BY <2>2 DEF Cancels, To
<1>4. owed[t] = {}
  BY NoDebts
<1>5. /\ owed' \in [Clients -> SUBSET (CPUs \X Works \X {"queued", "run", "byhand"})]
      /\ \A s \in Clients : s # t => owed'[s] = owed[s]
      /\ owed'[t] = {}
  BY <1>4 DEF Shape, TypeOK
<1> QED BY <1>1, <1>2, <1>3, <1>5, CallStep

\* Where wait_on_work() goes next, once the callback is over on all CPUs
\* before e.
LEMMA WaitOnNext ==
    ASSUME IInv, NEW t \in Clients, call[t].pc \in {"c_wait", "c_cpu", "c_cpu_wait"},
           Awaits(t) => t \in done,
           NEW e \in 1 .. NCPU + 1,
           To(t, wait_on_next(t, e), call[t].w, e, call[t].timed, call[t].got),
           call[t].got => \A c \in Running(call[t].w) : c >= e,
           UNCHANGED <<work, cwq, done, hot, owed>>
    PROVE  IInv'
<1> DEFINE p == wait_on_next(t, e)
<1>1. e \in 0 .. NCPU + 1 /\ NCPU \in Nat /\ e \in Nat
  BY WorkQueueAssumption
<1>2. e <= NCPU => e \in CPUs
  BY <1>1 DEF CPUs
<1>3. ~ e <= NCPU => e = NCPU + 1
  BY <1>1
<1>4. /\ p \in {"c_timer", "c_grab", "c_cpu", "c_clear"}
      /\ p = "c_cpu" => e <= NCPU
      /\ p # "c_cpu" => ~ e <= NCPU
      /\ p = "c_clear" => call[t].got
      /\ p \in {"c_timer", "c_grab"} => ~call[t].got
  BY DEF wait_on_next
<1> HIDE DEF p
<1>5. To(t, p, call[t].w, e, call[t].timed, call[t].got)
  BY DEF p
<1> QED BY <1>1, <1>2, <1>3, <1>4, <1>5, CancelMoves

\* try_to_grab_pending() reads the cwq of the work without the lock.
LEMMA GrabRead ==
    ASSUME IInv, NEW t \in Clients, grab_read(t)
    PROVE  IInv'
<1> DEFINE c == work[call[t].w].cwq
           p == IF c = 0 THEN "c_wait" ELSE "c_lock"
<1>1. /\ call[t].pc = "c_read" /\ t # Admin /\ call[t].w \in Works /\ ~call[t].got
      /\ UNCHANGED <<work, cwq, done, hot, owed>>
  BY Kinds DEF grab_read, IInv, Shape, CallsOk, CallOk
<1>2. /\ c \in 0 .. NCPU + 1 /\ p \in Places /\ p \in {"c_wait", "c_lock"}
      /\ p = "c_lock" => c \in CPUs
  BY <1>1, WorkQueueAssumption, Types DEF IInv, Shape, WorkRec, Places, CPUs
<1>3. call' = [call EXCEPT ![t].cpu = c, ![t].pc = p]
  BY DEF grab_read
<1> HIDE DEF c, p
<1>4. To(t, p, call[t].w, c, call[t].timed, call[t].got)
  BY <1>2, <1>3, CallGoesOn DEF IInv, Shape
<1>5. ~Awaits(t)
  BY <1>1 DEF Awaits
<1> QED BY <1>1, <1>2, <1>4, <1>5, CancelMoves

\* wait_on_work() goes on in a place that a call can be in.
LEMMA NextPlace ==
    ASSUME NEW t, NEW e
    PROVE  wait_on_next(t, e) \in Places
BY DEF wait_on_next, Places

\* wait_on_work() looks for the first CPU.
LEMMA WaitOnWork ==
    ASSUME IInv, NEW t \in Clients, wait_on_work(t)
    PROVE  IInv'
<1> DEFINE c == IF work[call[t].w].cwq = 0 THEN NCPU + 1 ELSE 1
<1>1. /\ call[t].pc = "c_wait" /\ t # Admin /\ call[t].w \in Works
      /\ UNCHANGED <<work, cwq, done, hot, owed>>
  BY Kinds DEF wait_on_work, IInv, Shape, CallsOk, CallOk
<1>2. c \in 0 .. NCPU + 1 /\ c \in 1 .. NCPU + 1
  BY WorkQueueAssumption
<1>3. call' = [call EXCEPT ![t].pc = wait_on_next(t, c), ![t].cpu = c]
  BY DEF wait_on_work
<1>4. \A d \in Running(call[t].w) : d >= c
  <2>1. work[call[t].w].cwq = 0 => Running(call[t].w) = {}
    BY <1>1 DEF IInv, Owned, KnowsCwq
  <2>2. Running(call[t].w) \subseteq CPUs
    BY DEF Running, RunningAt
  <2> QED BY <2>1, <2>2, WorkQueueAssumption DEF CPUs
<1> HIDE DEF c
<1>5. To(t, wait_on_next(t, c), call[t].w, c, call[t].timed, call[t].got)
  BY <1>2, <1>3, NextPlace, CallGoesOn DEF IInv, Shape
<1>6. ~Awaits(t)
  BY <1>1 DEF Awaits
<1> QED BY <1>1, <1>2, <1>4, <1>5, <1>6, WaitOnNext

\* wait_for_completion() in wait_on_cpu_work() returns.
LEMMA WaitOnCpuWaited ==
    ASSUME IInv, NEW t \in Clients, wait_on_cpu_waited(t)
    PROVE  IInv'
<1> DEFINE c == call[t].cpu + 1
<1>1. /\ call[t].pc = "c_cpu_wait" /\ t \in done /\ call[t].cpu \in CPUs
      /\ UNCHANGED <<work, cwq, done, hot, owed>>
  BY DEF wait_on_cpu_waited, IInv, Shape, CallsOk, CallOk
<1>2. c \in 0 .. NCPU + 1 /\ c \in 1 .. NCPU + 1
  BY <1>1, WorkQueueAssumption DEF CPUs
<1>3. call' = [call EXCEPT ![t].pc = wait_on_next(t, c), ![t].cpu = c]
  BY DEF wait_on_cpu_waited
<1>4. call[t].got => \A d \in Running(call[t].w) : d >= c
  <2>1. ListOf(t) = {}
    BY <1>1, Kinds, NoBarrier DEF IInv
  <2>2. Running(call[t].w) \subseteq CPUs
    BY DEF Running, RunningAt
  <2>3. call[t].got => \A d \in Running(call[t].w) : d >= call[t].cpu /\ d # call[t].cpu
    BY <1>1, <2>1 DEF IInv, Owned, Cancels
  <2> QED BY <1>1, <2>2, <2>3, WorkQueueAssumption DEF CPUs
<1> HIDE DEF c
<1>5. To(t, wait_on_next(t, c), call[t].w, c, call[t].timed, call[t].got)
  BY <1>2, <1>3, NextPlace, CallGoesOn DEF IInv, Shape
<1> QED BY <1>1, <1>2, <1>4, <1>5, WaitOnNext

------------------------------------------------------------------------------
\* A worker that is being stopped and has something to do is busy with it.
LEMMA ActiveIsBusy ==
    ASSUME Shape, NEW c \in CPUs, Active(c)
    PROVE  Quiescing(c) => cwq[c].thread = "busy"
<1>1. WorkerOk(c) /\ Quiesced(c)
  BY DEF Shape, Workers, Hotplug
<1> QED BY <1>1 DEF WorkerOk, FramesOk, Quiesced, Active

\* A client queues its barrier, and waits.
LEMMA BarrierStep ==
    ASSUME IInv, NEW t \in Clients, NEW c \in CPUs, call[t].cpu = c, NEW q,
           insert_wq_barrier(c, t, q), Placed(c, t, q), Active(c),
           NEW p, Step(t, p), UNCHANGED <<hot, owed>>,
           \/ call[t].pc = "flush" /\ p = "flush_wait"
           \/ call[t].pc = "fw_lock" /\ p = "fw_wait"
           \/ call[t].pc = "c_cpu" /\ p = "c_cpu_wait",
           \A o \in owed[t] : o[1] = c /\ o[3] = "queued" => Before(q, o[2], t)
    PROVE  IInv'
<1> USE DEF IInv
<1>0. /\ p \in Places /\ c \in 0 .. NCPU + 1 /\ t # Admin /\ t \in Waits /\ t \in Items
      /\ t \notin Works
  BY Kinds, WorkQueueAssumption DEF Places, CPUs
<1>1. To(t, p, call[t].w, c, call[t].timed, call[t].got)
  BY <1>0, CallGoesOn DEF Shape
<1>2. q \in Seq(Items) /\ TypeOK
  BY DEF Placed, Shape
<1>3. List(c, q) /\ UNCHANGED work /\ done' = done \ {t}
  BY <1>2, ListFields DEF insert_wq_barrier
<1>4. ListOf(t) = {} /\ Running(t) = {}
  BY <1>0, NoBarrier DEF Awaits
<1>5. t \notin Members(cwq[c].worklist)
  BY <1>4 DEF ListOf
<1>6. Adds(c, t) /\ Workers'
  BY <1>0, <1>3, <1>5, ListGrows
<1>7. Keeps(t)
  BY <1>6, AddsKeeps
<1>8. Shape'
  <2>1. hot.todo = {} /\ hot.at # "destroyed"
    BY InUse
  <2>2. CallOk(call'[t], hot.online)
    BY <1>1 DEF CallOk, To, Shape, CallsOk
  <2>3. /\ work' \in [Works -> WorkRec] /\ cwq' \in [CPUs -> CwqRec] /\ done' \subseteq done
        /\ owed' \in [Clients -> SUBSET (CPUs \X Works \X {"queued", "run", "byhand"})]
    BY <1>2, <1>3 DEF List, TypeOK
  <2>4. ASSUME NEW k \in CPUs
        PROVE  /\ cwq'[k].thread = cwq[k].thread /\ cwq'[k].stop = cwq[k].stop
               /\ \/ cwq'[k].worklist = cwq[k].worklist
                  \/ Quiescing(k) => cwq[k].thread = "busy"
    BY <1>3, ActiveIsBusy DEF List
  <2> QED BY <1>1, <1>6, <2>1, <2>2, <2>3, <2>4, ClientShape
<1>9. /\ \A s \in Clients : s # t => call'[s] = call[s] /\ owed'[s] = owed[s]
      /\ done' \subseteq done
  BY <1>1, <1>3 DEF To
<1>10. \A s \in Clients : s # t => Cancels(s)'
  BY <1>2, <1>7, <1>9, OthersStay
<1>11. \A s \in Clients : s # t => \A o \in owed'[s] : Owes(s, o)'
  BY <1>2, <1>7, <1>9, OthersStay
<1>12. \A s \in Waits : s # t => Barrier(s)'
  BY <1>2, <1>7, <1>9, OthersStay
<1>13. ASSUME NEW v \in Works
       PROVE  Owner(v)' /\ KnowsCwq(v)'
  <2>1. CallOf(v)' = CallOf(v)
    BY <1>1 DEF CallOf, To, Shape, CallsOk, CallOk
  <2>2. /\ ListOf(v)' = ListOf(v) /\ HandOf(v)' = HandOf(v) /\ Running(v)' = Running(v)
        /\ RunningAt(v, {"clear"})' = RunningAt(v, {"clear"})
    BY <1>0, <1>7 DEF Keeps
  <2>3. Owner(v) /\ KnowsCwq(v)
    BY DEF Owned
  <2> QED BY <1>3, <2>1, <2>2, <2>3, SameOwner
<1>14. ListOf(t)' = {c} /\ Running(t)' = {}
  BY <1>4, <1>6 DEF Adds
<1>15. Barrier(t)'
  BY <1>0, <1>1, <1>3, <1>14 DEF Barrier, Awaits, Home, To
<1>16. Cancels(t)'
  <2>1. Cancels(t)
    BY DEF Owned
  <2>2. \A w : Running(w)' = Running(w)
    BY <1>7 DEF Keeps
  <2> QED BY <1>1, <1>14, <2>1, <2>2 DEF Cancels, To
<1>17. ASSUME NEW o \in owed'[t]
       PROVE  Owes(t, o)'
  <2>1. Owes(t, o) /\ o[1] \in CPUs /\ o[2] \in Works
    BY <1>2, <1>17 DEF Flushed, TypeOK
  <2>2. ListOf(o[2])' = ListOf(o[2]) /\ Running(o[2])' = Running(o[2])
    BY <1>0, <1>7, <2>1 DEF Keeps
  <2>3. o[1] = c /\ o[3] = "queued" => Before(cwq'[c].worklist, o[2], t)
    BY <1>3, <1>17 DEF List
  <2> QED BY <1>1, <1>14, <2>1, <2>2, <2>3 DEF Owes, To
<1>18. Owned'
  BY <1>10, <1>13, <1>16 DEF Owned
<1>19. Flushed'
  BY <1>11, <1>12, <1>15, <1>17 DEF Flushed
<1> QED BY <1>8, <1>18, <1>19

\* flush_cpu_workqueue() queues its barrier at the tail.
LEMMA FlushCpuWorkqueue ==
    ASSUME IInv, NEW t \in Clients, flush_cpu_workqueue(t)
    PROVE  IInv'
<1> DEFINE c == call[t].cpu
<1>1. call[t].pc = "flush" /\ c \in wq_cpu_map /\ UNCHANGED <<hot, owed>> /\ t # Admin
      /\ t \in Items
  BY Kinds DEF flush_cpu_workqueue
<1>2. c \in CPUs
  BY <1>1, Types, WorkQueueAssumption DEF wq_cpu_map, IInv, Shape, CPUs
<1>3. CASE Active(c)
  <2>1. insert_wq_barrier(c, t, list_add_tail(cwq[c].worklist, t)) /\ Step(t, "flush_wait")
    BY <1>3 DEF flush_cpu_workqueue
  <2>2. /\ Placed(c, t, list_add_tail(cwq[c].worklist, t))
        /\ \A y \in Members(cwq[c].worklist) : Before(list_add_tail(cwq[c].worklist, t), y, t)
    BY <1>1, <1>2, PlacedAt DEF IInv, Shape
  <2>3. \A o \in owed[t] : o[1] = c /\ o[3] = "queued" => o[2] \in Members(cwq[c].worklist)
    BY DEF IInv, Flushed, Owes, ListOf
  <2> QED BY <1>1, <1>2, <1>3, <2>1, <2>2, <2>3, BarrierStep
<1>4. CASE ~Active(c)
  <2>1. call' = [call EXCEPT ![t].cpu = c + 1] /\ UNCHANGED <<work, cwq, done>>
    BY <1>4 DEF flush_cpu_workqueue
  <2>2. c + 1 \in 0 .. NCPU + 1 /\ "flush" \in Places
    BY <1>2, WorkQueueAssumption DEF CPUs, Places
  <2>3. To(t, "flush", call[t].w, c + 1, call[t].timed, call[t].got)
    BY <1>1, <2>1, <2>2, CallGoesOn DEF IInv, Shape
  <2>4. \A o \in owed[t] : o[3] # "byhand" => o[1] # c
    BY <1>2, <1>4, NothingThere DEF IInv, Flushed, Owes
  <2>5. ~Awaits(t)
    BY <1>1 DEF Awaits
  <2> QED BY <1>1, <1>2, <2>1, <2>3, <2>4, <2>5, FlushMoves
<1> QED BY <1>3, <1>4

\* flush_work() has the lock: barrier behind the work, or at the head if it runs.
LEMMA FlushWorkLock ==
    ASSUME IInv, NEW t \in Clients, flush_work_lock(t)
    PROVE  IInv'
<1> USE DEF IInv
<1> DEFINE c == call[t].cpu
           w == call[t].w
           here == IF list_empty(w) THEN cwq[c].current_work = w ELSE work[w].cwq = c
           q == IF list_empty(w) THEN <<t>> \o cwq[c].worklist ELSE Behind(c, t, w)
<1>1. call[t].pc = "fw_lock" /\ UNCHANGED <<hot, owed>> /\ t # Admin /\ t \in Items
      /\ c \in CPUs /\ w \in Works /\ w # NULL /\ ~call[t].got
  BY Kinds DEF flush_work_lock, Shape, CallsOk, CallOk
<1>2. list_empty(w) <=> ListOf(w) = {}
  BY DEF list_empty, ListOf
<1>3. \A o \in owed[t] : Owes(t, o) /\ o[2] = w /\ o[1] \in CPUs
  BY <1>1 DEF Flushed, Owes, Shape, TypeOK
<1>4. CASE here
  <2>1. insert_wq_barrier(c, t, q) /\ Step(t, "fw_wait")
    BY <1>4 DEF flush_work_lock
  <2>2. ~list_empty(w) => w \in Members(cwq[c].worklist)
    BY <1>1, <1>2, <1>4 DEF Owned, KnowsCwq, ListOf
  <2>3. Placed(c, t, q) /\ (~list_empty(w) => Before(q, w, t))
    BY <1>1, <2>2, PlacedAt DEF Shape
  <2>4. Active(c)
    BY <1>1, <1>4, <2>2 DEF Active, Members
  <2>5. \A o \in owed[t] : o[1] = c /\ o[3] = "queued" => Before(q, o[2], t)
    BY <1>2, <1>3, <2>3 DEF Owes
  <2> HIDE DEF q
  <2> QED BY <1>1, <2>1, <2>3, <2>4, <2>5, BarrierStep
<1>5. CASE ~here
  <2> DEFINE e == IF list_empty(w) THEN c ELSE 0
  <2>1. /\ call' = [call EXCEPT ![t].pc = "fw_ret", ![t].cpu = e]
        /\ UNCHANGED <<work, cwq, done>>
    BY <1>5 DEF flush_work_lock
  <2>2. e \in 0 .. NCPU + 1 /\ "fw_ret" \in Places
    BY <1>1, WorkQueueAssumption DEF CPUs, Places
  <2>3. \A o \in owed[t] : o[3] # "byhand" => o[1] # e
    <3>1. SUFFICES ASSUME NEW o \in owed[t], o[3] # "byhand", o[1] = e
                   PROVE  FALSE
      OBVIOUS
    <3>2. o[1] # 0
      BY <1>3, <3>1 DEF CPUs
    <3>3. list_empty(w) /\ o[1] = c
      BY <3>1, <3>2
    <3>4. c \in Running(w)
      BY <1>2, <1>3, <3>1, <3>3 DEF Owes
    <3>5. cwq[c].current_work = w
      BY <3>4, RunningTop
    <3> QED BY <1>5, <3>3, <3>5
  <2> HIDE DEF e, here
  <2>4. To(t, "fw_ret", w, e, call[t].timed, call[t].got)
    BY <2>1, <2>2, CallGoesOn DEF Shape
  <2>5. CallOk(call'[t], hot.online) /\ Cancels(t)'
    BY <1>1, <2>4 DEF CallOk, To, Cancels
  <2>6. \A v \in Works : t \in CallOf(v)' <=> t \in CallOf(v)
    BY <1>1, <2>4 DEF CallOf, To
  <2>7. ASSUME NEW o \in owed'[t]
        PROVE  Owes(t, o)'
    <3>1. /\ o[2] = w /\ (o[3] # "byhand" => o[1] # e)
          /\ o[3] # "byhand" => o[1] \in IF o[3] = "queued" THEN ListOf(o[2]) ELSE Running(o[2])
      BY <1>1, <1>3, <2>3, <2>7 DEF Owes
    <3>2. ListOf(o[2])' = ListOf(o[2]) /\ Running(o[2])' = Running(o[2])
      BY <2>1 DEF ListOf, Running, RunningAt
    <3> QED BY <2>4, <3>1, <3>2 DEF Owes, To
  <2>8. ~Awaits(t)
    BY <1>1 DEF Awaits
  <2>9. owed' \in [Clients -> SUBSET (CPUs \X Works \X {"queued", "run", "byhand"})]
        /\ \A s \in Clients : s # t => owed'[s] = owed[s]
    BY <1>1 DEF Shape, TypeOK
  <2> QED BY <1>1, <2>1, <2>4, <2>5, <2>6, <2>7, <2>8, <2>9, CallStep
<1> QED BY <1>4, <1>5

\* wait_on_cpu_work() has the lock: a barrier at the head if the work runs there.
LEMMA WaitOnCpuWork ==
    ASSUME IInv, NEW t \in Clients, wait_on_cpu_work(t)
    PROVE  IInv'
<1> DEFINE c == call[t].cpu
           w == call[t].w
<1>1. call[t].pc = "c_cpu" /\ UNCHANGED <<hot, owed>> /\ t # Admin /\ t \in Items
      /\ c \in CPUs /\ w \in Works /\ w # NULL
  BY Kinds DEF wait_on_cpu_work, IInv, Shape, CallsOk, CallOk
<1>2. CASE c \in wq_cpu_map /\ cwq[c].current_work = w
  <2>1. insert_wq_barrier(c, t, <<t>> \o cwq[c].worklist) /\ Step(t, "c_cpu_wait")
    BY <1>2 DEF wait_on_cpu_work
  <2>2. Placed(c, t, <<t>> \o cwq[c].worklist)
    BY <1>1, PlacedAt DEF IInv, Shape
  <2>3. Active(c)
    BY <1>1, <1>2 DEF Active
  <2>4. owed[t] = {}
    BY <1>1, NoDebts DEF IInv
  <2> QED BY <1>1, <2>1, <2>2, <2>3, <2>4, BarrierStep
<1>3. CASE ~(c \in wq_cpu_map /\ cwq[c].current_work = w)
  <2>1. /\ call' = [call EXCEPT ![t].pc = wait_on_next(t, c + 1), ![t].cpu = c + 1]
        /\ UNCHANGED <<work, cwq, done>>
    BY <1>3 DEF wait_on_cpu_work
  <2>2. c + 1 \in 0 .. NCPU + 1 /\ c + 1 \in 1 .. NCPU + 1
    BY <1>1, WorkQueueAssumption DEF CPUs
  <2>3. To(t, wait_on_next(t, c + 1), w, c + 1, call[t].timed, call[t].got)
    BY <2>1, <2>2, NextPlace, CallGoesOn DEF IInv, Shape
  <2>4. call[t].got => \A d \in Running(w) : d >= c + 1
    <3>1. c \notin Running(w)
      <4>1. c \notin wq_cpu_map => c \notin Running(w)
        BY <1>1, NothingThere DEF IInv
      <4>2. c \in Running(w) => cwq[c].current_work = w
        BY RunningTop DEF IInv
      <4> QED BY <1>3, <4>1, <4>2
    <3>2. Running(w) \subseteq CPUs
      BY DEF Running, RunningAt
    <3>3. call[t].got => \A d \in Running(w) : d >= c
      BY <1>1 DEF IInv, Owned, Cancels
    <3> QED BY <1>1, <3>1, <3>2, <3>3, WorkQueueAssumption DEF CPUs
  <2>5. ~Awaits(t)
    BY <1>1 DEF Awaits
  <2> QED BY <1>1, <2>1, <2>2, <2>3, <2>4, <2>5, WaitOnNext
<1> QED BY <1>2, <1>3

------------------------------------------------------------------------------
\* The record of w, and of no other work, changes.
Record(w, b, c, s) ==
    /\ work' \in [Works -> WorkRec]
    /\ \A v \in Works : v # w => work'[v] = work[v]
    /\ work'[w].pending = b /\ work'[w].cwq = c /\ work'[w].timer = s

\* The fields of a work that queueing it, its timer and a cancel change.
LEMMA WorkFields ==
    ASSUME TypeOK, NEW w \in Works, NEW b \in BOOLEAN,
           NEW s \in {"none", "armed", "firing"}
    PROVE  /\ work' = [work EXCEPT ![w].pending = b] => Record(w, b, work[w].cwq, work[w].timer)
           /\ \A c \in CPUs : work' = [work EXCEPT ![w].cwq = c]
                => Record(w, work[w].pending, c, work[w].timer)
           /\ work' = [work EXCEPT ![w].timer = s] => Record(w, work[w].pending, work[w].cwq, s)
           /\ \A c \in CPUs : work' = [work EXCEPT ![w].cwq = c, ![w].timer = s]
                => Record(w, work[w].pending, c, s)
           /\ \A c \in CPUs : work' = [work EXCEPT ![w].timer = s, ![w].cwq = c]
                => Record(w, work[w].pending, c, s)
<1>0. work \in [Works -> WorkRec] /\ work[w] \in WorkRec
  BY Types
<1> DEFINE k == work[w]
<1>1. ASSUME NEW r \in WorkRec PROVE [r EXCEPT !.pending = b] \in WorkRec
  BY DEF WorkRec
<1>2. ASSUME NEW r \in WorkRec, NEW c \in CPUs PROVE [r EXCEPT !.cwq = c] \in WorkRec
  BY DEF WorkRec, CPUs
<1>3. ASSUME NEW r \in WorkRec PROVE [r EXCEPT !.timer = s] \in WorkRec
  BY DEF WorkRec
<1>4. ASSUME NEW c \in CPUs PROVE [k EXCEPT !.cwq = c, !.timer = s] \in WorkRec
  <2>1. [k EXCEPT !.cwq = c, !.timer = s] = [[k EXCEPT !.cwq = c] EXCEPT !.timer = s]
    BY <1>0 DEF WorkRec
  <2> QED BY <1>0, <1>2, <1>3, <2>1
<1>5. ASSUME NEW c \in CPUs PROVE [k EXCEPT !.timer = s, !.cwq = c] \in WorkRec
  <2>1. [k EXCEPT !.timer = s, !.cwq = c] = [[k EXCEPT !.timer = s] EXCEPT !.cwq = c]
    BY <1>0 DEF WorkRec
  <2> QED BY <1>0, <1>2, <1>3, <2>1
<1>6. ASSUME work' = [work EXCEPT ![w].pending = b]
      PROVE  Record(w, b, k.cwq, k.timer)
  <2>1. work' = [work EXCEPT ![w] = [k EXCEPT !.pending = b]]
    BY <1>0, <1>6
  <2> QED BY <1>0, <1>1, <2>1 DEF Record, WorkRec
<1>7. ASSUME NEW c \in CPUs, work' = [work EXCEPT ![w].cwq = c]
      PROVE  Record(w, k.pending, c, k.timer)
  <2>1. work' = [work EXCEPT ![w] = [k EXCEPT !.cwq = c]]
    BY <1>0, <1>7
  <2> QED BY <1>0, <1>2, <2>1 DEF Record, WorkRec
<1>8. ASSUME work' = [work EXCEPT ![w].timer = s]
      PROVE  Record(w, k.pending, k.cwq, s)
  <2>1. work' = [work EXCEPT ![w] = [k EXCEPT !.timer = s]]
    BY <1>0, <1>8
  <2> QED BY <1>0, <1>3, <2>1 DEF Record, WorkRec
<1>9. ASSUME NEW c \in CPUs, work' = [work EXCEPT ![w].cwq = c, ![w].timer = s]
      PROVE  Record(w, k.pending, c, s)
  <2>1. work' = [work EXCEPT ![w] = [k EXCEPT !.cwq = c, !.timer = s]]
    BY <1>0, <1>9
  <2> QED BY <1>0, <1>4, <2>1 DEF Record, WorkRec
<1>10. ASSUME NEW c \in CPUs, work' = [work EXCEPT ![w].timer = s, ![w].cwq = c]
       PROVE  Record(w, k.pending, c, s)
  <2>1. work' = [work EXCEPT ![w] = [k EXCEPT !.timer = s, !.cwq = c]]
    BY <1>0, <1>10
  <2> QED BY <1>0, <1>5, <2>1 DEF Record, WorkRec
<1> QED BY <1>6, <1>7, <1>8, <1>9, <1>10

\* wq_per_cpu() is a CPU.
LEMMA PerCpu ==
    ASSUME NEW c \in CPUs
    PROVE  wq_per_cpu(c) \in CPUs
BY WorkQueueAssumption DEF wq_per_cpu, CPUs

\* No call but that of t, and no work but w, changes.
Called(t)  == call' \in [Clients -> Calls] /\ \A s \in Clients : s # t => call'[s] = call[s]
Changed(w) == work' \in [Works -> WorkRec] /\ \A v \in Works : v # w => work'[v] = work[v]

\* A step says which call and which work it touches.
LEMMA Touched ==
    ASSUME NEW t, NEW w
    PROVE  /\ \A p, x, c, d, g : To(t, p, x, c, d, g) => Called(t)
           /\ \A b, k, s : Record(w, b, k, s) => Changed(w)
BY DEF To, Record, Called, Changed

\* A client takes a work, hands it to its timer or lets go of it.
LEMMA WorkStep ==
    ASSUME IInv, NEW t \in Clients, NEW w \in Works, Called(t), Changed(w),
           CallOk(call'[t], hot.online), UNCHANGED <<cwq, done, hot, owed>>,
           call[t].pc # "idle" \/ NewCall(t),
           call[t].pc \notin {"flush", "flush_wait", "fw_lock", "fw_wait", "fw_ret", "c_cpu_wait"},
           call'[t].pc \notin {"flush", "flush_wait", "fw_lock", "fw_wait", "fw_ret", "c_cpu",
                               "c_cpu_wait", "c_clear"},
           \A v \in Works : v # w => (t \in CallOf(v)' <=> t \in CallOf(v)),
           Owner(w)',
           \/ work'[w].cwq = work[w].cwq
           \/ work'[w].cwq \in CPUs /\ ListOf(w) = {} /\ HandOf(w) = {}
    PROVE  IInv'
<1> USE DEF IInv
<1>0. TypeOK /\ t # Admin /\ t \in Waits
  BY Kinds DEF Shape
<1>1. Shape'
  <2>1. hot.todo = {} /\ hot.at # "destroyed"
    BY InUse
  <2>2. Workers'
    BY DEF Shape, Workers, WorkerOk
  <2>3. /\ work' \in [Works -> WorkRec] /\ cwq' \in [CPUs -> CwqRec]
        /\ owed' \in [Clients -> SUBSET (CPUs \X Works \X {"queued", "run", "byhand"})]
    BY <1>0 DEF Changed, TypeOK
  <2>4. To(t, call'[t].pc, call'[t].w, call'[t].cpu, call'[t].timed, call'[t].got)
    BY DEF To, Called
  <2> QED BY <2>1, <2>2, <2>3, <2>4, ClientShape
<1>2. \A r \in Clients : r # t => call'[r] = call[r] /\ owed'[r] = owed[r]
  BY DEF Called
<1>3. Keeps(t)
  BY SameKeeps
<1>4. \A r \in Clients : r # t => Cancels(r)'
  BY <1>0, <1>2, <1>3, OthersStay
<1>5. \A r \in Clients : r # t => \A o \in owed'[r] : Owes(r, o)'
  BY <1>0, <1>2, <1>3, OthersStay
<1>6. \A r \in Waits : r # t => Barrier(r)'
  BY <1>0, <1>2, <1>3, OthersStay
<1>7. ASSUME NEW v \in Works
      PROVE  Owner(v)' /\ KnowsCwq(v)'
  <2>1. /\ ListOf(v)' = ListOf(v) /\ HandOf(v)' = HandOf(v) /\ Running(v)' = Running(v)
        /\ RunningAt(v, {"clear"})' = RunningAt(v, {"clear"})
    BY DEF ListOf, HandOf, Running, RunningAt
  <2>2. Owner(v) /\ KnowsCwq(v)
    BY DEF Owned
  <2>3. CASE v # w
    <3>1. CallOf(v)' = CallOf(v)
      BY <1>2, <2>3 DEF CallOf
    <3>2. work'[v] = work[v]
      BY <2>3 DEF Changed
    <3> QED BY <2>1, <2>2, <3>1, <3>2, SameOwner
  <2>4. CASE v = w
    <3>2. CASE work'[w].cwq = work[w].cwq
      BY <2>1, <2>2, <2>4, <3>2 DEF KnowsCwq
    <3>3. CASE work'[w].cwq \in CPUs /\ ListOf(w) = {} /\ HandOf(w) = {}
      <4>1. RunningAt(w, {"clear"}) = {}
        BY <3>3 DEF HandOf, RunningAt
      <4>2. work'[w].cwq # 0
        BY <3>3 DEF CPUs
      <4> QED BY <2>1, <2>4, <3>3, <4>1, <4>2 DEF KnowsCwq
    <3> QED BY <2>4, <3>2, <3>3
  <2> QED BY <2>3, <2>4
<1>8. Barrier(t)'
  <2>1. ListOf(t) = {} /\ Running(t) = {}
    BY <1>0, NoBarrier DEF Awaits
  <2>2. ListOf(t)' = {} /\ Running(t)' = {}
    BY <2>1 DEF ListOf, Running, RunningAt
  <2> QED BY <2>2 DEF Barrier
<1>9. Cancels(t)' /\ owed'[t] = {}
  BY NoDebts DEF Cancels
<1>10. Owned'
  BY <1>4, <1>7, <1>9 DEF Owned
<1>11. Flushed'
  BY <1>5, <1>6, <1>8, <1>9 DEF Flushed
<1> QED BY <1>1, <1>10, <1>11

\* The call of t becomes the owner of w.
LEMMA TakenByCall ==
    ASSUME NEW w \in Works, NEW t \in Clients, work'[w].pending, work'[w].timer = "none",
           ListOf(w)' = {}, HandOf(w)' = {}, CallOf(w)' = {t}
    PROVE  Owner(w)'
<1>1. TimerOf(w)' = {}
  BY DEF TimerOf
<1> QED BY <1>1 DEF Owner, Alone

\* test_and_set_bit(WORK_STRUCT_PENDING) found the bit clear.
LEMMA SetPending ==
    ASSUME IInv, NEW t \in Clients, NEW w \in Works, NEW c \in CPUs, NEW p \in {"insert", "arm"},
           set_pending(t, w, c, p), NewCall(t), c \in hot.online
    PROVE  IInv'
<1> USE DEF IInv
<1>0. /\ p \in Places /\ c \in 0 .. NCPU + 1 /\ w \in Works \cup {NULL} /\ TypeOK
      /\ TRUE \in BOOLEAN /\ call[t].pc = "idle" /\ FALSE \in BOOLEAN
  BY WorkQueueAssumption DEF Places, CPUs, Shape, NewCall
<1>1. To(t, p, w, c, FALSE, FALSE)
  BY <1>0, NewCalls DEF set_pending
<1>2. Record(w, TRUE, work[w].cwq, work[w].timer)
  BY <1>0, WorkFields DEF set_pending
<1>3. CallOk(call'[t], hot.online)
  BY <1>1 DEF CallOk, To
<1>4. UNCHANGED <<cwq, done, hot, owed>> /\ ~work[w].pending
  BY DEF set_pending
<1>5. /\ ListOf(w) = {} /\ HandOf(w) = {} /\ CallOf(w) = {} /\ TimerOf(w) = {}
  BY <1>4, Sole DEF Owned
<1>6. /\ ListOf(w)' = {} /\ HandOf(w)' = {}
  BY <1>4, <1>5 DEF ListOf, HandOf, RunningAt
<1>7. CallOf(w)' = {t}
  BY <1>1, <1>5 DEF CallOf, To
<1>8. work'[w].pending /\ work'[w].timer = "none" /\ work'[w].cwq = work[w].cwq
  BY <1>2, <1>5 DEF Record, TimerOf
<1>9. Owner(w)'
  BY <1>6, <1>7, <1>8, TakenByCall
<1>10. \A v \in Works : v # w => (t \in CallOf(v)' <=> t \in CallOf(v))
  BY <1>0, <1>1 DEF CallOf, To, Shape, CallsOk, CallOk
<1>11. Called(t) /\ Changed(w) /\ call'[t].pc = p
  BY <1>1, <1>2, Touched DEF To
<1> QED BY <1>0, <1>3, <1>4, <1>8, <1>9, <1>10, <1>11, WorkStep

\* queue_work_on() and queue_delayed_work_on() take the bit, or leave.
LEMMA QueueWork ==
    ASSUME IInv, NEW t \in Clients, NEW w \in Works, NEW c \in CPUs,
           queue_work(t, w, c) \/ queue_delayed_work(t, w, c)
    PROVE  IInv'
BY SetPending DEF queue_work, queue_delayed_work

\* queue_delayed_work_on() arms the timer: the bit passes to it.
LEMMA ArmTimer ==
    ASSUME IInv, NEW t \in Clients, arm_timer(t)
    PROVE  IInv'
<1> USE DEF IInv
<1>w. PICK w \in Works : w = call[t].w
  BY DEF arm_timer, Shape, CallsOk, CallOk
<1>c. PICK c \in CPUs : c = wq_per_cpu(call[t].cpu)
  BY PerCpu DEF arm_timer, Shape, CallsOk, CallOk
<1>0. /\ call[t].pc = "arm" /\ TypeOK /\ ~call[t].got
      /\ UNCHANGED <<cwq, done, hot, owed>>
      /\ "armed" \in {"none", "armed", "firing"}
      /\ work' = [work EXCEPT ![w].cwq = c, ![w].timer = "armed"]
      /\ work[w].pending \in BOOLEAN
  BY <1>w, <1>c, Types DEF arm_timer, Shape, CallsOk, CallOk, WorkRec
<1>1. To(t, "idle", NULL, 0, FALSE, FALSE)
  <2>1. "idle" \in Places /\ 0 \in 0 .. NCPU + 1 /\ FALSE \in BOOLEAN
    BY WorkQueueAssumption DEF Places
  <2> QED BY <1>0, <2>1, NewCalls DEF arm_timer
<1>2. Record(w, work[w].pending, c, "armed")
  BY <1>0, WorkFields
<1>3. CallOk(call'[t], hot.online)
  BY <1>1 DEF CallOk, To
<1>4. t \in CallOf(w)
  BY <1>0, <1>w DEF CallOf
<1>5. /\ ListOf(w) = {} /\ HandOf(w) = {} /\ CallOf(w) = {t} /\ work[w].pending
  BY <1>4, Sole DEF Owned
<1>6. /\ ListOf(w)' = {} /\ HandOf(w)' = {}
  BY <1>0, <1>5 DEF ListOf, HandOf, RunningAt
<1>7. CallOf(w)' = {}
  BY <1>1, <1>5 DEF CallOf, To
<1>8. work'[w].pending /\ TimerOf(w)' = {"armed"} /\ work'[w].cwq = c
  BY <1>2, <1>5 DEF Record, TimerOf
<1>9. Owner(w)'
  BY <1>6, <1>7, <1>8 DEF Owner, Alone
<1>10. \A v \in Works : v # w => (t \in CallOf(v)' <=> t \in CallOf(v))
  BY <1>0, <1>w, <1>1 DEF CallOf, To
<1>11. Called(t) /\ Changed(w) /\ call'[t].pc = "idle"
  BY <1>1, <1>2, Touched DEF To
<1> QED BY <1>0, <1>3, <1>5, <1>8, <1>9, <1>10, <1>11, WorkStep

\* try_to_grab_pending(): test_and_set_bit() takes the bit of an idle work.
LEMMA GrabPending ==
    ASSUME IInv, NEW t \in Clients, grab_pending(t)
    PROVE  IInv'
<1> USE DEF IInv
<1>w. PICK w \in Works : w = call[t].w
  BY DEF grab_pending, Shape, CallsOk, CallOk
<1>0. /\ call[t].pc = "c_grab" /\ TypeOK /\ ~call[t].got /\ t # Admin
      /\ UNCHANGED <<cwq, done, hot, owed>> /\ call[t].cpu \in 0 .. NCPU + 1
      /\ "c_wait" \in Places /\ "c_read" \in Places /\ TRUE \in BOOLEAN
  BY Kinds, Types DEF grab_pending, Shape, CallsOk, CallOk, Places, Calls
<1>1. CASE ~work[w].pending
  <2>0. /\ work' = [work EXCEPT ![w].pending = TRUE]
        /\ call' = [call EXCEPT ![t].pc = "c_wait", ![t].got = TRUE]
    BY <1>w, <1>1 DEF grab_pending
  <2>1. To(t, "c_wait", w, call[t].cpu, call[t].timed, TRUE)
    BY <1>0, <1>w, <2>0, CallGoesOn
  <2>4. /\ ListOf(w) = {} /\ HandOf(w) = {} /\ CallOf(w) = {} /\ TimerOf(w) = {}
    BY <1>1, Sole DEF Owned
  <2>2. Record(w, TRUE, work[w].cwq, work[w].timer)
    <3>1. work[w].timer = "none"
      BY <2>4 DEF TimerOf
    <3> QED BY <1>0, <2>0, <3>1, WorkFields
  <2>3. CallOk(call'[t], hot.online)
    BY <2>1 DEF CallOk, To
  <2>5. /\ ListOf(w)' = {} /\ HandOf(w)' = {}
    BY <1>0, <2>4 DEF ListOf, HandOf, RunningAt
  <2>6. CallOf(w)' = {t}
    BY <2>1, <2>4 DEF CallOf, To
  <2>7. work'[w].pending /\ work'[w].timer = "none" /\ work'[w].cwq = work[w].cwq
    BY <2>2, <2>4 DEF Record, TimerOf
  <2>8. Owner(w)'
    BY <2>5, <2>6, <2>7, TakenByCall
  <2>9. \A v \in Works : v # w => (t \in CallOf(v)' <=> t \in CallOf(v))
    BY <1>0, <1>w, <2>1 DEF CallOf, To
  <2>10. Called(t) /\ Changed(w) /\ call'[t].pc = "c_wait"
    BY <2>1, <2>2, Touched DEF To
  <2> QED BY <1>0, <2>3, <2>7, <2>8, <2>9, <2>10, WorkStep
<1>2. CASE work[w].pending
  <2>1. Step(t, "c_read") /\ UNCHANGED work
    BY <1>w, <1>2 DEF grab_pending
  <2>2. To(t, "c_read", call[t].w, call[t].cpu, call[t].timed, call[t].got)
    BY <1>0, <2>1, CallGoesOn
  <2>3. ~Awaits(t)
    BY <1>0 DEF Awaits
  <2> QED BY <1>0, <2>1, <2>2, <2>3, CancelMoves
<1> QED BY <1>1, <1>2

\* A timer that is taken back.
LEMMA CancelDelTimer ==
    ASSUME IInv, NEW t \in Clients, cancel_del_timer(t)
    PROVE  IInv'
<1> USE DEF IInv
<1>w. PICK w \in Works : w = call[t].w
  BY DEF cancel_del_timer, Shape, CallsOk, CallOk
<1>0. /\ call[t].pc = "c_timer" /\ TypeOK /\ ~call[t].got /\ t # Admin
      /\ UNCHANGED <<cwq, done, hot, owed>> /\ call[t].cpu \in 0 .. NCPU + 1
      /\ "c_wait" \in Places /\ "c_grab" \in Places /\ "none" \in {"none", "armed", "firing"}
      /\ work[w].pending \in BOOLEAN
  BY Kinds, Types DEF cancel_del_timer, Shape, CallsOk, CallOk, Places, Calls, WorkRec
<1>1. CASE work[w].timer = "armed"
  <2>0. /\ work' = [work EXCEPT ![w].timer = "none"]
        /\ call' = [call EXCEPT ![t].pc = "c_wait", ![t].got = TRUE]
    BY <1>w, <1>1 DEF cancel_del_timer
  <2>1. To(t, "c_wait", w, call[t].cpu, call[t].timed, TRUE)
    BY <1>0, <1>w, <2>0, CallGoesOn
  <2>2. Record(w, work[w].pending, work[w].cwq, "none")
    BY <1>0, <2>0, WorkFields
  <2>3. CallOk(call'[t], hot.online)
    BY <2>1 DEF CallOk, To
  <2>4. "armed" \in TimerOf(w)
    BY <1>1 DEF TimerOf
  <2>5. ListOf(w) = {} /\ HandOf(w) = {} /\ CallOf(w) = {} /\ work[w].pending
    BY <2>4, Sole DEF Owned
  <2>6. /\ ListOf(w)' = {} /\ HandOf(w)' = {}
    BY <1>0, <2>5 DEF ListOf, HandOf, RunningAt
  <2>7. CallOf(w)' = {t}
    BY <2>1, <2>5 DEF CallOf, To
  <2>8. work'[w].pending /\ work'[w].timer = "none" /\ work'[w].cwq = work[w].cwq
    BY <2>2, <2>5 DEF Record
  <2>9. Owner(w)'
    BY <2>6, <2>7, <2>8, TakenByCall
  <2>10. \A v \in Works : v # w => (t \in CallOf(v)' <=> t \in CallOf(v))
    BY <1>0, <1>w, <2>1 DEF CallOf, To
  <2>11. Called(t) /\ Changed(w) /\ call'[t].pc = "c_wait"
    BY <2>1, <2>2, Touched DEF To
  <2> QED BY <1>0, <2>3, <2>8, <2>9, <2>10, <2>11, WorkStep
<1>2. CASE work[w].timer # "armed"
  <2>1. Step(t, "c_grab") /\ UNCHANGED work
    BY <1>w, <1>2 DEF cancel_del_timer
  <2>2. To(t, "c_grab", call[t].w, call[t].cpu, call[t].timed, call[t].got)
    BY <1>0, <2>1, CallGoesOn
  <2>3. ~Awaits(t)
    BY <1>0 DEF Awaits
  <2> QED BY <1>0, <2>1, <2>2, <2>3, CancelMoves
<1> QED BY <1>1, <1>2

\* cancel_delayed_work() takes the timer back and clears the bit.
LEMMA CancelDelayedWork ==
    ASSUME IInv, NEW t \in Clients, NEW w \in Works, cancel_delayed_work(t, w)
    PROVE  IInv'
<1> USE DEF IInv
<1>0. /\ call[t].pc = "idle" /\ NewCall(t) /\ TypeOK /\ w \in Works \cup {NULL}
      /\ UNCHANGED <<cwq, done, hot, owed>> /\ 0 \in 0 .. NCPU + 1 /\ FALSE \in BOOLEAN
      /\ "cd_clear" \in Places /\ "none" \in {"none", "armed", "firing"}
      /\ work[w].timer = "armed" /\ work[w].pending \in BOOLEAN
  BY WorkQueueAssumption, Types DEF cancel_delayed_work, NewCall, Shape, Places, WorkRec
<1>1. To(t, "cd_clear", w, 0, FALSE, TRUE)
  BY <1>0, NewCalls DEF cancel_delayed_work
<1>2. Record(w, work[w].pending, work[w].cwq, "none")
  BY <1>0, WorkFields DEF cancel_delayed_work
<1>3. CallOk(call'[t], hot.online)
  BY <1>1 DEF CallOk, To
<1>4. "armed" \in TimerOf(w)
  BY <1>0 DEF TimerOf
<1>5. ListOf(w) = {} /\ HandOf(w) = {} /\ CallOf(w) = {} /\ work[w].pending
  BY <1>4, Sole DEF Owned
<1>6. /\ ListOf(w)' = {} /\ HandOf(w)' = {}
  BY <1>0, <1>5 DEF ListOf, HandOf, RunningAt
<1>7. CallOf(w)' = {t}
  BY <1>1, <1>5 DEF CallOf, To
<1>8. work'[w].pending /\ work'[w].timer = "none" /\ work'[w].cwq = work[w].cwq
  BY <1>2, <1>5 DEF Record
<1>9. Owner(w)'
  BY <1>6, <1>7, <1>8, TakenByCall
<1>10. \A v \in Works : v # w => (t \in CallOf(v)' <=> t \in CallOf(v))
  BY <1>0, <1>1 DEF CallOf, To, Shape, CallsOk, CallOk
<1>11. Called(t) /\ Changed(w) /\ call'[t].pc = "cd_clear"
  BY <1>1, <1>2, Touched DEF To
<1> QED BY <1>0, <1>3, <1>8, <1>9, <1>10, <1>11, WorkStep

\* __cancel_work_timer() lets go of the work: work_clear_pending().
LEMMA CancelClear ==
    ASSUME IInv, NEW t \in Clients, cancel_clear(t)
    PROVE  IInv'
<1> USE DEF IInv
<1>w. PICK w \in Works : w = call[t].w
  BY DEF cancel_clear, Shape, CallsOk, CallOk
<1>0. /\ call[t].pc \in {"c_clear", "cd_clear"} /\ TypeOK /\ call[t].got
      /\ UNCHANGED <<cwq, done, hot, owed>> /\ FALSE \in BOOLEAN
      /\ work' = [work EXCEPT ![w].pending = FALSE]
  BY <1>w DEF cancel_clear, Shape, CallsOk, CallOk
<1>1. To(t, "idle", NULL, 0, FALSE, FALSE)
  <2>1. "idle" \in Places /\ 0 \in 0 .. NCPU + 1
    BY WorkQueueAssumption DEF Places
  <2> QED BY <1>0, <2>1, NewCalls DEF cancel_clear
<1>3. CallOk(call'[t], hot.online)
  BY <1>1 DEF CallOk, To
<1>4. t \in CallOf(w)
  BY <1>0, <1>w DEF CallOf
<1>5. ListOf(w) = {} /\ HandOf(w) = {} /\ CallOf(w) = {t} /\ TimerOf(w) = {}
  BY <1>4, Sole DEF Owned
<1>2. Record(w, FALSE, work[w].cwq, work[w].timer)
  <2>1. work[w].timer = "none"
    BY <1>5 DEF TimerOf
  <2> QED BY <1>0, <2>1, WorkFields
<1>6. /\ ListOf(w)' = {} /\ HandOf(w)' = {}
  BY <1>0, <1>5 DEF ListOf, HandOf, RunningAt
<1>7. CallOf(w)' = {}
  BY <1>1, <1>5 DEF CallOf, To
<1>8. ~work'[w].pending /\ TimerOf(w)' = {} /\ work'[w].cwq = work[w].cwq
  BY <1>2, <1>5 DEF Record, TimerOf
<1>9. Owner(w)'
  BY <1>6, <1>7, <1>8 DEF Owner
<1>10. \A v \in Works : v # w => (t \in CallOf(v)' <=> t \in CallOf(v))
  BY <1>0, <1>w, <1>1 DEF CallOf, To
<1>11. Called(t) /\ Changed(w) /\ call'[t].pc = "idle"
  BY <1>1, <1>2, Touched DEF To
<1> QED BY <1>0, <1>3, <1>8, <1>9, <1>10, <1>11, WorkStep

------------------------------------------------------------------------------
\* The worker that a work is queued for on an online CPU goes on working.
LEMMA LiveWorker ==
    ASSUME Shape, hot.todo = {}, hot.at # "destroyed", NEW d \in hot.online
    PROVE  wq_per_cpu(d) \in CPUs /\ ~Quiescing(wq_per_cpu(d))
<1>1. d \in CPUs /\ hot.online \subseteq hot.populated /\ 1 \in CPUs
  BY Types, WorkQueueAssumption DEF Shape, Hotplug, MapsOk, CPUs
<1>2. PICK c \in CPUs : c = wq_per_cpu(d)
  BY <1>1, PerCpu
<1>3. c \in wq_cpu_map /\ (~hot.single => c = d)
  BY <1>1, <1>2 DEF wq_per_cpu, wq_cpu_map
<1>4. hot.at \in {"idle", "online", "destroyed"} \/ c # hot.cpu
  BY <1>3 DEF Shape, Hotplug, MapsOk
<1>5. ThreadOk(c, cwq[c].thread, cwq[c].stop)
  BY DEF Shape, Hotplug
<1>6. cwq[c].thread \notin {"none", "exited"}
  BY <1>3, <1>4, <1>5 DEF ThreadOk
<1>7. ~Quiescing(c)
  BY <1>4, <1>6 DEF Quiescing
<1> QED BY <1>2, <1>7

\* The owner of w is the list of c.
LEMMA PutOnList ==
    ASSUME NEW w \in Works, NEW c \in CPUs, Adds(c, w), ListOf(w) = {}, HandOf(w) = {},
           work'[w].pending, work'[w].timer = "none", work'[w].cwq = c, CallOf(w)' = {}
    PROVE  Owner(w)' /\ KnowsCwq(w)'
<1>1. ListOf(w)' = {c} /\ HandOf(w)' = {}
  BY DEF Adds
<1>2. RunningAt(w, {"clear"})' = {}
  BY <1>1 DEF RunningAt, HandOf
<1>3. TimerOf(w)' = {} /\ c # 0
  BY DEF TimerOf, CPUs
<1> QED BY <1>1, <1>2, <1>3 DEF Owner, Alone, KnowsCwq

\* __queue_work(): the bit passes from the call to the list.
LEMMA QueueInsert ==
    ASSUME IInv, NEW t \in Clients, queue_insert(t)
    PROVE  IInv'
<1> USE DEF IInv
<1>w. PICK w \in Works : w = call[t].w
  BY DEF queue_insert, Shape, CallsOk, CallOk
<1>d. PICK d \in hot.online : d = call[t].cpu
  BY DEF queue_insert, Shape, CallsOk, CallOk
<1>u. hot.todo = {} /\ hot.at # "destroyed"
  BY InUse DEF queue_insert
<1>c. PICK c \in CPUs : c = wq_per_cpu(d) /\ ~Quiescing(c)
  BY <1>u, LiveWorker
<1>q. PICK q : q = list_add_tail(cwq[c].worklist, w)
  OBVIOUS
<1>0. /\ call[t].pc = "insert" /\ TypeOK /\ t # Admin /\ t \in Waits /\ ~call[t].got
      /\ UNCHANGED <<done, hot, owed>> /\ Become(t, Idle)
      /\ insert_work(c, q) /\ work' = [work EXCEPT ![w].cwq = c]
      /\ work[w].pending \in BOOLEAN /\ w \in Items /\ w \notin Waits
  BY <1>w, <1>c, <1>d, <1>q, Kinds, Types DEF queue_insert, Shape, CallsOk, CallOk, WorkRec
<1>1. To(t, "idle", NULL, 0, FALSE, FALSE)
  <2>1. "idle" \in Places /\ 0 \in 0 .. NCPU + 1 /\ FALSE \in BOOLEAN
    BY WorkQueueAssumption DEF Places
  <2> QED BY <1>0, <2>1, NewCalls
<1>2. t \in CallOf(w)
  BY <1>0, <1>w DEF CallOf
<1>3. /\ ListOf(w) = {} /\ HandOf(w) = {} /\ CallOf(w) = {t} /\ work[w].pending
      /\ TimerOf(w) = {}
  BY <1>2, Sole DEF Owned
<1>4. Record(w, work[w].pending, c, "none")
  <2>1. work[w].timer = "none"
    BY <1>3 DEF TimerOf
  <2> QED BY <1>0, <2>1, WorkFields
<1>5. Placed(c, w, q)
  BY <1>0, <1>q, PlacedAt
<1>6. List(c, q)
  BY <1>0, <1>5, ListFields DEF Placed
<1>7. Adds(c, w) /\ Workers'
  <2>1. w \notin Members(cwq[c].worklist)
    BY <1>3 DEF ListOf
  <2> QED BY <1>0, <1>5, <1>6, <2>1, ListGrows
<1>8. Keeps(w)
  BY <1>7, AddsKeeps
<1>9. Shape'
  <2>1. CallOk(call'[t], hot.online)
    BY <1>1 DEF CallOk, To
  <2>2. /\ work' \in [Works -> WorkRec] /\ cwq' \in [CPUs -> CwqRec] /\ done' \subseteq done
        /\ owed' \in [Clients -> SUBSET (CPUs \X Works \X {"queued", "run", "byhand"})]
    BY <1>0, <1>4, <1>6 DEF Record, List, TypeOK
  <2>3. ASSUME NEW k \in CPUs
        PROVE  /\ cwq'[k].thread = cwq[k].thread /\ cwq'[k].stop = cwq[k].stop
               /\ \/ cwq'[k].worklist = cwq[k].worklist
                  \/ Quiescing(k) => cwq[k].thread = "busy"
    BY <1>6, <1>c DEF List
  <2> QED BY <1>0, <1>1, <1>7, <1>u, <2>1, <2>2, <2>3, ClientShape
<1>10. /\ \A s \in Clients : s # t => call'[s] = call[s] /\ owed'[s] = owed[s]
       /\ done' \subseteq done /\ UNCHANGED hot
  BY <1>0, <1>1 DEF To
<1>11. \A s \in Clients : s # w
  BY <1>0 DEF Waits
<1>12. \A s \in Clients : s # t => Cancels(s)'
  BY <1>0, <1>8, <1>10, <1>11, OthersStay
<1>13. \A s \in Clients : s # t => \A o \in owed'[s] : Owes(s, o)'
  BY <1>0, <1>8, <1>10, OthersStay
<1>14. \A s \in Waits : s # t => Barrier(s)'
  BY <1>0, <1>8, <1>10, OthersStay
<1>15. ASSUME NEW v \in Works
       PROVE  Owner(v)' /\ KnowsCwq(v)'
  <2>1. CASE v # w
    <3>1. CallOf(v)' = CallOf(v)
      BY <1>0, <1>1, <1>w, <2>1 DEF CallOf, To
    <3>2. work'[v] = work[v]
      BY <1>4, <2>1 DEF Record
    <3>3. /\ ListOf(v)' = ListOf(v) /\ HandOf(v)' = HandOf(v) /\ Running(v)' = Running(v)
          /\ RunningAt(v, {"clear"})' = RunningAt(v, {"clear"})
      BY <1>8, <2>1 DEF Keeps
    <3> QED BY <3>1, <3>2, <3>3, SameOwner DEF Owned
  <2>2. CASE v = w
    <3>1. CallOf(w)' = {}
      BY <1>1, <1>3 DEF CallOf, To
    <3>2. Owner(w)' /\ KnowsCwq(w)'
      BY <1>3, <1>4, <1>7, <3>1, PutOnList DEF Record
    <3> QED BY <2>2, <3>2
  <2> QED BY <2>1, <2>2
<1>16. Barrier(t)'
  <2>1. ListOf(t) = {} /\ Running(t) = {}
    BY <1>0, NoBarrier DEF Awaits
  <2>2. ListOf(t)' = {} /\ Running(t)' = {}
    BY <1>0, <1>8, <2>1 DEF Keeps
  <2> QED BY <2>2 DEF Barrier
<1>17. Cancels(t)' /\ owed'[t] = {}
  BY <1>0, <1>1, NoDebts DEF Cancels, To
<1>18. Owned'
  BY <1>12, <1>15, <1>17 DEF Owned
<1>19. Flushed'
  BY <1>13, <1>14, <1>16, <1>17 DEF Flushed
<1> QED BY <1>9, <1>18, <1>19

\* try_to_grab_pending() takes the work off its list, or tries again.
LEMMA GrabLock ==
    ASSUME IInv, NEW t \in Clients, grab_lock(t)
    PROVE  IInv'
<1> USE DEF IInv
<1>w. PICK w \in Works : w = call[t].w
  BY DEF grab_lock, Shape, CallsOk, CallOk
<1>c. PICK c \in CPUs : c = call[t].cpu
  BY DEF grab_lock, Shape, CallsOk, CallOk
<1>0. /\ call[t].pc = "c_lock" /\ TypeOK /\ t # Admin /\ t \in Waits /\ ~call[t].got
      /\ UNCHANGED <<work, done, hot>> /\ "c_wait" \in Places
      /\ c \in 0 .. NCPU + 1 /\ w \in Items /\ w \notin Waits
  BY <1>c, Kinds, WorkQueueAssumption DEF grab_lock, Shape, CallsOk, CallOk, Places, CPUs
<1>1. CASE ~(~list_empty(w) /\ work[w].cwq = c)
  <2>1. Step(t, "c_wait") /\ UNCHANGED <<cwq, owed>>
    BY <1>1, <1>w, <1>c DEF grab_lock
  <2>2. To(t, "c_wait", call[t].w, call[t].cpu, call[t].timed, call[t].got)
    BY <1>0, <1>c, <2>1, CallGoesOn
  <2>3. ~Awaits(t)
    BY <1>0 DEF Awaits
  <2> QED BY <1>0, <1>c, <2>1, <2>2, <2>3, CancelMoves
<1>2. CASE ~list_empty(w) /\ work[w].cwq = c
  <2>q. PICK q \in Seq(Items) : q = cwq[c].worklist /\ NoDup(q)
    BY Types DEF Shape, Workers, WorkerOk
  <2>0. /\ cwq' = [cwq EXCEPT ![c].worklist = list_del(q, w)]
        /\ call' = [call EXCEPT ![t].pc = "c_wait", ![t].got = TRUE]
        /\ owed' = [s \in Clients |-> owed[s] \ {<<c, w, "queued">>}]
    BY <1>2, <1>w, <1>c, <2>q DEF grab_lock
  <2>1. ListOf(w) = {c} /\ w \in Members(q)
    BY <1>2, <2>q DEF list_empty, ListOf, Owned, KnowsCwq
  <2>2. /\ HandOf(w) = {} /\ CallOf(w) = {} /\ TimerOf(w) = {} /\ work[w].pending
    BY <2>1, Sole DEF Owned
  <2>3. To(t, "c_wait", w, c, call[t].timed, TRUE)
    BY <1>0, <1>w, <1>c, <2>0, CallGoesOn
  <2>4. PICK r \in Seq(Items) : r = list_del(q, w) /\ Members(r) = Members(q) \ {w} /\ NoDup(r)
    BY <2>q, <2>1, ListDelProperties
  <2>5. List(c, r)
    BY <1>0, <2>0, <2>4, ListFields
  <2>6. /\ \A d \in CPUs : cwq'[d].frames = cwq[d].frames
        /\ \A d \in CPUs : d # c => cwq'[d].worklist = cwq[d].worklist
        /\ cwq'[c].worklist = r
    BY <2>5 DEF List
  <2>7. \A y : y # w => ListOf(y)' = ListOf(y)
    BY <2>4, <2>6, <2>q DEF ListOf
  <2>8. ListOf(w)' = {}
    BY <2>1, <2>4, <2>6 DEF ListOf
  <2>9. \A y : /\ RunningAt(y, {"clear"})' = RunningAt(y, {"clear"})
               /\ HandOf(y)' = HandOf(y) /\ Running(y)' = Running(y)
    BY <2>6 DEF RunningAt, HandOf, Running
  <2>10. ASSUME NEW d \in CPUs, NEW y, NEW z, y # w, z # w, Before(cwq[d].worklist, y, z)
         PROVE  Before(cwq'[d].worklist, y, z)
    BY <2>1, <2>4, <2>6, <2>10, <2>q, TakenOff
  <2>11. ASSUME NEW d \in CPUs
         PROVE  WorkerOk(d)'
    BY <2>4, <2>5 DEF Shape, Workers, WorkerOk, List
  <2>12. Shape'
    <3>1. hot.todo = {} /\ hot.at # "destroyed"
      BY <1>0, InUse
    <3>2. CallOk(call'[t], hot.online)
      BY <1>0, <2>3 DEF CallOk, To
    <3>3. /\ work' \in [Works -> WorkRec] /\ cwq' \in [CPUs -> CwqRec] /\ done' \subseteq done
          /\ owed' \in [Clients -> SUBSET (CPUs \X Works \X {"queued", "run", "byhand"})]
      BY <1>0, <2>0, <2>5 DEF List, TypeOK
    <3>4. ASSUME NEW k \in CPUs
          PROVE  /\ cwq'[k].thread = cwq[k].thread /\ cwq'[k].stop = cwq[k].stop
                 /\ \/ cwq'[k].worklist = cwq[k].worklist
                    \/ cwq[k].worklist = <<>> => cwq'[k].worklist = <<>>
      <4>1. q # <<>>
        BY <2>1 DEF Members
      <4> QED BY <2>5, <2>q, <4>1 DEF List
    <3>5. Workers'
      BY <2>11 DEF Workers
    <3> QED BY <1>0, <2>3, <3>1, <3>2, <3>3, <3>4, <3>5, ClientShape
  <2>13. ASSUME NEW v \in Works
         PROVE  Owner(v)' /\ KnowsCwq(v)'
    <3>1. Owner(v) /\ KnowsCwq(v)
      BY DEF Owned
    <3>2. CASE v # w
      <4>1. CallOf(v)' = CallOf(v)
        BY <2>3, <1>0, <1>w, <3>2 DEF CallOf, To
      <4> QED BY <1>0, <2>7, <2>9, <3>1, <3>2, <4>1, SameOwner
    <3>3. CASE v = w
      <4>1. CallOf(w)' = {t}
        BY <2>2, <2>3 DEF CallOf, To
      <4>2. work'[w].pending /\ work'[w].timer = "none"
        BY <1>0, <2>2 DEF TimerOf
      <4>3. Owner(w)'
        BY <2>2, <2>8, <2>9, <4>1, <4>2, TakenByCall
      <4>4. KnowsCwq(w)'
        BY <1>0, <2>8, <2>9, <3>1, <3>3 DEF KnowsCwq
      <4> QED BY <3>3, <4>3, <4>4
    <3> QED BY <3>2, <3>3
  <2>14. ASSUME NEW s \in Clients
         PROVE  Cancels(s)'
    <3>1. CASE s = t
      BY <2>3, <3>1 DEF Cancels, To
    <3>2. CASE s # t
      <4>1. call'[s] = call[s] /\ s # w
        BY <1>0, <2>3, <3>2 DEF To, Waits
      <4>2. ListOf(s)' = ListOf(s) /\ \A y : Running(y)' = Running(y)
        BY <2>7, <2>9, <4>1
      <4> QED BY <4>1, <4>2 DEF Cancels, Owned
    <3> QED BY <3>1, <3>2
  <2>15. ASSUME NEW s \in Waits
         PROVE  Barrier(s)'
    <3>1. ListOf(s)' = ListOf(s) /\ Running(s)' = Running(s)
      BY <1>0, <2>7, <2>9
    <3>2. CASE s = t
      <4>1. ListOf(s) = {} /\ Running(s) = {}
        BY <1>0, <3>2, NoBarrier DEF Awaits
      <4> QED BY <3>1, <4>1 DEF Barrier
    <3>3. CASE s # t
      <4>1. s # Admin => call'[s] = call[s]
        BY <2>3, <3>3, Kinds DEF To
      <4> QED BY <1>0, <3>1, <4>1 DEF Barrier, Awaits, Home, Flushed
    <3> QED BY <3>2, <3>3
  <2>16. ASSUME NEW s \in Clients, NEW o \in owed'[s]
         PROVE  Owes(s, o)'
    <3>1. o \in owed[s] /\ o # <<c, w, "queued">> /\ o \in CPUs \X Works \X {"queued", "run", "byhand"}
      BY <1>0, <2>0, <2>16 DEF TypeOK
    <3>2. Owes(s, o)
      BY <3>1 DEF Flushed
    <3>3. s # t
      BY <1>0, <3>2 DEF Owes
    <3>4. call'[s] = call[s] /\ s # w /\ s \in Waits
      BY <1>0, <2>3, <3>3, Kinds DEF To
    <3>5. o[3] = "queued" => o[2] # w
      <4>1. ASSUME o[3] = "queued", o[2] = w
            PROVE  FALSE
        <5>1. o[1] = c
          BY <2>1, <3>2, <4>1 DEF Owes
        <5>2. o = <<o[1], o[2], o[3]>>
          BY <3>1
        <5> QED BY <3>1, <4>1, <5>1, <5>2
      <4> QED BY <4>1
    <3>6. /\ o[3] = "queued" => ListOf(o[2])' = ListOf(o[2])
          /\ ListOf(s)' = ListOf(s) /\ Running(o[2])' = Running(o[2])
      BY <2>7, <2>9, <3>4, <3>5
    <3>7. o[3] = "queued" /\ Before(cwq[o[1]].worklist, o[2], s)
            => Before(cwq'[o[1]].worklist, o[2], s)
      BY <2>10, <3>1, <3>4, <3>5
    <3> QED BY <3>2, <3>4, <3>6, <3>7 DEF Owes
  <2>17. Owned' /\ Flushed'
    BY <2>13, <2>14, <2>15, <2>16 DEF Owned, Flushed
  <2> QED BY <2>12, <2>17
<1> QED BY <1>1, <1>2

------------------------------------------------------------------------------
\* The hotplug task and the calls stay where they are.
LEMMA SteadyShape ==
    ASSUME Shape, UNCHANGED <<call, hot>>, TypeOK', Workers',
           hot.todo # {} \/ hot.at = "destroyed" => \A w \in Works : work'[w].timer = "none",
           \A k \in CPUs : ThreadOk(k, cwq'[k].thread, cwq'[k].stop) /\ Quiesced(k)'
    PROVE  Shape'
<1>1. CallsOk'
  BY DEF Shape, CallsOk
<1>2. MapsOk'
  BY DEF Shape, Hotplug, MapsOk
<1>3. hot'.todo # {} \/ hot'.at = "destroyed" => NoUsers'
  BY DEF Shape, Hotplug, NoUsers
<1>4. \A k \in CPUs : ThreadOk(k, cwq[k].thread, cwq[k].stop)'
  BY DEF ThreadOk, wq_cpu_map
<1> QED BY <1>1, <1>2, <1>3, <1>4 DEF Shape, Hotplug

\* The timer of a delayed work expires.
LEMMA TimerExpires ==
    ASSUME IInv, NEW w \in Works, timer_expires(w)
    PROVE  IInv'
<1> USE DEF IInv
<1>0. /\ work[w].timer = "armed" /\ work' = [work EXCEPT ![w].timer = "firing"]
      /\ UNCHANGED <<cwq, call, done, hot, owed>> /\ TypeOK
      /\ "firing" \in {"none", "armed", "firing"} /\ work[w].pending \in BOOLEAN
  BY Types DEF timer_expires, Shape, WorkRec
<1>1. Record(w, work[w].pending, work[w].cwq, "firing")
  BY <1>0, WorkFields
<1>2. /\ hot.todo = {} /\ hot.at # "destroyed"
  BY <1>0 DEF Shape, Hotplug, NoUsers
<1>3. Shape'
  <2>1. TypeOK'
    BY <1>0, <1>1 DEF TypeOK, Record
  <2>2. Workers'
    BY <1>0 DEF Shape, Workers, WorkerOk
  <2>3. \A k \in CPUs : ThreadOk(k, cwq'[k].thread, cwq'[k].stop) /\ Quiesced(k)'
    BY <1>0 DEF Shape, Hotplug, Quiesced, Quiescing
  <2> QED BY <1>0, <1>2, <2>1, <2>2, <2>3, SteadyShape
<1>4. \A y : ListOf(y)' = ListOf(y)
  BY <1>0 DEF ListOf
<1>5. \A y : /\ RunningAt(y, {"clear"})' = RunningAt(y, {"clear"})
             /\ HandOf(y)' = HandOf(y) /\ Running(y)' = Running(y)
             /\ CallOf(y)' = CallOf(y)
  BY <1>0 DEF RunningAt, HandOf, Running, CallOf
<1>6. ASSUME NEW v \in Works
      PROVE  Owner(v)' /\ KnowsCwq(v)'
  <2>1. Owner(v) /\ KnowsCwq(v)
    BY DEF Owned
  <2>2. CASE v # w
    <3>1. work'[v] = work[v]
      BY <1>1, <2>2 DEF Record
    <3> QED BY <1>4, <1>5, <2>1, <3>1, SameOwner
  <2>3. CASE v = w
    <3>1. "armed" \in TimerOf(w) /\ TimerOf(w)' = {"firing"}
      BY <1>0, <1>1 DEF TimerOf, Record
    <3>2. ListOf(w) = {} /\ HandOf(w) = {} /\ CallOf(w) = {} /\ work[w].pending
      BY <2>1, <2>3, <3>1, Sole
    <3>3. Owner(w)'
      BY <1>1, <1>4, <1>5, <3>1, <3>2 DEF Owner, Alone, Record
    <3>4. KnowsCwq(w)'
      BY <1>1, <1>4, <1>5, <2>1, <2>3 DEF KnowsCwq, Record
    <3> QED BY <2>3, <3>3, <3>4
  <2> QED BY <2>2, <2>3
<1>7. Keeps(w) /\ \A s \in Waits : s # w
  BY <1>0, SameKeeps, Kinds
<1>8. /\ \A s \in Clients : s # w => call'[s] = call[s] /\ owed'[s] = owed[s]
      /\ done' \subseteq done /\ UNCHANGED hot
  BY <1>0
<1>9. \A s \in Clients : Cancels(s)'
  BY <1>0, <1>7, <1>8, OthersStay DEF Waits
<1>10. \A s \in Clients : \A o \in owed'[s] : Owes(s, o)'
  BY <1>0, <1>7, <1>8, OthersStay DEF Waits
<1>11. \A s \in Waits : Barrier(s)'
  BY <1>0, <1>7, <1>8, OthersStay
<1> QED BY <1>3, <1>6, <1>9, <1>10, <1>11 DEF Owned, Flushed

\* delayed_work_timer_fn(): the bit passes from the timer to the list.
LEMMA DelayedWorkTimer ==
    ASSUME IInv, NEW w \in Works, NEW e \in CPUs, delayed_work_timer_fn(w, e)
    PROVE  IInv'
<1> USE DEF IInv
<1>u. /\ hot.todo = {} /\ hot.at # "destroyed"
  BY DEF delayed_work_timer_fn, Shape, Hotplug, NoUsers
<1>c. PICK c \in CPUs : c = wq_per_cpu(e) /\ ~Quiescing(c)
  BY <1>u, LiveWorker DEF delayed_work_timer_fn
<1>q. PICK q : q = list_add_tail(cwq[c].worklist, w)
  OBVIOUS
<1>0. /\ work[w].timer = "firing" /\ work' = [work EXCEPT ![w].timer = "none", ![w].cwq = c]
      /\ UNCHANGED <<call, done, hot, owed>> /\ TypeOK /\ insert_work(c, q)
      /\ "none" \in {"none", "armed", "firing"} /\ work[w].pending \in BOOLEAN
      /\ w \in Items /\ w \notin Waits
  BY <1>c, <1>q, Kinds, Types DEF delayed_work_timer_fn, Shape, WorkRec
<1>1. Record(w, work[w].pending, c, "none")
  BY <1>0, WorkFields
<1>2. "firing" \in TimerOf(w)
  BY <1>0 DEF TimerOf
<1>3. ListOf(w) = {} /\ HandOf(w) = {} /\ CallOf(w) = {} /\ work[w].pending
  BY <1>2, Sole DEF Owned
<1>4. Placed(c, w, q)
  BY <1>0, <1>q, PlacedAt
<1>5. List(c, q)
  BY <1>0, <1>4, ListFields DEF Placed
<1>6. Adds(c, w) /\ Workers'
  <2>1. w \notin Members(cwq[c].worklist)
    BY <1>3 DEF ListOf
  <2> QED BY <1>0, <1>4, <1>5, <2>1, ListGrows
<1>7. Keeps(w) /\ \A s \in Waits : s # w
  BY <1>0, <1>6, AddsKeeps
<1>8. Shape'
  <2>1. TypeOK'
    BY <1>0, <1>1, <1>5 DEF TypeOK, Record, List
  <2>2. ASSUME NEW k \in CPUs
        PROVE  ThreadOk(k, cwq'[k].thread, cwq'[k].stop) /\ Quiesced(k)'
    <3>1. cwq'[k].thread = cwq[k].thread /\ cwq'[k].stop = cwq[k].stop
      BY <1>5 DEF List
    <3>2. Quiescing(k)' <=> Quiescing(k)
      BY <1>0, <3>1 DEF Quiescing
    <3>3. k # c => cwq'[k].worklist = cwq[k].worklist
      BY <1>5 DEF List
    <3> QED BY <1>c, <3>1, <3>2, <3>3 DEF Shape, Hotplug, Quiesced
  <2> QED BY <1>0, <1>6, <1>u, <2>1, <2>2, SteadyShape
<1>9. ASSUME NEW v \in Works
      PROVE  Owner(v)' /\ KnowsCwq(v)'
  <2>0. CallOf(v)' = CallOf(v)
    BY <1>0 DEF CallOf
  <2>1. CASE v # w
    <3>1. work'[v] = work[v]
      BY <1>1, <2>1 DEF Record
    <3>2. /\ ListOf(v)' = ListOf(v) /\ HandOf(v)' = HandOf(v) /\ Running(v)' = Running(v)
          /\ RunningAt(v, {"clear"})' = RunningAt(v, {"clear"})
      BY <1>7, <2>1 DEF Keeps
    <3> QED BY <2>0, <3>1, <3>2, SameOwner DEF Owned
  <2>2. CASE v = w
    <3>1. Owner(w)' /\ KnowsCwq(w)'
      BY <1>1, <1>3, <1>6, <2>0, <2>2, PutOnList DEF Record
    <3> QED BY <2>2, <3>1
  <2> QED BY <2>1, <2>2
<1>10. /\ \A s \in Clients : s # w => call'[s] = call[s] /\ owed'[s] = owed[s]
       /\ done' \subseteq done /\ UNCHANGED hot
  BY <1>0
<1>11. \A s \in Clients : Cancels(s)'
  BY <1>0, <1>7, <1>10, OthersStay DEF Waits
<1>12. \A s \in Clients : \A o \in owed'[s] : Owes(s, o)'
  BY <1>0, <1>7, <1>10, OthersStay DEF Waits
<1>13. \A s \in Waits : Barrier(s)'
  BY <1>0, <1>7, <1>10, OthersStay
<1> QED BY <1>8, <1>9, <1>11, <1>12, <1>13 DEF Owned, Flushed

------------------------------------------------------------------------------
Threads == {"none", "created", "prepare", "check", "sleep", "entry", "busy", "exited"}
Ats     == {"clear", "run", "requeue", "ret"} \cup ByHand

\* The worker of c, and no other, is now like this.
Now(c, q, x, fs, th) ==
    /\ cwq' \in [CPUs -> CwqRec]
    /\ \A d \in CPUs : d # c => cwq'[d] = cwq[d]
    /\ cwq'[c].worklist = q /\ cwq'[c].current_work = x /\ cwq'[c].frames = fs
    /\ cwq'[c].thread = th /\ cwq'[c].stop = cwq[c].stop

\* What worker_thread() and run_workqueue() change of a cwq.
LEMMA WorkerFields ==
    ASSUME TypeOK, NEW c \in CPUs
    PROVE  /\ \A th \in Threads, b \in BOOLEAN :
                 cwq' = [cwq EXCEPT ![c].thread = th, ![c].awake = b]
                    => Now(c, cwq[c].worklist, cwq[c].current_work, cwq[c].frames, th)
           /\ \A fs \in Seq(RunFrames) :
                 cwq' = [cwq EXCEPT ![c].frames = fs]
                    => Now(c, cwq[c].worklist, cwq[c].current_work, fs, cwq[c].thread)
           /\ \A fs \in Seq(RunFrames), th \in Threads :
                 cwq' = [cwq EXCEPT ![c].current_work = NULL, ![c].frames = fs, ![c].thread = th]
                    => Now(c, cwq[c].worklist, NULL, fs, th)
           /\ \A q \in Seq(Items), x \in Items, fs \in Seq(RunFrames), th \in Threads :
                 cwq' = [cwq EXCEPT ![c].worklist = q, ![c].current_work = x,
                                    ![c].frames = fs, ![c].thread = th]
                    => Now(c, q, x, fs, th)
<1>0. cwq \in [CPUs -> CwqRec] /\ cwq[c] \in CwqRec
  BY Types
<1>1. PICK k \in CwqRec : k = cwq[c]
  BY <1>0
<1>2. ASSUME NEW r \in CwqRec, NEW q \in Seq(Items) PROVE [r EXCEPT !.worklist = q] \in CwqRec
  BY DEF CwqRec
<1>3. ASSUME NEW r \in CwqRec, NEW x \in Items \cup {NULL}
      PROVE  [r EXCEPT !.current_work = x] \in CwqRec
  BY DEF CwqRec
<1>4. ASSUME NEW r \in CwqRec, NEW fs \in Seq(RunFrames) PROVE [r EXCEPT !.frames = fs] \in CwqRec
  BY DEF CwqRec
<1>5. ASSUME NEW r \in CwqRec, NEW th \in Threads PROVE [r EXCEPT !.thread = th] \in CwqRec
  BY DEF CwqRec, Threads
<1>6. ASSUME NEW r \in CwqRec, NEW b \in BOOLEAN PROVE [r EXCEPT !.awake = b] \in CwqRec
  BY DEF CwqRec
<1>7. ASSUME NEW r \in CwqRec, cwq' = [cwq EXCEPT ![c] = r], r.stop = k.stop
      PROVE  Now(c, r.worklist, r.current_work, r.frames, r.thread)
  BY <1>0, <1>1, <1>7 DEF Now
<1>8. ASSUME NEW th \in Threads, NEW b \in BOOLEAN,
             cwq' = [cwq EXCEPT ![c].thread = th, ![c].awake = b]
      PROVE  Now(c, k.worklist, k.current_work, k.frames, th)
  <2>1. PICK r : r = [k EXCEPT !.thread = th, !.awake = b]
    OBVIOUS
  <2>2. r = [[k EXCEPT !.thread = th] EXCEPT !.awake = b]
    BY <2>1 DEF CwqRec
  <2>3. r \in CwqRec
    <3>1. [k EXCEPT !.thread = th] \in CwqRec
      BY <1>5
    <3> QED BY <1>6, <2>2, <3>1
  <2>4. /\ r.worklist = k.worklist /\ r.current_work = k.current_work
        /\ r.frames = k.frames /\ r.thread = th /\ r.stop = k.stop
    BY <2>1 DEF CwqRec
  <2>5. cwq' = [cwq EXCEPT ![c] = r]
    BY <1>0, <1>1, <1>8, <2>1
  <2> QED BY <1>7, <2>3, <2>4, <2>5
<1>9. ASSUME NEW fs \in Seq(RunFrames), cwq' = [cwq EXCEPT ![c].frames = fs]
      PROVE  Now(c, k.worklist, k.current_work, fs, k.thread)
  <2>1. PICK r : r = [k EXCEPT !.frames = fs]
    OBVIOUS
  <2>2. /\ r \in CwqRec /\ r.worklist = k.worklist /\ r.current_work = k.current_work
        /\ r.frames = fs /\ r.thread = k.thread /\ r.stop = k.stop
    BY <1>4, <2>1 DEF CwqRec
  <2>3. cwq' = [cwq EXCEPT ![c] = r]
    BY <1>0, <1>1, <1>9, <2>1
  <2> QED BY <1>7, <2>2, <2>3
<1>10. ASSUME NEW fs \in Seq(RunFrames), NEW th \in Threads,
              cwq' = [cwq EXCEPT ![c].current_work = NULL, ![c].frames = fs, ![c].thread = th]
       PROVE  Now(c, k.worklist, NULL, fs, th)
  <2>1. PICK r : r = [k EXCEPT !.current_work = NULL, !.frames = fs, !.thread = th]
    OBVIOUS
  <2>2. r = [[[k EXCEPT !.current_work = NULL] EXCEPT !.frames = fs] EXCEPT !.thread = th]
    BY <2>1 DEF CwqRec
  <2>3. r \in CwqRec
    <3>1. [k EXCEPT !.current_work = NULL] \in CwqRec
      BY <1>3
    <3>2. [[k EXCEPT !.current_work = NULL] EXCEPT !.frames = fs] \in CwqRec
      BY <1>4, <3>1
    <3> QED BY <1>5, <2>2, <3>2
  <2>4. /\ r.worklist = k.worklist /\ r.current_work = NULL
        /\ r.frames = fs /\ r.thread = th /\ r.stop = k.stop
    BY <2>1 DEF CwqRec
  <2>5. cwq' = [cwq EXCEPT ![c] = r]
    BY <1>0, <1>1, <1>10, <2>1
  <2> QED BY <1>7, <2>3, <2>4, <2>5
<1>11. ASSUME NEW q \in Seq(Items), NEW x \in Items, NEW fs \in Seq(RunFrames), NEW th \in Threads,
              cwq' = [cwq EXCEPT ![c].worklist = q, ![c].current_work = x,
                                 ![c].frames = fs, ![c].thread = th]
       PROVE  Now(c, q, x, fs, th)
  <2>1. PICK r : r = [k EXCEPT !.worklist = q, !.current_work = x, !.frames = fs, !.thread = th]
    OBVIOUS
  <2>2. r = [[[[k EXCEPT !.worklist = q] EXCEPT !.current_work = x] EXCEPT !.frames = fs]
                EXCEPT !.thread = th]
    BY <2>1 DEF CwqRec
  <2>3. r \in CwqRec
    <3>1. [k EXCEPT !.worklist = q] \in CwqRec
      BY <1>2
    <3>2. [[k EXCEPT !.worklist = q] EXCEPT !.current_work = x] \in CwqRec
      BY <1>3, <3>1
    <3>3. [[[k EXCEPT !.worklist = q] EXCEPT !.current_work = x] EXCEPT !.frames = fs] \in CwqRec
      BY <1>4, <3>2
    <3> QED BY <1>5, <2>2, <3>3
  <2>4. /\ r.worklist = q /\ r.current_work = x
        /\ r.frames = fs /\ r.thread = th /\ r.stop = k.stop
    BY <2>1 DEF CwqRec
  <2>5. cwq' = [cwq EXCEPT ![c] = r]
    BY <1>0, <1>1, <1>11, <2>1
  <2> QED BY <1>7, <2>3, <2>4, <2>5
<1> QED BY <1>1, <1>8, <1>9, <1>10, <1>11

\* gs is fs with its innermost frame at a.
Topped(fs, a, gs) ==
    /\ gs \in Seq(RunFrames) /\ gs # <<>> /\ Len(gs) = Len(fs)
    /\ \A i \in 1..Len(fs) : i < Len(fs) => gs[i] = fs[i]
    /\ gs[Len(fs)].item = fs[Len(fs)].item /\ gs[Len(fs)].at = a

\* The innermost frame gets its new place.
LEMMA ToppedIs ==
    ASSUME NEW fs \in Seq(RunFrames), fs # <<>>, NEW a \in Ats
    PROVE  Topped(fs, a, [fs EXCEPT ![Len(fs)].at = a])
<1> DEFINE n == Len(fs)
<1>1. n \in 1..Len(fs) /\ fs[n] \in RunFrames
  OBVIOUS
<1>2. PICK f : f = [fs[n] EXCEPT !.at = a]
  OBVIOUS
<1>3. f \in RunFrames /\ f.item = fs[n].item /\ f.at = a
  BY <1>1, <1>2 DEF RunFrames, Ats
<1>4. [fs EXCEPT ![n].at = a] = [fs EXCEPT ![n] = f]
  BY <1>1, <1>2
<1>5. PICK gs : gs = [fs EXCEPT ![n] = f]
  OBVIOUS
<1>6. /\ gs \in Seq(RunFrames) /\ Len(gs) = Len(fs) /\ gs[n] = f
      /\ \A i \in 1..Len(fs) : i # n => gs[i] = fs[i]
  BY <1>1, <1>3, <1>5
<1>7. gs # <<>>
  BY <1>1, <1>6
<1>8. \A i \in 1..Len(fs) : i < Len(fs) => i # Len(fs)
  BY <1>1
<1> QED BY <1>3, <1>4, <1>5, <1>6, <1>7, <1>8 DEF Topped

\* Which frames count.
Runs(fs, x, P) == \E f \in Members(fs) : f.item = x /\ f.at \in P

\* Where a work runs, in terms of the frames of each worker.
LEMMA RunsIs ==
    ASSUME NEW P
    PROVE  \A x : RunningAt(x, P) = {c \in CPUs : Runs(cwq[c].frames, x, P)}
BY DEF RunningAt, Runs

\* Workers other than c run what they ran.
LEMMA OthersRun ==
    ASSUME NEW c \in CPUs, \A d \in CPUs : d # c => cwq'[d].frames = cwq[d].frames, NEW P
    PROVE  /\ \A x : \A d : d # c => (d \in RunningAt(x, P)' <=> d \in RunningAt(x, P))
           /\ \A x : c \in RunningAt(x, P)' <=> Runs(cwq'[c].frames, x, P)
           /\ \A x : c \in RunningAt(x, P) <=> Runs(cwq[c].frames, x, P)
BY DEF RunningAt, Runs

\* Only the innermost frame can be at a place other than a flush by hand.
LEMMA RunsTop ==
    ASSUME NEW fs \in Seq(RunFrames),
           \A i \in 1..Len(fs) : i < Len(fs) => fs[i].at = "byhand",
           NEW P, "byhand" \notin P
    PROVE  \A x : Runs(fs, x, P) <=> fs # <<>> /\ fs[Len(fs)].item = x /\ fs[Len(fs)].at \in P
<1>1. CASE fs = <<>>
  BY <1>1 DEF Runs, Members
<1>2. CASE fs # <<>>
  BY <1>2, TopFrame DEF Runs
<1> QED BY <1>1, <1>2

\* Only the worker of c gets other frames.
Frames(c, fs) == cwq'[c].frames = fs /\ \A d \in CPUs : d # c => cwq'[d].frames = cwq[d].frames

\* The callback of x on c is at a.
At(c, x, a) == RunsAt(c, a) /\ Item(c) = x

\* The callback on c gets from a to b.
LEMMA TopMoves ==
    ASSUME Shape, NEW c \in CPUs, NEW x, NEW a, NEW b \in Ats,
           RunsAt(c, a), Item(c) = x, SetTop(c, b)
    PROVE  /\ \E fs \in Seq(RunFrames) :
                 /\ Now(c, cwq[c].worklist, cwq[c].current_work, fs, cwq[c].thread)
                 /\ Topped(cwq[c].frames, b, fs)
           /\ x \in Items /\ cwq[c].thread = "busy"
           /\ \A y : ListOf(y)' = ListOf(y)
<1>1. PICK fs \in Seq(RunFrames) : fs = cwq[c].frames
  BY Types DEF Shape
<1>2. fs # <<>> /\ fs[Len(fs)].at = a /\ fs[Len(fs)].item = x
  BY <1>1 DEF RunsAt, Item
<1>3. PICK gs : gs = [fs EXCEPT ![Len(fs)].at = b]
  OBVIOUS
<1>4. Topped(fs, b, gs)
  BY <1>2, <1>3, ToppedIs
<1>5. gs \in Seq(RunFrames)
  BY <1>4 DEF Topped
<1>6. cwq' = [cwq EXCEPT ![c].frames = gs]
  BY <1>1, <1>3, Types DEF SetTop, Shape
<1>7. Now(c, cwq[c].worklist, cwq[c].current_work, gs, cwq[c].thread)
  BY <1>5, <1>6, WorkerFields DEF Shape
<1>8. \A y : ListOf(y)' = ListOf(y)
  BY <1>7 DEF ListOf, Now
<1>9. fs[Len(fs)] \in RunFrames
  BY <1>2
<1>10. x \in Items
  BY <1>2, <1>9 DEF RunFrames
<1>11. cwq[c].thread = "busy"
  BY <1>1, <1>2 DEF Shape, Workers, WorkerOk
<1> QED BY <1>1, <1>4, <1>5, <1>7, <1>8, <1>10, <1>11

\* What runs where after the innermost callback of c went on.
LEMMA TopRuns ==
    ASSUME Shape, NEW c \in CPUs, NEW x, NEW a, NEW b,
           At(c, x, a), NEW fs, Topped(cwq[c].frames, b, fs), Frames(c, fs),
           NEW P, "byhand" \notin P
    PROVE  /\ \A y : \A d : d # c \/ y # x => (d \in RunningAt(y, P)' <=> d \in RunningAt(y, P))
           /\ c \in RunningAt(x, P)' <=> b \in P
           /\ c \in RunningAt(x, P) <=> a \in P
           /\ \A y : y # x => c \notin RunningAt(y, P)
<1>1. PICK gs \in Seq(RunFrames) : gs = cwq[c].frames
  BY Types DEF Shape
<1>2. gs # <<>> /\ gs[Len(gs)].at = a /\ gs[Len(gs)].item = x
  BY <1>1 DEF At, RunsAt, Item
<1>3. \A i \in 1..Len(gs) : i < Len(gs) => gs[i].at = "byhand"
  BY <1>1 DEF Shape, Workers, WorkerOk, FramesOk
<1>4. \A y : Runs(gs, y, P) <=> gs # <<>> /\ gs[Len(gs)].item = y /\ gs[Len(gs)].at \in P
  BY <1>3, RunsTop
<1>5. /\ fs \in Seq(RunFrames) /\ fs # <<>> /\ Len(fs) = Len(gs)
      /\ fs[Len(fs)].at = b /\ fs[Len(fs)].item = x
      /\ \A i \in 1..Len(fs) : i < Len(fs) => fs[i].at = "byhand"
  BY <1>1, <1>2, <1>3 DEF Topped
<1>6. \A y : Runs(fs, y, P) <=> fs # <<>> /\ fs[Len(fs)].item = y /\ fs[Len(fs)].at \in P
  BY <1>5, RunsTop
<1>8. /\ \A y : \A d : d # c => (d \in RunningAt(y, P)' <=> d \in RunningAt(y, P))
      /\ \A y : c \in RunningAt(y, P)' <=> Runs(fs, y, P)
      /\ \A y : c \in RunningAt(y, P) <=> Runs(gs, y, P)
  BY <1>1, OthersRun DEF Frames
<1> QED BY <1>2, <1>4, <1>5, <1>6, <1>8

\* What a worker does next is in order, unless it exits unasked.
LEMMA ThreadGoesOn ==
    ASSUME Shape, NEW c \in CPUs, NEW th,
           \/ th = cwq[c].thread
           \/ /\ cwq[c].thread \notin {"none", "created"} /\ th \notin {"none", "created"}
              /\ th = "exited" => cwq[c].stop
    PROVE  ThreadOk(c, th, cwq[c].stop)
BY DEF Shape, Hotplug, ThreadOk

\* Nothing is put on a list or taken off one, and no callback goes on.
LEMMA SameView ==
    ASSUME IInv, UNCHANGED <<work, call, done, hot, owed>>,
           \A d \in CPUs : /\ cwq'[d].worklist = cwq[d].worklist
                           /\ cwq'[d].frames = cwq[d].frames
    PROVE  Owned' /\ Flushed'
<1> USE DEF IInv
<1>1. /\ \A y : ListOf(y)' = ListOf(y)
      /\ \A y : /\ RunningAt(y, {"clear"})' = RunningAt(y, {"clear"})
                /\ HandOf(y)' = HandOf(y) /\ Running(y)' = Running(y)
                /\ CallOf(y)' = CallOf(y)
  BY DEF ListOf, RunningAt, HandOf, Running, CallOf
<1>2. \A v \in Works : Owner(v)' /\ KnowsCwq(v)'
  BY <1>1, SameOwner DEF Owned
<1>3. Keeps(NULL) /\ \A s \in Waits : s # NULL
  BY <1>1, Kinds DEF Keeps
<1>4. /\ \A s \in Clients : s # NULL => call'[s] = call[s] /\ owed'[s] = owed[s]
      /\ done' \subseteq done /\ UNCHANGED hot /\ TypeOK
  BY DEF Shape
<1>5. \A s \in Clients : Cancels(s)'
  BY <1>3, <1>4, OthersStay DEF Waits
<1>6. \A s \in Clients : \A o \in owed'[s] : Owes(s, o)'
  BY <1>3, <1>4, OthersStay DEF Waits
<1>7. \A s \in Waits : Barrier(s)'
  BY <1>3, <1>4, OthersStay
<1> QED BY <1>2, <1>5, <1>6, <1>7 DEF Owned, Flushed

\* A worker goes from one place of worker_thread() to another.
LEMMA WorkerMoves ==
    ASSUME IInv, NEW c \in CPUs, NEW from, NEW to \in Threads, NEW wakes \in BOOLEAN,
           worker_moves(c, from, to, wakes),
           from \notin {"none", "created", "busy"}, to \notin {"none", "created", "busy"},
           to = "exited" => cwq[c].stop
    PROVE  IInv'
<1> USE DEF IInv
<1>0. /\ cwq[c].thread = from /\ UNCHANGED <<work, call, done, hot, owed>> /\ TypeOK
      /\ cwq' = [cwq EXCEPT ![c].thread = to, ![c].awake = wakes]
  BY DEF worker_moves, Shape
<1>1. Now(c, cwq[c].worklist, cwq[c].current_work, cwq[c].frames, to)
  BY <1>0, WorkerFields
<1>2. \A d \in CPUs : /\ cwq'[d].worklist = cwq[d].worklist /\ cwq'[d].stop = cwq[d].stop
                      /\ cwq'[d].frames = cwq[d].frames
                      /\ cwq'[d].current_work = cwq[d].current_work
                      /\ d # c => cwq'[d].thread = cwq[d].thread
  BY <1>1 DEF Now
<1>3. cwq'[c].thread = to
  BY <1>1 DEF Now
<1>4. Shape'
  <2>1. TypeOK'
    BY <1>0, <1>1 DEF TypeOK, Now
  <2>2. ASSUME NEW d \in CPUs
        PROVE  WorkerOk(d)'
    <3>1. WorkerOk(d)
      BY DEF Shape, Workers
    <3>2. CASE d = c
      BY <1>0, <1>2, <1>3, <3>1, <3>2 DEF WorkerOk
    <3>3. CASE d # c
      BY <1>2, <3>1, <3>3 DEF WorkerOk
    <3> QED BY <3>2, <3>3
  <2>3. ASSUME NEW k \in CPUs
        PROVE  ThreadOk(k, cwq'[k].thread, cwq'[k].stop) /\ Quiesced(k)'
    <3>1. ThreadOk(k, cwq'[k].thread, cwq'[k].stop)
      <4>1. /\ cwq'[k].stop = cwq[k].stop
            /\ \/ cwq'[k].thread = cwq[k].thread
               \/ k = c /\ cwq'[k].thread = to
        BY <1>2, <1>3
      <4>2. CASE cwq'[k].thread = cwq[k].thread
        BY <4>1, <4>2 DEF Shape, Hotplug
      <4>3. CASE k = c /\ cwq'[k].thread = to
        BY <1>0, <4>1, <4>3, ThreadGoesOn
      <4> QED BY <4>1, <4>2, <4>3
    <3>2. Quiesced(k)
      BY DEF Shape, Hotplug
    <3>3. CASE k # c
      BY <1>0, <1>2, <3>1, <3>2, <3>3 DEF Quiesced, Quiescing
    <3>4. CASE k = c
      <4>1. to = "exited" => Quiescing(c)
        BY DEF Quiescing, Shape, Hotplug, ThreadOk
      <4>2. Quiescing(c)' => Quiescing(c)
        BY <1>0, <1>3, <4>1 DEF Quiescing
      <4> QED BY <1>0, <1>2, <3>1, <3>2, <3>4, <4>2 DEF Quiesced
    <3> QED BY <3>1, <3>3, <3>4
  <2>4. hot.todo # {} \/ hot.at = "destroyed" => \A w \in Works : work'[w].timer = "none"
    BY <1>0 DEF Shape, Hotplug, NoUsers
  <2> QED BY <1>0, <2>1, <2>2, <2>3, <2>4, SteadyShape DEF Workers
<1> QED BY <1>0, <1>2, <1>4, SameView

\* prepare_to_wait(), the checks behind it, schedule() and the exit.
LEMMA WorkerSleeps ==
    ASSUME IInv, NEW c \in CPUs,
           worker_prepare(c) \/ worker_check(c) \/ worker_wakes(c) \/ worker_exits(c)
    PROVE  IInv'
<1>0. /\ {"check", "sleep", "entry", "exited"} \subseteq Threads
      /\ cwq[c].awake \in BOOLEAN /\ TRUE \in BOOLEAN /\ FALSE \in BOOLEAN
  BY Types DEF Threads, IInv, Shape
<1>1. CASE worker_prepare(c)
  BY <1>0, <1>1, WorkerMoves DEF worker_prepare
<1>2. CASE worker_check(c)
  BY <1>0, <1>2, WorkerMoves DEF worker_check
<1>3. CASE worker_wakes(c)
  BY <1>0, <1>3, WorkerMoves DEF worker_wakes
<1>4. CASE worker_exits(c)
  BY <1>0, <1>4, WorkerMoves DEF worker_exits
<1> QED BY <1>1, <1>2, <1>3, <1>4

\* The callback on c gets from a to b: what has to be seen to for the shape of
\* the state.
LEMMA TopShape ==
    ASSUME Shape, NEW c \in CPUs, NEW x, NEW a, NEW b \in Ats,
           RunsAt(c, a), Item(c) = x, SetTop(c, b), UNCHANGED <<call, hot>>,
           work' \in [Works -> WorkRec], \A w \in Works : work'[w].timer = work[w].timer,
           done' \subseteq Waits,
           owed' \in [Clients -> SUBSET (CPUs \X Works \X {"queued", "run", "byhand"})],
           b \in {"requeue"} \cup ByHand => x \in Works,
           b \in {"clear", "run", "requeue"} => a \in {"clear", "run", "requeue"},
           Admin \in done' => Admin \in done \/ hot.cpu = c
    PROVE  Shape'
<1>0. \E fs \in Seq(RunFrames) :
                 /\ Now(c, cwq[c].worklist, cwq[c].current_work, fs, cwq[c].thread)
                 /\ Topped(cwq[c].frames, b, fs)
  BY TopMoves
<1>1. PICK fs \in Seq(RunFrames) :
                 /\ Now(c, cwq[c].worklist, cwq[c].current_work, fs, cwq[c].thread)
                 /\ Topped(cwq[c].frames, b, fs)
  BY <1>0
<1>2. cwq[c].thread = "busy" /\ cwq[c].frames \in Seq(RunFrames) /\ cwq[c].frames # <<>>
  BY TopMoves, Types DEF Shape, RunsAt
<1>3. \A d \in CPUs : /\ cwq'[d].worklist = cwq[d].worklist /\ cwq'[d].stop = cwq[d].stop
                      /\ cwq'[d].thread = cwq[d].thread
                      /\ cwq'[d].current_work = cwq[d].current_work
                      /\ d # c => cwq'[d].frames = cwq[d].frames
  BY <1>1 DEF Now
<1>4. cwq'[c].frames = fs
  BY <1>1 DEF Now
<1>5. TypeOK'
  BY <1>1 DEF TypeOK, Now, Shape
<1>6. FramesOk(fs, cwq[c].current_work)
  <2> DEFINE gs == cwq[c].frames
  <2>0. FramesOk(gs, cwq[c].current_work)
    BY DEF Shape, Workers, WorkerOk
  <2>1. Len(fs) = Len(gs) /\ Len(gs) \in 1..Len(gs)
    BY <1>1, <1>2 DEF Topped
  <2>2. gs[Len(gs)].at = a /\ gs[Len(gs)].item = x
    BY DEF RunsAt, Item
  <2>3. fs[Len(gs)].at = b /\ fs[Len(gs)].item = x /\ fs # <<>>
    BY <1>1, <2>2 DEF Topped
  <2>4. \A i \in 1..Len(gs) : i # Len(gs) => i < Len(gs) /\ fs[i] = gs[i]
    BY <1>1, <1>2 DEF Topped
  <2>5. a \in {"clear", "run", "requeue"} => cwq[c].current_work = x
    BY <2>0, <2>1, <2>2 DEF FramesOk
  <2> HIDE DEF gs
  <2> QED BY <2>0, <2>1, <2>3, <2>4, <2>5 DEF FramesOk
<1>7. ASSUME NEW d \in CPUs
      PROVE  WorkerOk(d)'
  <2>1. CASE d = c
    BY <1>1, <1>2, <1>3, <1>4, <1>6, <2>1 DEF Shape, Workers, WorkerOk, Topped
  <2>2. CASE d # c
    BY <1>3, <2>2 DEF Shape, Workers, WorkerOk
  <2> QED BY <2>1, <2>2
<1>8. ASSUME NEW k \in CPUs
      PROVE  ThreadOk(k, cwq'[k].thread, cwq'[k].stop) /\ Quiesced(k)'
  <2>1. ThreadOk(k, cwq[k].thread, cwq[k].stop) /\ Quiesced(k)
    BY DEF Shape, Hotplug
  <2>2. k # c => (Quiescing(k)' => Quiescing(k))
    BY <1>3 DEF Quiescing
  <2> QED BY <1>2, <1>3, <2>1, <2>2 DEF Quiesced
<1>9. hot.todo # {} \/ hot.at = "destroyed" => \A w \in Works : work'[w].timer = "none"
  BY DEF Shape, Hotplug, NoUsers
<1> QED BY <1>5, <1>7, <1>8, <1>9, SteadyShape DEF Workers

------------------------------------------------------------------------------
\* A step of a callback, in terms of what runs and what is in whose hands.
LEMMA FrameSets ==
    ASSUME Shape, NEW c \in CPUs, NEW x, NEW a, NEW b,
           At(c, x, a), NEW fs, Topped(cwq[c].frames, b, fs), Frames(c, fs)
    PROVE  /\ \A y : y # x => /\ Running(y)' = Running(y) /\ HandOf(y)' = HandOf(y)
                              /\ RunningAt(y, {"clear"})' = RunningAt(y, {"clear"})
           /\ \A d : d # c => /\ d \in Running(x)' <=> d \in Running(x)
                              /\ d \in HandOf(x)' <=> d \in HandOf(x)
                              /\ d \in RunningAt(x, {"clear"})' <=> d \in RunningAt(x, {"clear"})
           /\ c \in Running(x)' <=> b \in {"clear", "run", "requeue"}
           /\ c \in Running(x) <=> a \in {"clear", "run", "requeue"}
           /\ c \in HandOf(x)' <=> b \in {"clear", "requeue", "byhand_requeue"}
           /\ c \in HandOf(x) <=> a \in {"clear", "requeue", "byhand_requeue"}
           /\ c \in RunningAt(x, {"clear"})' <=> b = "clear"
           /\ c \in RunningAt(x, {"clear"}) <=> a = "clear"
<1>1. /\ \A y : \A d : d # c \/ y # x =>
            (d \in RunningAt(y, {"clear", "run", "requeue"})'
                <=> d \in RunningAt(y, {"clear", "run", "requeue"}))
      /\ c \in RunningAt(x, {"clear", "run", "requeue"})' <=> b \in {"clear", "run", "requeue"}
      /\ c \in RunningAt(x, {"clear", "run", "requeue"}) <=> a \in {"clear", "run", "requeue"}
  <2>1. PICK P : P = {"clear", "run", "requeue"}
    OBVIOUS
  <2>2. "byhand" \notin P
    BY <2>1
  <2>3. /\ \A y : \A d : d # c \/ y # x =>
              (d \in RunningAt(y, P)' <=> d \in RunningAt(y, P))
        /\ c \in RunningAt(x, P)' <=> b \in P
        /\ c \in RunningAt(x, P) <=> a \in P
    BY <2>2, TopRuns
  <2> QED BY <2>1, <2>3
<1>2. /\ \A y : \A d : d # c \/ y # x =>
            (d \in RunningAt(y, {"clear", "requeue", "byhand_requeue"})'
                <=> d \in RunningAt(y, {"clear", "requeue", "byhand_requeue"}))
      /\ c \in RunningAt(x, {"clear", "requeue", "byhand_requeue"})'
          <=> b \in {"clear", "requeue", "byhand_requeue"}
      /\ c \in RunningAt(x, {"clear", "requeue", "byhand_requeue"})
          <=> a \in {"clear", "requeue", "byhand_requeue"}
  <2>1. PICK P : P = {"clear", "requeue", "byhand_requeue"}
    OBVIOUS
  <2>2. "byhand" \notin P
    BY <2>1
  <2>3. /\ \A y : \A d : d # c \/ y # x =>
              (d \in RunningAt(y, P)' <=> d \in RunningAt(y, P))
        /\ c \in RunningAt(x, P)' <=> b \in P
        /\ c \in RunningAt(x, P) <=> a \in P
    BY <2>2, TopRuns
  <2> QED BY <2>1, <2>3
<1>3. /\ \A y : \A d : d # c \/ y # x =>
            (d \in RunningAt(y, {"clear"})' <=> d \in RunningAt(y, {"clear"}))
      /\ c \in RunningAt(x, {"clear"})' <=> b \in {"clear"}
      /\ c \in RunningAt(x, {"clear"}) <=> a \in {"clear"}
  <2>1. PICK P : P = {"clear"}
    OBVIOUS
  <2>2. "byhand" \notin P
    BY <2>1
  <2>3. /\ \A y : \A d : d # c \/ y # x =>
              (d \in RunningAt(y, P)' <=> d \in RunningAt(y, P))
        /\ c \in RunningAt(x, P)' <=> b \in P
        /\ c \in RunningAt(x, P) <=> a \in P
    BY <2>2, TopRuns
  <2> QED BY <2>1, <2>3
<1>4. /\ \A y : Running(y) = RunningAt(y, {"clear", "run", "requeue"})
      /\ \A y : HandOf(y) = RunningAt(y, {"clear", "requeue", "byhand_requeue"})
      /\ \A y : Running(y)' = RunningAt(y, {"clear", "run", "requeue"})'
      /\ \A y : HandOf(y)' = RunningAt(y, {"clear", "requeue", "byhand_requeue"})'
  BY DEF Running, HandOf
<1>5. ASSUME NEW y, y # x
      PROVE  /\ Running(y)' = Running(y) /\ HandOf(y)' = HandOf(y)
             /\ RunningAt(y, {"clear"})' = RunningAt(y, {"clear"})
  <2>1. Running(y)' = Running(y)
    <3>1. \A d : d \in Running(y)' <=> d \in Running(y)
      BY <1>1, <1>4, <1>5
    <3> QED BY <3>1 DEF Running, RunningAt
  <2>2. HandOf(y)' = HandOf(y)
    <3>1. \A d : d \in HandOf(y)' <=> d \in HandOf(y)
      BY <1>2, <1>4, <1>5
    <3> QED BY <3>1 DEF HandOf, RunningAt
  <2>3. RunningAt(y, {"clear"})' = RunningAt(y, {"clear"})
    <3>1. \A d : d \in RunningAt(y, {"clear"})' <=> d \in RunningAt(y, {"clear"})
      BY <1>3, <1>5
    <3> QED BY <3>1 DEF RunningAt
  <2> QED BY <2>1, <2>2, <2>3
<1> QED BY <1>1, <1>2, <1>3, <1>4, <1>5

\* What runs, and what is in whose hands, when the callback of c goes on.
LEMMA TopSets ==
    ASSUME Shape, NEW c \in CPUs, NEW x, NEW a, NEW b \in Ats,
           RunsAt(c, a), Item(c) = x, SetTop(c, b)
    PROVE  /\ \A y : y # x => /\ Running(y)' = Running(y) /\ HandOf(y)' = HandOf(y)
                              /\ RunningAt(y, {"clear"})' = RunningAt(y, {"clear"})
           /\ \A d : d # c => /\ d \in Running(x)' <=> d \in Running(x)
                              /\ d \in HandOf(x)' <=> d \in HandOf(x)
                              /\ d \in RunningAt(x, {"clear"})' <=> d \in RunningAt(x, {"clear"})
           /\ c \in Running(x)' <=> b \in {"clear", "run", "requeue"}
           /\ c \in Running(x) <=> a \in {"clear", "run", "requeue"}
           /\ c \in HandOf(x)' <=> b \in {"clear", "requeue", "byhand_requeue"}
           /\ c \in HandOf(x) <=> a \in {"clear", "requeue", "byhand_requeue"}
           /\ c \in RunningAt(x, {"clear"})' <=> b = "clear"
           /\ c \in RunningAt(x, {"clear"}) <=> a = "clear"
<1>1. PICK fs \in Seq(RunFrames) :
          /\ Now(c, cwq[c].worklist, cwq[c].current_work, fs, cwq[c].thread)
          /\ Topped(cwq[c].frames, b, fs)
  BY TopMoves
<1>2. Frames(c, fs)
  BY <1>1 DEF Now, Frames
<1> QED BY <1>1, <1>2, FrameSets DEF At

\* Such a step leaves the lists as they are, in their order.
LEMMA TopLists ==
    ASSUME Shape, NEW c \in CPUs, NEW x, NEW a, NEW b \in Ats,
           RunsAt(c, a), Item(c) = x, SetTop(c, b)
    PROVE  /\ \A y : ListOf(y)' = ListOf(y)
           /\ \A d \in CPUs : cwq'[d].worklist = cwq[d].worklist
           /\ x \in Items
<1>1. /\ \E fs \in Seq(RunFrames) :
             Now(c, cwq[c].worklist, cwq[c].current_work, fs, cwq[c].thread)
      /\ \A y : ListOf(y)' = ListOf(y)
      /\ x \in Items
  BY TopMoves
<1> QED BY <1>1 DEF Now

\* run_workqueue() clears the bit before it calls the function.
LEMMA RunClear ==
    ASSUME IInv, NEW c \in CPUs, run_clear(c)
    PROVE  IInv'
<1> USE DEF IInv
<1>x. PICK x : x = Item(c)
  OBVIOUS
<1>0. /\ RunsAt(c, "clear") /\ SetTop(c, "run") /\ UNCHANGED <<call, done, hot, owed>>
      /\ "run" \in Ats /\ TypeOK /\ FALSE \in BOOLEAN
      /\ work' = IF x \in Works THEN [work EXCEPT ![x].pending = FALSE] ELSE work
  BY <1>x DEF run_clear, Ats, Shape
<1>1. /\ \A y : ListOf(y)' = ListOf(y)
      /\ \A d \in CPUs : cwq'[d].worklist = cwq[d].worklist
      /\ x \in Items
  BY <1>0, <1>x, TopLists
<1>2. /\ \A y : y # x => /\ Running(y)' = Running(y) /\ HandOf(y)' = HandOf(y)
                         /\ RunningAt(y, {"clear"})' = RunningAt(y, {"clear"})
      /\ \A d : d # c => /\ d \in Running(x)' <=> d \in Running(x)
                         /\ d \in HandOf(x)' <=> d \in HandOf(x)
                         /\ d \in RunningAt(x, {"clear"})' <=> d \in RunningAt(x, {"clear"})
      /\ c \in Running(x)' /\ c \in Running(x)
      /\ c \notin HandOf(x)' /\ c \in HandOf(x)
      /\ c \notin RunningAt(x, {"clear"})'
  BY <1>0, <1>x, TopSets
<1>3. \A y : Running(y)' = Running(y)
  <2>1. \A d : d \in Running(x)' <=> d \in Running(x)
    BY <1>2
  <2>2. Running(x)' = Running(x)
    BY <2>1 DEF Running, RunningAt
  <2> QED BY <1>2, <2>2
<1>4. ASSUME x \in Works
      PROVE  /\ Record(x, FALSE, work[x].cwq, "none")
             /\ ListOf(x) = {} /\ CallOf(x) = {} /\ HandOf(x) = {c}
  <2>1. /\ ListOf(x) = {} /\ CallOf(x) = {} /\ HandOf(x) = {c} /\ TimerOf(x) = {}
    BY <1>2, <1>4, Sole DEF Owned
  <2>2. work[x].timer = "none"
    BY <2>1 DEF TimerOf
  <2> QED BY <1>0, <1>4, <2>1, <2>2, WorkFields
<1>5. \A v \in Works : v # x => work'[v] = work[v]
  BY <1>0, <1>4 DEF Record
<1>6. Shape'
  <2>1. work' \in [Works -> WorkRec] /\ \A w \in Works : work'[w].timer = work[w].timer
    <3>1. CASE x \in Works
      <4>1. work[x].timer = "none"
        <5>1. TimerOf(x) = {}
          BY <1>2, <3>1, Sole DEF Owned
        <5> QED BY <5>1 DEF TimerOf
      <4> QED BY <1>4, <1>5, <3>1, <4>1 DEF Record
    <3>2. CASE x \notin Works
      BY <1>0, <3>2 DEF TypeOK
    <3> QED BY <3>1, <3>2
  <2>2. /\ done' \subseteq Waits
        /\ owed' \in [Clients -> SUBSET (CPUs \X Works \X {"queued", "run", "byhand"})]
    BY <1>0 DEF TypeOK
  <2> QED BY <1>0, <1>x, <2>1, <2>2, TopShape DEF ByHand
<1>7. ASSUME NEW v \in Works
      PROVE  Owner(v)' /\ KnowsCwq(v)'
  <2>1. CallOf(v)' = CallOf(v)
    BY <1>0 DEF CallOf
  <2>2. CASE v # x
    BY <1>1, <1>2, <1>5, <2>1, <2>2, SameOwner DEF Owned
  <2>3. CASE v = x
    <3>1. HandOf(x)' = {}
      <4>1. \A d : d \notin HandOf(x)'
        BY <1>2, <1>4, <2>3
      <4> QED BY <4>1
    <3>2. TimerOf(x)' = {} /\ ~work'[x].pending /\ work'[x].cwq = work[x].cwq
      BY <1>4, <2>3 DEF TimerOf, Record
    <3>3. Owner(x)'
      BY <1>1, <1>4, <2>1, <2>3, <3>1, <3>2 DEF Owner
    <3>4. RunningAt(x, {"clear"})' = {}
      BY <3>1 DEF HandOf, RunningAt
    <3>5. KnowsCwq(x)'
      BY <1>1, <1>3, <1>4, <2>3, <3>2, <3>4 DEF KnowsCwq, Owned
    <3> QED BY <2>3, <3>3, <3>5
  <2> QED BY <2>2, <2>3
<1>8. Stays(NULL) /\ \A s \in Waits : s # NULL
  BY <1>1, <1>3, Kinds DEF Stays
<1>9. /\ \A s \in Clients : s # NULL => call'[s] = call[s] /\ owed'[s] = owed[s]
      /\ done' \subseteq done /\ UNCHANGED hot
  BY <1>0
<1>10. \A s \in Clients : Cancels(s)'
  BY <1>0, <1>8, <1>9, RestStays DEF Waits
<1>11. \A s \in Clients : \A o \in owed'[s] : Owes(s, o)'
  BY <1>0, <1>8, <1>9, RestStays DEF Waits
<1>12. \A s \in Waits : Barrier(s)'
  BY <1>0, <1>8, <1>9, RestStays
<1> QED BY <1>6, <1>7, <1>10, <1>11, <1>12 DEF Owned, Flushed

\* The callback queues its own work again: it takes the bit.
LEMMA RunRequeue ==
    ASSUME IInv, NEW c \in CPUs, run_requeue(c)
    PROVE  IInv'
<1> USE DEF IInv
<1>x. PICK x \in Works : x = Item(c)
  BY DEF run_requeue
<1>a. PICK a \in {"run", "byhand"}, b \in {"requeue", "byhand_requeue"} :
          RunsAt(c, a) /\ SetTop(c, b) /\ (b = "requeue" <=> a = "run")
  BY DEF run_requeue
<1>0. /\ RunsAt(c, a) /\ SetTop(c, b) /\ UNCHANGED <<call, done, hot, owed>>
      /\ b \in Ats /\ TypeOK /\ TRUE \in BOOLEAN /\ ~work[x].pending
      /\ work' = [work EXCEPT ![x].pending = TRUE]
  BY <1>x, <1>a DEF run_requeue, Ats, ByHand, Shape
<1>1. /\ \A y : ListOf(y)' = ListOf(y)
      /\ \A d \in CPUs : cwq'[d].worklist = cwq[d].worklist
  BY <1>0, <1>x, TopLists
<1>2. /\ \A y : y # x => /\ Running(y)' = Running(y) /\ HandOf(y)' = HandOf(y)
                         /\ RunningAt(y, {"clear"})' = RunningAt(y, {"clear"})
      /\ \A d : d # c => /\ d \in Running(x)' <=> d \in Running(x)
                         /\ d \in HandOf(x)' <=> d \in HandOf(x)
                         /\ d \in RunningAt(x, {"clear"})' <=> d \in RunningAt(x, {"clear"})
      /\ c \in Running(x)' <=> c \in Running(x)
      /\ c \in HandOf(x)'
      /\ c \notin RunningAt(x, {"clear"})' /\ c \notin RunningAt(x, {"clear"})
  <2>1. /\ b \in {"clear", "run", "requeue"} <=> a \in {"clear", "run", "requeue"}
        /\ b \in {"clear", "requeue", "byhand_requeue"} /\ b # "clear" /\ a # "clear"
    BY <1>a
  <2> QED BY <1>0, <1>x, <2>1, TopSets
<1>3. \A y : Running(y)' = Running(y)
  <2>1. \A d : d \in Running(x)' <=> d \in Running(x)
    BY <1>2
  <2>2. Running(x)' = Running(x)
    BY <2>1 DEF Running, RunningAt
  <2> QED BY <1>2, <2>2
<1>4. ListOf(x) = {} /\ CallOf(x) = {} /\ HandOf(x) = {} /\ TimerOf(x) = {}
  BY <1>0, Sole DEF Owned
<1>5. Record(x, TRUE, work[x].cwq, "none") /\ work[x].timer = "none"
  <2>1. work[x].timer = "none"
    BY <1>4 DEF TimerOf
  <2> QED BY <1>0, <2>1, WorkFields
<1>6. Shape'
  <2>1. work' \in [Works -> WorkRec] /\ \A w \in Works : work'[w].timer = work[w].timer
    BY <1>5 DEF Record
  <2>2. /\ done' \subseteq Waits
        /\ owed' \in [Clients -> SUBSET (CPUs \X Works \X {"queued", "run", "byhand"})]
    BY <1>0 DEF TypeOK
  <2>3. b \in {"clear", "run", "requeue"} => a \in {"clear", "run", "requeue"}
    BY <1>a
  <2> QED BY <1>0, <1>x, <2>1, <2>2, <2>3, TopShape
<1>7. ASSUME NEW v \in Works
      PROVE  Owner(v)' /\ KnowsCwq(v)'
  <2>1. CallOf(v)' = CallOf(v)
    BY <1>0 DEF CallOf
  <2>2. CASE v # x
    <3>1. work'[v] = work[v]
      BY <1>5, <2>2 DEF Record
    <3> QED BY <1>1, <1>2, <2>1, <2>2, <3>1, SameOwner DEF Owned
  <2>3. CASE v = x
    <3>1. HandOf(x)' = {c}
      <4>1. \A d : d \in HandOf(x)' <=> d = c
        BY <1>2, <1>4
      <4> QED BY <4>1
    <3>2. TimerOf(x)' = {} /\ work'[x].pending /\ work'[x].cwq = work[x].cwq
      BY <1>5 DEF TimerOf, Record
    <3>3. Owner(x)'
      BY <1>1, <1>4, <2>1, <2>3, <3>1, <3>2 DEF Owner, Alone
    <3>4. RunningAt(x, {"clear"})' = {}
      <4>1. RunningAt(x, {"clear"}) = {}
        BY <1>4 DEF HandOf, RunningAt
      <4>2. \A d : d \notin RunningAt(x, {"clear"})'
        BY <1>2, <4>1
      <4> QED BY <4>2
    <3>5. KnowsCwq(x)'
      BY <1>1, <1>3, <1>4, <3>2, <3>4 DEF KnowsCwq, Owned
    <3> QED BY <2>3, <3>3, <3>5
  <2> QED BY <2>2, <2>3
<1>8. Stays(NULL) /\ \A s \in Waits : s # NULL
  BY <1>1, <1>3, Kinds DEF Stays
<1>9. /\ \A s \in Clients : s # NULL => call'[s] = call[s] /\ owed'[s] = owed[s]
      /\ done' \subseteq done /\ UNCHANGED hot
  BY <1>0
<1>10. \A s \in Clients : Cancels(s)'
  BY <1>0, <1>8, <1>9, RestStays DEF Waits
<1>11. \A s \in Clients : \A o \in owed'[s] : Owes(s, o)'
  BY <1>0, <1>8, <1>9, RestStays DEF Waits
<1>12. \A s \in Waits : Barrier(s)'
  BY <1>0, <1>8, <1>9, RestStays
<1> QED BY <1>6, <1>7, <1>10, <1>11, <1>12 DEF Owned, Flushed

\* A callback returns; that of a barrier completes it.
LEMMA RunFunction ==
    ASSUME IInv, NEW c \in CPUs, run_function(c)
    PROVE  IInv'
<1> USE DEF IInv
<1>x. PICK x : x = Item(c)
  OBVIOUS
<1>a. PICK a \in {"run", "byhand"} :
          /\ RunsAt(c, a)
          /\ owed' = [t \in Clients |-> owed[t] \ ({<<c, x, a>>} \
                         {<<c, f.item, f.at>> : f \in Members(Front(cwq[c].frames))})]
  BY <1>x DEF run_function
<1>o. PICK D : /\ owed' = [t \in Clients |-> owed[t] \ D]
               /\ a = "run" => <<c, x, "run">> \in D
  <2>1. PICK fs \in Seq(RunFrames) : fs = cwq[c].frames
    BY Types DEF Shape
  <2>2. fs # <<>> /\ \A i \in 1..Len(fs) : i < Len(fs) => fs[i].at = "byhand"
    BY <1>a, <2>1 DEF RunsAt, Shape, Workers, WorkerOk, FramesOk
  <2>3. PICK n \in Nat : Len(fs) = n + 1
    <3>1. Len(fs) \in Nat /\ Len(fs) # 0
      BY <2>2
    <3>2. Len(fs) - 1 \in Nat /\ Len(fs) = (Len(fs) - 1) + 1
      BY <3>1
    <3> QED BY <3>2
  <2>4. Len(fs) - 1 = n
    BY <2>3
  <2>5. Front(fs) = SubSeq(fs, 1, n)
    BY <2>4 DEF Front
  <2>6. PICK gs : gs = SubSeq(fs, 1, n)
    OBVIOUS
  <2>7. gs \in Seq(RunFrames) /\ Len(gs) = n /\ \A i \in 1..n : gs[i] = fs[i]
    BY <2>3, <2>6
  <2>8. \A i \in 1..Len(gs) : gs[i].at = "byhand"
    BY <2>2, <2>3, <2>7
  <2>9. \A f \in Members(gs) : f.at = "byhand"
    BY <2>8 DEF Members
  <2>10. PICK O : O = {<<c, f.item, f.at>> : f \in Members(gs)}
    OBVIOUS
  <2>11. <<c, x, "run">> \notin O
    <3>1. \A f \in Members(gs) : <<c, f.item, f.at>> # <<c, x, "run">>
      BY <2>9
    <3> QED BY <2>10, <3>1
  <2>12. owed' = [t \in Clients |-> owed[t] \ ({<<c, x, a>>} \ O)]
    BY <1>a, <2>1, <2>5, <2>6, <2>10
  <2>13. a = "run" => <<c, x, "run">> \in {<<c, x, a>>} \ O
    BY <2>11
  <2> QED BY <2>12, <2>13
<1>0. /\ SetTop(c, "ret") /\ UNCHANGED <<work, call, hot>> /\ "ret" \in Ats /\ TypeOK
      /\ done' = done \cup ({x} \cap Waits)
  BY <1>x DEF run_function, Ats, Shape
<1>1. /\ \A y : ListOf(y)' = ListOf(y)
      /\ \A d \in CPUs : cwq'[d].worklist = cwq[d].worklist
      /\ x \in Items
  BY <1>0, <1>x, <1>a, TopLists
<1>2. /\ \A y : y # x => /\ Running(y)' = Running(y) /\ HandOf(y)' = HandOf(y)
                         /\ RunningAt(y, {"clear"})' = RunningAt(y, {"clear"})
      /\ \A d : d # c => /\ d \in Running(x)' <=> d \in Running(x)
                         /\ d \in HandOf(x)' <=> d \in HandOf(x)
                         /\ d \in RunningAt(x, {"clear"})' <=> d \in RunningAt(x, {"clear"})
      /\ c \notin Running(x)' /\ (c \in Running(x) <=> a = "run")
      /\ c \notin HandOf(x)' /\ c \notin HandOf(x)
      /\ c \notin RunningAt(x, {"clear"})' /\ c \notin RunningAt(x, {"clear"})
  BY <1>0, <1>x, <1>a, TopSets
<1>3. \A y : /\ HandOf(y)' = HandOf(y)
             /\ RunningAt(y, {"clear"})' = RunningAt(y, {"clear"})
             /\ Running(y)' \subseteq Running(y)
  <2>1. HandOf(x)' = HandOf(x)
    <3>1. \A d : d \in HandOf(x)' <=> d \in HandOf(x)
      BY <1>2
    <3> QED BY <3>1 DEF HandOf, RunningAt
  <2>2. RunningAt(x, {"clear"})' = RunningAt(x, {"clear"})
    <3>1. \A d : d \in RunningAt(x, {"clear"})' <=> d \in RunningAt(x, {"clear"})
      BY <1>2
    <3> QED BY <3>1 DEF RunningAt
  <2>3. Running(x)' \subseteq Running(x)
    BY <1>2
  <2> QED BY <1>2, <2>1, <2>2, <2>3
<1>4. x \in Waits => /\ a = "run" /\ Running(x) = {c} /\ ListOf(x) = {} /\ c = Home(x)
                     /\ Running(x)' = {}
  <2>1. ASSUME x \in Waits
        PROVE  a = "run"
    <3>1. CASE a = "byhand"
      <4>1. PICK fs \in Seq(RunFrames) : fs = cwq[c].frames
        BY Types DEF Shape
      <4>2. fs # <<>> /\ fs[Len(fs)].at = "byhand" /\ fs[Len(fs)].item = x
        BY <1>a, <1>x, <3>1, <4>1 DEF RunsAt, Item
      <4>3. Len(fs) \in 1..Len(fs)
        BY <4>1, <4>2
      <4>4. x \in Works
        BY <4>1, <4>2, <4>3 DEF Shape, Workers, WorkerOk, FramesOk, ByHand
      <4> QED BY <2>1, <4>4, Kinds
    <3> QED BY <3>1
  <2>2. ASSUME x \in Waits
        PROVE  Running(x) = {c} /\ ListOf(x) = {} /\ c = Home(x) /\ Running(x)' = {}
    <3>1. c \in Running(x)
      BY <1>2, <2>1, <2>2
    <3>2. Barrier(x)
      BY <2>2 DEF Flushed
    <3>3. \A d \in ListOf(x) \cup Running(x) : d = c
      BY <3>1, <3>2 DEF Barrier
    <3>4. ListOf(x) = {}
      BY <3>1, <3>2, <3>3 DEF Barrier
    <3>5. \A d : d \notin Running(x)'
      BY <1>2, <3>3
    <3> QED BY <3>1, <3>2, <3>3, <3>4, <3>5 DEF Barrier
  <2> QED BY <2>1, <2>2
<1>5. Shape'
  <2>1. /\ work' \in [Works -> WorkRec] /\ \A w \in Works : work'[w].timer = work[w].timer
        /\ done' \subseteq Waits
        /\ owed' \in [Clients -> SUBSET (CPUs \X Works \X {"queued", "run", "byhand"})]
    BY <1>0, <1>o DEF TypeOK
  <2>2. Admin \in done' => Admin \in done \/ hot.cpu = c
    BY <1>0, <1>4 DEF Home
  <2> QED BY <1>0, <1>x, <1>a, <2>1, <2>2, TopShape DEF ByHand
<1>6. ASSUME NEW v \in Works
      PROVE  Owner(v)' /\ KnowsCwq(v)'
  <2>1. CallOf(v)' = CallOf(v)
    BY <1>0 DEF CallOf
  <2> QED BY <1>0, <1>1, <1>3, <2>1, SameOwner DEF Owned
<1>7. ASSUME NEW s \in Clients
      PROVE  Cancels(s)'
  <2>1. Cancels(s) /\ call'[s] = call[s] /\ ListOf(s)' = ListOf(s)
        /\ \A w : Running(w)' \subseteq Running(w)
    BY <1>0, <1>1, <1>3 DEF Owned
  <2> QED BY <2>1 DEF Cancels
<1>8. ASSUME NEW s \in Waits
      PROVE  Barrier(s)'
  <2>1. CASE s = x
    BY <1>1, <1>4, <2>1 DEF Barrier
  <2>2. CASE s # x
    <3>1. ListOf(s)' = ListOf(s) /\ Running(s)' = Running(s) /\ (s \in done' <=> s \in done)
      BY <1>0, <1>1, <1>2, <2>2
    <3>2. Awaits(s)' = Awaits(s) /\ Home(s)' = Home(s)
      BY <1>0 DEF Awaits, Home
    <3> QED BY <3>1, <3>2 DEF Barrier, Flushed
  <2> QED BY <2>1, <2>2
<1>9. ASSUME NEW s \in Clients, NEW o \in owed'[s]
      PROVE  Owes(s, o)'
  <2>1. o \in owed[s] /\ (a = "run" => o # <<c, x, "run">>)
        /\ o \in CPUs \X Works \X {"queued", "run", "byhand"}
    BY <1>0, <1>o, <1>9 DEF TypeOK
  <2>2. Owes(s, o) /\ call'[s] = call[s]
    BY <1>0, <2>1 DEF Flushed
  <2>3. o[3] = "run" => o[1] \in Running(o[2])'
    <3>1. ASSUME o[3] = "run"
          PROVE  o[1] \in Running(o[2])'
      <4>1. o[1] \in Running(o[2])
        BY <2>1, <2>2, <3>1 DEF Owes
      <4>2. o[1] # c \/ o[2] # x
        <5>1. o = <<o[1], o[2], o[3]>>
          BY <2>1
        <5> QED BY <1>2, <2>1, <3>1, <4>1, <5>1
      <4> QED BY <1>2, <4>1, <4>2
    <3> QED BY <3>1
  <2>4. cwq'[o[1]].worklist = cwq[o[1]].worklist
    BY <1>1, <2>1
  <2>5. o[3] \in {"queued", "run", "byhand"}
    BY <2>1
  <2> QED BY <1>1, <2>2, <2>3, <2>4, <2>5 DEF Owes
<1> QED BY <1>5, <1>6, <1>7, <1>8, <1>9 DEF Owned, Flushed

------------------------------------------------------------------------------
\* A callback queues its work, on the list of n.
Requeued(c, fs, n, q, b) ==
    cwq' = [cwq EXCEPT ![c].frames = fs, ![n].worklist = q, ![n].awake = b]

\* What the insertion of a requeued work changes of the workers.
LEMMA RequeueFields ==
    ASSUME TypeOK, NEW c \in CPUs, NEW n \in CPUs, NEW fs \in Seq(RunFrames), NEW q \in Seq(Items),
           NEW b \in BOOLEAN, Requeued(c, fs, n, q, b)
    PROVE  /\ cwq' \in [CPUs -> CwqRec]
           /\ \A d \in CPUs : /\ cwq'[d].thread = cwq[d].thread /\ cwq'[d].stop = cwq[d].stop
                              /\ cwq'[d].current_work = cwq[d].current_work
                              /\ d # c => cwq'[d].frames = cwq[d].frames
                              /\ d # n => cwq'[d].worklist = cwq[d].worklist
           /\ cwq'[c].frames = fs /\ cwq'[n].worklist = q
<1>0. cwq \in [CPUs -> CwqRec]
  BY Types
<1>1. ASSUME NEW r \in CwqRec
      PROVE  /\ [r EXCEPT !.worklist = q] \in CwqRec /\ [r EXCEPT !.frames = fs] \in CwqRec
             /\ [r EXCEPT !.awake = b] \in CwqRec
  BY <1>0 DEF CwqRec
<1>2. PICK f \in [CPUs -> CwqRec] :
          f = [cwq EXCEPT ![c] = [cwq[c] EXCEPT !.frames = fs]]
  BY <1>0, <1>1
<1>3. PICK g \in [CPUs -> CwqRec] :
          g = [f EXCEPT ![n] = [f[n] EXCEPT !.worklist = q]]
  BY <1>1
<1>4. PICK h \in [CPUs -> CwqRec] :
          h = [g EXCEPT ![n] = [g[n] EXCEPT !.awake = b]]
  BY <1>1
<1>5. cwq' = h
  <2>1. f = [cwq EXCEPT ![c].frames = fs]
    BY <1>0, <1>2
  <2>2. g = [f EXCEPT ![n].worklist = q]
    BY <1>2, <1>3
  <2>3. h = [g EXCEPT ![n].awake = b]
    BY <1>3, <1>4
  <2> QED BY <1>0, <2>1, <2>2, <2>3 DEF Requeued
<1>6. /\ \A d \in CPUs : /\ f[d].thread = cwq[d].thread /\ f[d].stop = cwq[d].stop
                         /\ f[d].current_work = cwq[d].current_work
                         /\ f[d].worklist = cwq[d].worklist
                         /\ d # c => f[d].frames = cwq[d].frames
      /\ f[c].frames = fs
  <2>1. f[c] = [cwq[c] EXCEPT !.frames = fs] /\ cwq[c] \in CwqRec /\ \A d \in CPUs : d # c => f[d] = cwq[d]
    BY <1>0, <1>2
  <2> QED BY <2>1 DEF CwqRec
<1>7. /\ \A d \in CPUs : /\ g[d].thread = f[d].thread /\ g[d].stop = f[d].stop
                         /\ g[d].current_work = f[d].current_work
                         /\ d # n => g[d].worklist = f[d].worklist
                         /\ g[d].frames = f[d].frames
      /\ g[n].worklist = q
  <2>1. g[n] = [f[n] EXCEPT !.worklist = q] /\ f[n] \in CwqRec /\ \A d \in CPUs : d # n => g[d] = f[d]
    BY <1>2, <1>3
  <2>2. /\ g[n].thread = f[n].thread /\ g[n].stop = f[n].stop
        /\ g[n].current_work = f[n].current_work /\ g[n].frames = f[n].frames
        /\ g[n].worklist = q
    BY <2>1 DEF CwqRec
  <2> QED BY <2>1, <2>2
<1>8. \A d \in CPUs : /\ h[d].thread = g[d].thread /\ h[d].stop = g[d].stop
                      /\ h[d].current_work = g[d].current_work
                      /\ h[d].worklist = g[d].worklist
                      /\ h[d].frames = g[d].frames
  <2>1. h[n] = [g[n] EXCEPT !.awake = b] /\ g[n] \in CwqRec /\ \A d \in CPUs : d # n => h[d] = g[d]
    BY <1>3, <1>4
  <2>2. /\ h[n].thread = g[n].thread /\ h[n].stop = g[n].stop /\ h[n].worklist = g[n].worklist
        /\ h[n].current_work = g[n].current_work /\ h[n].frames = g[n].frames
    BY <2>1 DEF CwqRec
  <2> QED BY <2>1, <2>2
<1>9. ASSUME NEW d \in CPUs
      PROVE  /\ h[d].thread = cwq[d].thread /\ h[d].stop = cwq[d].stop
             /\ h[d].current_work = cwq[d].current_work
             /\ d # c => h[d].frames = cwq[d].frames
             /\ d # n => h[d].worklist = cwq[d].worklist
  BY <1>6, <1>7, <1>8
<1>10. h[c].frames = fs /\ h[n].worklist = q
  BY <1>6, <1>7, <1>8
<1> QED BY <1>5, <1>9, <1>10

\* __queue_work() in the callback: the bit passes from its hands to the list.
LEMMA RunRequeueInsert ==
    ASSUME IInv, NEW c \in CPUs, run_requeue_insert(c)
    PROVE  IInv'
<1> USE DEF IInv
<1>f. PICK gs \in Seq(RunFrames) : gs = cwq[c].frames
  BY Types DEF Shape
<1>a. PICK a \in {"requeue", "byhand_requeue"} : RunsAt(c, a)
  BY DEF run_requeue_insert
<1>e. PICK e \in {"run", "byhand"} : e = IF a = "requeue" THEN "run" ELSE "byhand"
  OBVIOUS
<1>g. PICK fs : fs = [gs EXCEPT ![Len(gs)].at = e]
  OBVIOUS
<1>x. PICK x \in Works : x = Item(c) /\ RunsAt(c, a)
  <2>1. gs # <<>> /\ gs[Len(gs)].at = a /\ gs[Len(gs)].item = Item(c)
    BY <1>f, <1>a DEF RunsAt, Item
  <2>2. Len(gs) \in 1..Len(gs)
    BY <2>1
  <2>3. Item(c) \in Works
    BY <1>f, <1>a, <2>1, <2>2 DEF Shape, Workers, WorkerOk, FramesOk, ByHand
  <2> QED BY <1>a, <2>3
<1>t. gs # <<>> /\ cwq[c].thread = "busy"
  BY <1>f, <1>x DEF RunsAt, Shape, Workers, WorkerOk
<1>d. PICK d \in hot.online :
          /\ d = c \/ c \notin hot.online \/ hot.single
          /\ cwq' = [cwq EXCEPT ![c].frames[Len(cwq[c].frames)].at =
                                     IF @ = "requeue" THEN "run" ELSE "byhand",
                        ![wq_per_cpu(d)].worklist = list_add_tail(@, Item(c)),
                        ![wq_per_cpu(d)].awake = @ \/ cwq[wq_per_cpu(d)].thread \in {"check", "sleep"}]
          /\ work' = [work EXCEPT ![Item(c)].cwq = wq_per_cpu(d)]
  BY DEF run_requeue_insert
<1>n. PICK n \in CPUs : n = wq_per_cpu(d)
  BY PerCpu, Types DEF Shape
<1>l. n = c \/ ~Quiescing(n)
  <2>0. c \in wq_cpu_map
    BY <1>t DEF Shape, Hotplug, ThreadOk
  <2>1. CASE hot.single
    BY <1>n, <2>0, <2>1 DEF wq_per_cpu, wq_cpu_map
  <2>2. CASE ~hot.single
    <3>1. CASE d = c
      BY <1>n, <2>2, <3>1 DEF wq_per_cpu
    <3>2. CASE d # c
      <4>1. c \in hot.populated \ hot.online
        BY <1>d, <2>0, <2>2, <3>2 DEF wq_cpu_map
      <4>2. hot.todo = {} /\ hot.at # "destroyed"
        BY <4>1 DEF Shape, Hotplug, MapsOk
      <4> QED BY <1>n, <4>2, LiveWorker
    <3> QED BY <3>1, <3>2
  <2> QED BY <2>1, <2>2
<1>q. PICK q : q = list_add_tail(cwq[n].worklist, x)
  OBVIOUS
<1>b. PICK b \in BOOLEAN : b = (cwq[n].awake \/ cwq[n].thread \in {"check", "sleep"})
  OBVIOUS
<1>0. /\ UNCHANGED <<call, done, hot, owed>> /\ TypeOK /\ x \in Items /\ x \notin Waits
      /\ work' = [work EXCEPT ![x].cwq = n] /\ e \in Ats
  BY <1>x, <1>d, <1>n, Kinds DEF run_requeue_insert, Shape, Ats, ByHand
<1>1. Topped(gs, e, fs) /\ fs \in Seq(RunFrames)
  BY <1>0, <1>g, <1>t, ToppedIs DEF Topped
<1>2. Placed(n, x, q) /\ q \in Seq(Items)
  BY <1>0, <1>q, PlacedAt DEF Placed
<1>3. Requeued(c, fs, n, q, b)
  <2>1. cwq \in [CPUs -> CwqRec]
    BY <1>0, Types
  <2>2. PICK f : f = [cwq EXCEPT ![c].frames = fs]
    OBVIOUS
  <2>0. cwq[c].frames[Len(cwq[c].frames)].at = a
    BY <1>x DEF RunsAt
  <2>3. f = [cwq EXCEPT ![c].frames[Len(cwq[c].frames)].at =
                            IF @ = "requeue" THEN "run" ELSE "byhand"]
    BY <1>f, <1>g, <1>e, <2>0, <2>1, <2>2
  <2>4. cwq' = [f EXCEPT ![n].worklist = list_add_tail(@, x),
                         ![n].awake = @ \/ cwq[n].thread \in {"check", "sleep"}]
    BY <1>d, <1>n, <1>x, <2>1, <2>3
  <2>5. f[n].worklist = cwq[n].worklist /\ f[n].awake = cwq[n].awake
    BY <2>1, <2>2 DEF CwqRec
  <2>6. [f EXCEPT ![n].worklist = q, ![n].awake = b]
          = [f EXCEPT ![n].worklist = list_add_tail(@, x),
                      ![n].awake = @ \/ cwq[n].thread \in {"check", "sleep"}]
    BY <1>b, <1>q, <2>5
  <2> QED BY <2>2, <2>4, <2>6 DEF Requeued
<1>4. /\ cwq' \in [CPUs -> CwqRec]
      /\ \A k \in CPUs : /\ cwq'[k].thread = cwq[k].thread /\ cwq'[k].stop = cwq[k].stop
                         /\ cwq'[k].current_work = cwq[k].current_work
                         /\ k # c => cwq'[k].frames = cwq[k].frames
                         /\ k # n => cwq'[k].worklist = cwq[k].worklist
      /\ cwq'[c].frames = fs /\ cwq'[n].worklist = q
  BY <1>0, <1>1, <1>2, <1>3, RequeueFields
<1>5. /\ \A y : y # x => /\ Running(y)' = Running(y) /\ HandOf(y)' = HandOf(y)
                         /\ RunningAt(y, {"clear"})' = RunningAt(y, {"clear"})
      /\ \A k : k # c => /\ k \in Running(x)' <=> k \in Running(x)
                         /\ k \in HandOf(x)' <=> k \in HandOf(x)
                         /\ k \in RunningAt(x, {"clear"})' <=> k \in RunningAt(x, {"clear"})
      /\ c \in Running(x)' <=> c \in Running(x)
      /\ c \notin HandOf(x)' /\ c \in HandOf(x)
      /\ c \notin RunningAt(x, {"clear"})' /\ c \notin RunningAt(x, {"clear"})
  <2>1. Frames(c, fs)
    BY <1>4 DEF Frames
  <2>2. At(c, x, a)
    BY <1>x DEF At
  <2>3. Topped(cwq[c].frames, e, fs)
    BY <1>1, <1>f
  <2>4. /\ \A y : y # x => /\ Running(y)' = Running(y) /\ HandOf(y)' = HandOf(y)
                           /\ RunningAt(y, {"clear"})' = RunningAt(y, {"clear"})
        /\ \A k : k # c => /\ k \in Running(x)' <=> k \in Running(x)
                           /\ k \in HandOf(x)' <=> k \in HandOf(x)
                           /\ k \in RunningAt(x, {"clear"})' <=> k \in RunningAt(x, {"clear"})
        /\ c \in Running(x)' <=> e \in {"clear", "run", "requeue"}
        /\ c \in Running(x) <=> a \in {"clear", "run", "requeue"}
        /\ c \in HandOf(x)' <=> e \in {"clear", "requeue", "byhand_requeue"}
        /\ c \in HandOf(x) <=> a \in {"clear", "requeue", "byhand_requeue"}
        /\ c \in RunningAt(x, {"clear"})' <=> e = "clear"
        /\ c \in RunningAt(x, {"clear"}) <=> a = "clear"
    BY <2>1, <2>2, <2>3, FrameSets
  <2>5. /\ e \in {"clear", "run", "requeue"} <=> a \in {"clear", "run", "requeue"}
        /\ e \notin {"clear", "requeue", "byhand_requeue"} /\ a \in {"clear", "requeue", "byhand_requeue"}
        /\ e # "clear" /\ a # "clear"
    BY <1>e
  <2> QED BY <2>4, <2>5
<1>6. \A y : Running(y)' = Running(y)
  <2>1. \A k : k \in Running(x)' <=> k \in Running(x)
    BY <1>5
  <2>2. Running(x)' = Running(x)
    BY <2>1 DEF Running, RunningAt
  <2> QED BY <1>5, <2>2
<1>7. ListOf(x) = {} /\ CallOf(x) = {} /\ HandOf(x) = {c} /\ TimerOf(x) = {} /\ work[x].pending
  BY <1>5, Sole DEF Owned
<1>8. Record(x, TRUE, n, "none") /\ work[x].timer = "none"
  <2>1. work[x].timer = "none"
    BY <1>7 DEF TimerOf
  <2>2. work[x].pending = TRUE
    BY <1>0, <1>7, Types DEF WorkRec
  <2> QED BY <1>0, <2>1, <2>2, WorkFields
<1>9. \A y : y # x => ListOf(y)' = ListOf(y)
  BY <1>2, <1>4 DEF Placed, ListOf
<1>10. ListOf(x)' = {n}
  <2>1. \A k \in CPUs : x \notin Members(cwq[k].worklist)
    BY <1>7 DEF ListOf
  <2>2. x \in Members(q)
    BY <1>2 DEF Placed
  <2> QED BY <1>4, <2>1, <2>2 DEF ListOf
<1>11. Stays(x) /\ \A s \in Waits : s # x
  <2>1. ASSUME NEW k \in CPUs, NEW y, NEW z, Before(cwq[k].worklist, y, z)
        PROVE  Before(cwq'[k].worklist, y, z)
    BY <1>2, <1>4, <2>1 DEF Placed
  <2> QED BY <1>0, <1>6, <1>7, <1>9, <2>1 DEF Stays
<1>12. Shape'
  <2>1. TypeOK'
    BY <1>0, <1>4, <1>8 DEF TypeOK, Record
  <2>2. FramesOk(fs, cwq[c].current_work)
    <3>0. FramesOk(gs, cwq[c].current_work)
      BY <1>f DEF Shape, Workers, WorkerOk
    <3>1. Len(fs) = Len(gs) /\ Len(gs) \in 1..Len(gs)
      BY <1>1, <1>t DEF Topped
    <3>2. gs[Len(gs)].at = a /\ gs[Len(gs)].item = x
      BY <1>f, <1>x DEF RunsAt, Item
    <3>3. fs[Len(gs)].at = e /\ fs[Len(gs)].item = x /\ fs # <<>>
      BY <1>1, <3>2 DEF Topped
    <3>4. \A i \in 1..Len(gs) : i # Len(gs) => i < Len(gs) /\ fs[i] = gs[i]
      BY <1>1, <1>t DEF Topped
    <3>5. e \in {"clear", "run", "requeue"} => cwq[c].current_work = x
      BY <1>e, <3>0, <3>1, <3>2 DEF FramesOk
    <3> QED BY <3>0, <3>1, <3>3, <3>4, <3>5 DEF FramesOk
  <2>3. ASSUME NEW k \in CPUs
        PROVE  WorkerOk(k)'
    <3>1. WorkerOk(k)
      BY DEF Shape, Workers
    <3>2. NoDup(cwq'[k].worklist)
      <4>1. x \notin Members(cwq[k].worklist)
        BY <1>7 DEF ListOf
      <4> QED BY <1>2, <1>4, <3>1, <4>1 DEF WorkerOk, Placed
    <3>3. fs # <<>>
      BY <1>1 DEF Topped
    <3>4. CASE k = c
      BY <1>4, <1>t, <2>2, <3>2, <3>3, <3>4 DEF WorkerOk
    <3>5. CASE k # c
      BY <1>4, <3>1, <3>2, <3>5 DEF WorkerOk
    <3> QED BY <3>4, <3>5
  <2>4. ASSUME NEW k \in CPUs
        PROVE  ThreadOk(k, cwq'[k].thread, cwq'[k].stop) /\ Quiesced(k)'
    <3>1. ThreadOk(k, cwq[k].thread, cwq[k].stop) /\ Quiesced(k)
      BY DEF Shape, Hotplug
    <3>2. Quiescing(k)' <=> Quiescing(k)
      BY <1>0, <1>4 DEF Quiescing
    <3>3. k = n => cwq[k].thread = "busy" \/ ~Quiescing(k)
      BY <1>l, <1>t
    <3> QED BY <1>4, <3>1, <3>2, <3>3 DEF Quiesced
  <2>5. hot.todo # {} \/ hot.at = "destroyed" => \A w \in Works : work'[w].timer = "none"
    BY <1>8 DEF Shape, Hotplug, NoUsers, Record
  <2> QED BY <1>0, <2>1, <2>3, <2>4, <2>5, SteadyShape DEF Workers
<1>13. ASSUME NEW v \in Works
       PROVE  Owner(v)' /\ KnowsCwq(v)'
  <2>1. CallOf(v)' = CallOf(v)
    BY <1>0 DEF CallOf
  <2>2. CASE v # x
    <3>1. work'[v] = work[v]
      BY <1>8, <2>2 DEF Record
    <3> QED BY <1>5, <1>9, <2>1, <2>2, <3>1, SameOwner DEF Owned
  <2>3. CASE v = x
    <3>1. HandOf(x)' = {}
      <4>1. \A k : k \notin HandOf(x)'
        BY <1>5, <1>7
      <4> QED BY <4>1
    <3>2. TimerOf(x)' = {} /\ work'[x].pending /\ work'[x].cwq = n /\ n # 0
      BY <1>8 DEF TimerOf, Record, CPUs
    <3>3. Owner(x)'
      BY <1>7, <1>10, <2>1, <2>3, <3>1, <3>2 DEF Owner, Alone
    <3>4. RunningAt(x, {"clear"})' = {}
      BY <3>1 DEF HandOf, RunningAt
    <3>5. KnowsCwq(x)'
      BY <1>10, <3>2, <3>4 DEF KnowsCwq
    <3> QED BY <2>3, <3>3, <3>5
  <2> QED BY <2>2, <2>3
<1>14. /\ \A s \in Clients : s # NULL => call'[s] = call[s] /\ owed'[s] = owed[s]
       /\ done' \subseteq done /\ UNCHANGED hot /\ \A s \in Waits : s # NULL
  BY <1>0, Kinds
<1>15. \A s \in Clients : Cancels(s)'
  BY <1>0, <1>11, <1>14, RestStays DEF Waits
<1>16. \A s \in Clients : \A o \in owed'[s] : Owes(s, o)'
  BY <1>0, <1>11, <1>14, RestStays DEF Waits
<1>17. \A s \in Waits : Barrier(s)'
  BY <1>0, <1>11, <1>14, RestStays
<1> QED BY <1>12, <1>13, <1>15, <1>16, <1>17 DEF Owned, Flushed

------------------------------------------------------------------------------
\* The invocations of run_workqueue() that the one on c is nested in, and that
\* nothing else runs there when it takes the next item.
AllByHand(fs) == \A i \in 1..Len(fs) : fs[i].at = "byhand" /\ fs[i].item \in Works
Inside(c, fs) ==
    /\ fs \in Seq(RunFrames) /\ AllByHand(fs)
    /\ cwq[c].thread = "busy" \/ (cwq[c].thread = "entry" /\ fs = <<>>)
    /\ \A y : /\ c \notin HandOf(y) /\ c \notin RunningAt(y, {"clear"})
              /\ c \in Running(y) => y \in Works /\ cwq[c].worklist # <<>>

\* One more invocation.
Nested(fs, x, gs) ==
    /\ gs \in Seq(RunFrames) /\ gs # <<>> /\ Len(gs) = Len(fs) + 1
    /\ \A i \in 1..Len(fs) : gs[i] = fs[i]
    /\ gs[Len(gs)].item = x /\ gs[Len(gs)].at = "clear"

\* A new frame on top of the others is one more invocation.
LEMMA NestedIs ==
    ASSUME NEW fs \in Seq(RunFrames), NEW x \in Items
    PROVE  Nested(fs, x, Append(fs, [item |-> x, at |-> "clear"]))
<1>1. PICK f : f = [item |-> x, at |-> "clear"]
  OBVIOUS
<1>2. f \in RunFrames /\ f.item = x /\ f.at = "clear"
  BY <1>1 DEF RunFrames
<1>3. PICK gs : gs = Append(fs, f)
  OBVIOUS
<1>4. /\ gs \in Seq(RunFrames) /\ gs # <<>> /\ Len(gs) = Len(fs) + 1
      /\ \A i \in 1..Len(fs) : gs[i] = fs[i]
      /\ gs[Len(gs)] = f
  BY <1>2, <1>3
<1> QED BY <1>1, <1>2, <1>3, <1>4 DEF Nested

\* If nothing is queued, run_workqueue() returns into the next invocation.
LEMMA RunNextReturns ==
    ASSUME IInv, NEW c \in CPUs, NEW fs, Inside(c, fs), run_next(c, fs),
           cwq[c].worklist = <<>>
    PROVE  IInv'
<1> USE DEF IInv
<1>1. PICK th \in {"prepare", "busy"} : th = IF fs = <<>> THEN "prepare" ELSE "busy"
  OBVIOUS
<1>0. /\ UNCHANGED <<work, call, done, hot, owed>> /\ TypeOK /\ fs \in Seq(RunFrames)
      /\ cwq' = [cwq EXCEPT ![c].current_work = NULL, ![c].frames = fs, ![c].thread = th]
  BY <1>1 DEF run_next, Shape, Inside
<1>2. Now(c, cwq[c].worklist, NULL, fs, th)
  <2>1. th \in Threads
    BY DEF Threads
  <2> QED BY <1>0, <2>1, WorkerFields
<1>3. /\ \A d \in CPUs : /\ cwq'[d].worklist = cwq[d].worklist /\ cwq'[d].stop = cwq[d].stop
                         /\ d # c => /\ cwq'[d].frames = cwq[d].frames
                                     /\ cwq'[d].current_work = cwq[d].current_work
                                     /\ cwq'[d].thread = cwq[d].thread
      /\ cwq'[c].frames = fs /\ cwq'[c].thread = th /\ cwq'[c].current_work = NULL
  BY <1>2 DEF Now
<1>4. ASSUME NEW P, "byhand" \notin P, \A y : c \notin RunningAt(y, P)
      PROVE  \A y : RunningAt(y, P)' = RunningAt(y, P)
  <2>1. \A y : ~Runs(fs, y, P)
    <3>1. \A i \in 1..Len(fs) : i < Len(fs) => fs[i].at = "byhand"
      BY DEF Inside, AllByHand
    <3>2. fs # <<>> => Len(fs) \in 1..Len(fs)
      BY <1>0
    <3>3. fs # <<>> => fs[Len(fs)].at \notin P
      BY <1>4, <3>2 DEF Inside, AllByHand
    <3> QED BY <1>0, <1>4, <3>1, <3>3, RunsTop
  <2>2. \A y : \A d : d \in RunningAt(y, P)' <=> d \in RunningAt(y, P)
    BY <1>3, <1>4, <2>1, OthersRun
  <2> QED BY <2>2 DEF RunningAt
<1>5. /\ \A y : ListOf(y)' = ListOf(y)
      /\ \A y : /\ RunningAt(y, {"clear"})' = RunningAt(y, {"clear"})
                /\ HandOf(y)' = HandOf(y) /\ Running(y)' = Running(y)
                /\ CallOf(y)' = CallOf(y)
  <2>1. /\ \A y : c \notin RunningAt(y, {"clear"})
        /\ \A y : c \notin RunningAt(y, {"clear", "requeue", "byhand_requeue"})
        /\ \A y : c \notin RunningAt(y, {"clear", "run", "requeue"})
    BY DEF Inside, HandOf, Running
  <2>2. \A y : RunningAt(y, {"clear"})' = RunningAt(y, {"clear"})
    <3>1. PICK P : P = {"clear"}
      OBVIOUS
    <3>2. "byhand" \notin P
      BY <3>1
    <3> QED BY <1>4, <2>1, <3>1, <3>2
  <2>3. \A y : RunningAt(y, {"clear", "requeue", "byhand_requeue"})'
      = RunningAt(y, {"clear", "requeue", "byhand_requeue"})
    <3>1. PICK P : P = {"clear", "requeue", "byhand_requeue"}
      OBVIOUS
    <3>2. "byhand" \notin P
      BY <3>1
    <3> QED BY <1>4, <2>1, <3>1, <3>2
  <2>4. \A y : RunningAt(y, {"clear", "run", "requeue"})' = RunningAt(y, {"clear", "run", "requeue"})
    <3>1. PICK P : P = {"clear", "run", "requeue"}
      OBVIOUS
    <3>2. "byhand" \notin P
      BY <3>1
    <3> QED BY <1>4, <2>1, <3>1, <3>2
  <2>5. \A y : ListOf(y)' = ListOf(y) /\ CallOf(y)' = CallOf(y)
    BY <1>0, <1>3 DEF ListOf, CallOf
  <2> QED BY <2>2, <2>3, <2>4, <2>5 DEF HandOf, Running
<1>6. Owned' /\ Flushed'
  <2>1. \A v \in Works : Owner(v)' /\ KnowsCwq(v)'
    BY <1>0, <1>5, SameOwner DEF Owned
  <2>2. Keeps(NULL) /\ \A s \in Waits : s # NULL
    BY <1>3, <1>5, Kinds DEF Keeps
  <2>3. /\ \A s \in Clients : s # NULL => call'[s] = call[s] /\ owed'[s] = owed[s]
        /\ done' \subseteq done /\ UNCHANGED hot /\ TypeOK
    BY <1>0
  <2>4. \A s \in Clients : Cancels(s)'
    BY <2>2, <2>3, OthersStay DEF Waits
  <2>5. \A s \in Clients : \A o \in owed'[s] : Owes(s, o)'
    BY <2>2, <2>3, OthersStay DEF Waits
  <2>6. \A s \in Waits : Barrier(s)'
    BY <2>2, <2>3, OthersStay
  <2> QED BY <2>1, <2>4, <2>5, <2>6 DEF Owned, Flushed
<1>7. Shape'
  <2>1. TypeOK'
    BY <1>0, <1>2 DEF TypeOK, Now
  <2>2. FramesOk(fs, NULL)
    BY DEF Inside, AllByHand, ByHand, FramesOk
  <2>3. ASSUME NEW d \in CPUs
        PROVE  WorkerOk(d)'
    <3>1. WorkerOk(d)
      BY DEF Shape, Workers
    <3>2. CASE d = c
      BY <1>1, <1>3, <2>2, <3>1, <3>2 DEF WorkerOk
    <3>3. CASE d # c
      BY <1>3, <3>1, <3>3 DEF WorkerOk
    <3> QED BY <3>2, <3>3
  <2>4. ThreadOk(c, th, cwq[c].stop)
    BY ThreadGoesOn DEF Inside
  <2>5. ASSUME NEW k \in CPUs
        PROVE  ThreadOk(k, cwq'[k].thread, cwq'[k].stop) /\ Quiesced(k)'
    <3>1. ThreadOk(k, cwq[k].thread, cwq[k].stop) /\ Quiesced(k)
      BY DEF Shape, Hotplug
    <3>2. CASE k = c
      BY <1>3, <2>4, <3>2 DEF Quiesced
    <3>3. CASE k # c
      <4>1. Quiescing(k)' => Quiescing(k)
        BY <1>0, <1>3, <3>3 DEF Quiescing
      <4> QED BY <1>3, <3>1, <3>3, <4>1 DEF Quiesced
    <3> QED BY <3>2, <3>3
  <2>6. hot.todo # {} \/ hot.at = "destroyed" => \A w \in Works : work'[w].timer = "none"
    BY <1>0 DEF Shape, Hotplug, NoUsers
  <2> QED BY <1>0, <2>1, <2>3, <2>5, <2>6, SteadyShape DEF Workers
<1> QED BY <1>6, <1>7

\* What becomes of one entry of the flushes' history when the item is taken.
LEMMA TakenIs ==
    ASSUME NEW c, NEW x, NEW p, NEW o, o = Taken(c, x, p)
    PROVE  \/ p = <<c, x, "queued">> /\ o = <<c, x, "run">>
           \/ /\ p # <<c, x, "queued">>
              /\ \/ p[1] = c /\ p[3] = "run" /\ o = <<c, p[2], "byhand">>
                 \/ ~(p[1] = c /\ p[3] = "run") /\ o = p
<1>1. p = <<c, x, "queued">> => ~(p[1] = c /\ p[3] = "run")
  OBVIOUS
<1> QED BY <1>1 DEF Taken

\* What is owed then.
History(c, x) == owed' = [t \in Clients |-> {Taken(c, x, o) : o \in owed[t]}]

\* Otherwise the next item is taken off the list.
Takes(c, fs, x, gs) == /\ x = Head(cwq[c].worklist) /\ Nested(fs, x, gs)
                       /\ Now(c, Tail(cwq[c].worklist), x, gs, "busy")

\* run_workqueue() takes the first entry and makes it its current_work.
LEMMA NextItem ==
    ASSUME IInv, NEW c \in CPUs, NEW fs, Inside(c, fs), run_next(c, fs),
           cwq[c].worklist # <<>>
    PROVE  \E x \in Items, gs \in Seq(RunFrames) : Takes(c, fs, x, gs) /\ History(c, x)
<1> USE DEF IInv
<1>q. PICK q \in Seq(Items) : q = cwq[c].worklist
  BY Types DEF Shape
<1>1. q # <<>> /\ NoDup(q) /\ fs \in Seq(RunFrames)
  BY <1>q DEF Shape, Workers, WorkerOk, Inside
<1>2. PICK x \in Items : x = Head(q)
  BY <1>1
<1>3. PICK r \in Seq(Items) : r = Tail(q)
  BY <1>1, TailMembers
<1>4. PICK gs \in Seq(RunFrames) : gs = Append(fs, [item |-> x, at |-> "clear"]) /\ Nested(fs, x, gs)
  BY <1>1, <1>2, NestedIs DEF Nested
<1>5. cwq' = [cwq EXCEPT ![c].worklist = Tail(@), ![c].current_work = x,
                         ![c].frames = Append(fs, [item |-> x, at |-> "clear"]), ![c].thread = "busy"]
  BY <1>q, <1>1, <1>2 DEF run_next
<1>6. History(c, x)
  BY <1>q, <1>1, <1>2 DEF run_next, History
<1>7. cwq' = [cwq EXCEPT ![c].worklist = r, ![c].current_work = x,
                         ![c].frames = gs, ![c].thread = "busy"]
  BY <1>q, <1>3, <1>4, <1>5
<1>8. "busy" \in Threads
  BY DEF Threads
<1>9. Now(c, r, x, gs, "busy")
  BY <1>2, <1>3, <1>4, <1>7, <1>8, WorkerFields DEF Shape
<1> QED BY <1>q, <1>2, <1>3, <1>4, <1>6, <1>9 DEF Takes

\* Where everything is then.
LEMMA NextSets ==
    ASSUME IInv, NEW c \in CPUs, NEW fs, Inside(c, fs), cwq[c].worklist # <<>>,
           NEW x, NEW gs, Takes(c, fs, x, gs)
    PROVE  /\ \A y : y # x => ListOf(y)' = ListOf(y)
           /\ c \in ListOf(x) /\ ListOf(x)' = ListOf(x) \ {c}
           /\ \A y : y # x => /\ HandOf(y)' = HandOf(y) /\ Running(y)' = Running(y) \ {c}
                              /\ RunningAt(y, {"clear"})' = RunningAt(y, {"clear"})
           /\ HandOf(x)' = HandOf(x) \cup {c} /\ Running(x)' = Running(x) \cup {c}
           /\ RunningAt(x, {"clear"})' = RunningAt(x, {"clear"}) \cup {c}
<1> USE DEF IInv, Takes
<1>q. PICK q \in Seq(Items) : q = cwq[c].worklist
  BY Types DEF Shape
<1>1. /\ q # <<>> /\ NoDup(q) /\ x = Head(q)
      /\ \A d \in CPUs : d # c => cwq'[d] = cwq[d]
      /\ cwq'[c].worklist = Tail(q) /\ cwq'[c].frames = gs
  BY <1>q DEF Shape, Workers, WorkerOk, Now
<1>2. x \in Members(q) /\ Members(Tail(q)) = Members(q) \ {x}
  BY <1>1, TailMembers
<1>3. ASSUME NEW y
      PROVE  /\ y # x => ListOf(y)' = ListOf(y)
             /\ c \in ListOf(x) /\ ListOf(x)' = ListOf(x) \ {c}
  <2>1. \A d : d # c => (d \in ListOf(y)' <=> d \in ListOf(y)) /\ (d \in ListOf(x)' <=> d \in ListOf(x))
    BY <1>1 DEF ListOf
  <2>2. c \in ListOf(x) /\ c \notin ListOf(x)' /\ (y # x => (c \in ListOf(y)' <=> c \in ListOf(y)))
    BY <1>q, <1>1, <1>2 DEF ListOf
  <2>3. y # x => \A d : d \in ListOf(y)' <=> d \in ListOf(y)
    BY <2>1, <2>2
  <2>4. \A d : d \in ListOf(x)' <=> d \in ListOf(x) /\ d # c
    BY <2>1, <2>2
  <2> QED BY <2>2, <2>3, <2>4 DEF ListOf
<1>4. ASSUME NEW P, "byhand" \notin P, "clear" \in P
      PROVE  /\ \A y : \A d : d # c => (d \in RunningAt(y, P)' <=> d \in RunningAt(y, P))
             /\ \A y : c \in RunningAt(y, P)' <=> y = x
  <2>1. \A y : Runs(gs, y, P) <=> y = x
    <3>1. gs \in Seq(RunFrames) /\ gs # <<>> /\ gs[Len(gs)].item = x /\ gs[Len(gs)].at = "clear"
      BY DEF Nested
    <3>2. \A i \in 1..Len(gs) : i < Len(gs) => gs[i].at = "byhand"
      <4>1. SUFFICES ASSUME NEW i \in 1..Len(gs), i < Len(gs)
                     PROVE  gs[i].at = "byhand"
        OBVIOUS
      <4>2. Len(gs) = Len(fs) + 1 /\ Len(fs) \in Nat
        BY DEF Nested, Inside
      <4>3. i \in 1..Len(fs)
        BY <4>1, <4>2
      <4> QED BY <4>3 DEF Nested, Inside, AllByHand
    <3> QED BY <1>4, <3>1, <3>2, RunsTop
  <2>2. \A d \in CPUs : d # c => cwq'[d].frames = cwq[d].frames
    BY <1>1
  <2> QED BY <1>1, <2>1, <2>2, OthersRun
<1>5. /\ \A y : \A d : d # c => (d \in RunningAt(y, {"clear"})' <=> d \in RunningAt(y, {"clear"}))
      /\ \A y : c \in RunningAt(y, {"clear"})' <=> y = x
  <2>1. PICK P : P = {"clear"}
    OBVIOUS
  <2>2. "byhand" \notin P /\ "clear" \in P
    BY <2>1
  <2> QED BY <1>4, <2>1, <2>2
<1>6. /\ \A y : \A d : d # c => (d \in RunningAt(y, {"clear", "requeue", "byhand_requeue"})'
                                    <=> d \in RunningAt(y, {"clear", "requeue", "byhand_requeue"}))
      /\ \A y : c \in RunningAt(y, {"clear", "requeue", "byhand_requeue"})' <=> y = x
  <2>1. PICK P : P = {"clear", "requeue", "byhand_requeue"}
    OBVIOUS
  <2>2. "byhand" \notin P /\ "clear" \in P
    BY <2>1
  <2> QED BY <1>4, <2>1, <2>2
<1>7. /\ \A y : \A d : d # c =>
            (d \in RunningAt(y, {"clear", "run", "requeue"})'
                <=> d \in RunningAt(y, {"clear", "run", "requeue"}))
      /\ \A y : c \in RunningAt(y, {"clear", "run", "requeue"})' <=> y = x
  <2>1. PICK P : P = {"clear", "run", "requeue"}
    OBVIOUS
  <2>2. "byhand" \notin P /\ "clear" \in P
    BY <2>1
  <2> QED BY <1>4, <2>1, <2>2
<1>8. \A y : c \notin RunningAt(y, {"clear", "requeue", "byhand_requeue"}) /\ c \notin RunningAt(y, {"clear"})
  BY DEF Inside, HandOf
<1>9. ASSUME NEW y, y # x
      PROVE  /\ HandOf(y)' = HandOf(y) /\ Running(y)' = Running(y) \ {c}
             /\ RunningAt(y, {"clear"})' = RunningAt(y, {"clear"})
  <2>1. \A d : d \in RunningAt(y, {"clear", "requeue", "byhand_requeue"})'
      <=> d \in RunningAt(y, {"clear", "requeue", "byhand_requeue"})
    BY <1>6, <1>8, <1>9
  <2>2. \A d : d \in RunningAt(y, {"clear"})' <=> d \in RunningAt(y, {"clear"})
    BY <1>5, <1>8, <1>9
  <2>3. \A d : d \in RunningAt(y, {"clear", "run", "requeue"})' <=>
                  d \in RunningAt(y, {"clear", "run", "requeue"}) /\ d # c
    BY <1>7, <1>9
  <2>4. HandOf(y)' = HandOf(y)
    BY <2>1 DEF HandOf, RunningAt
  <2>5. RunningAt(y, {"clear"})' = RunningAt(y, {"clear"})
    BY <2>2 DEF RunningAt
  <2>6. Running(y)' = Running(y) \ {c}
    BY <2>3 DEF Running
  <2> QED BY <2>4, <2>5, <2>6
<1>10. /\ HandOf(x)' = HandOf(x) \cup {c} /\ Running(x)' = Running(x) \cup {c}
       /\ RunningAt(x, {"clear"})' = RunningAt(x, {"clear"}) \cup {c}
  BY <1>5, <1>6, <1>7 DEF HandOf, Running
<1> QED BY <1>3, <1>9, <1>10

\* Taking an item: the bit passes from the list to the hands of the worker.
LEMMA RunNextTakes ==
    ASSUME IInv, NEW c \in CPUs, NEW fs, Inside(c, fs), run_next(c, fs),
           cwq[c].worklist # <<>>
    PROVE  IInv'
<1> USE DEF IInv
<1>0. PICK x \in Items, gs \in Seq(RunFrames) : Takes(c, fs, x, gs) /\ History(c, x)
  BY NextItem
<1>u. UNCHANGED <<work, call, done, hot>> /\ TypeOK
  BY DEF run_next, Shape
<1>q. PICK q \in Seq(Items) : q = cwq[c].worklist
  BY Types DEF Shape
<1>1. /\ q # <<>> /\ NoDup(q) /\ x = Head(q) /\ Tail(q) \in Seq(Items) /\ NoDup(Tail(q))
  BY <1>0, <1>q, TailMembers DEF Takes, Shape, Workers, WorkerOk
<1>2. /\ \A d \in CPUs : /\ cwq'[d].stop = cwq[d].stop
                         /\ d # c => /\ cwq'[d].worklist = cwq[d].worklist
                                     /\ cwq'[d].frames = cwq[d].frames
                                     /\ cwq'[d].current_work = cwq[d].current_work
                                     /\ cwq'[d].thread = cwq[d].thread
      /\ cwq'[c].worklist = Tail(q) /\ cwq'[c].frames = gs
      /\ cwq'[c].thread = "busy" /\ cwq'[c].current_work = x
      /\ cwq' \in [CPUs -> CwqRec]
  BY <1>0, <1>q DEF Takes, Now
<1>3. /\ \A y : y # x => ListOf(y)' = ListOf(y)
      /\ c \in ListOf(x) /\ ListOf(x)' = ListOf(x) \ {c}
      /\ \A y : y # x => /\ HandOf(y)' = HandOf(y) /\ Running(y)' = Running(y) \ {c}
                         /\ RunningAt(y, {"clear"})' = RunningAt(y, {"clear"})
      /\ HandOf(x)' = HandOf(x) \cup {c} /\ Running(x)' = Running(x) \cup {c}
      /\ RunningAt(x, {"clear"})' = RunningAt(x, {"clear"}) \cup {c}
  BY <1>0, NextSets
<1>4. Shape'
  <2>0. owed' \in [Clients -> SUBSET (CPUs \X Works \X {"queued", "run", "byhand"})]
    <3>1. ASSUME NEW t \in Clients, NEW p \in owed[t], NEW o, o = Taken(c, x, p)
          PROVE  o \in CPUs \X Works \X {"queued", "run", "byhand"}
      <4>1. p \in CPUs \X Works \X {"queued", "run", "byhand"}
        BY <1>u DEF TypeOK
      <4>2. CASE p = <<c, x, "queued">> /\ o = <<c, x, "run">>
        BY <4>1, <4>2
      <4>3. CASE o = <<c, p[2], "byhand">> \/ o = p
        BY <4>1, <4>3
      <4> QED BY <3>1, <4>2, <4>3, TakenIs
    <3> QED BY <1>0, <3>1 DEF History
  <2>1. TypeOK'
    BY <1>u, <1>2, <2>0 DEF TypeOK
  <2>2. gs # <<>> /\ FramesOk(gs, x)
    <3>1. /\ gs # <<>> /\ Len(gs) = Len(fs) + 1 /\ Len(fs) \in Nat
          /\ \A i \in 1..Len(fs) : gs[i] = fs[i] /\ fs[i].at = "byhand" /\ fs[i].item \in Works
          /\ gs[Len(gs)].item = x /\ gs[Len(gs)].at = "clear"
      BY <1>0 DEF Takes, Nested, Inside, AllByHand
    <3>2. \A i \in 1..Len(gs) : i \in 1..Len(fs) \/ (i = Len(gs) /\ ~(i < Len(gs)))
      BY <3>1
    <3> QED BY <3>1, <3>2 DEF FramesOk, ByHand
  <2>3. ASSUME NEW d \in CPUs
        PROVE  WorkerOk(d)'
    <3>1. WorkerOk(d)
      BY DEF Shape, Workers
    <3>2. CASE d = c
      BY <1>1, <1>2, <2>2, <3>1, <3>2 DEF WorkerOk
    <3>3. CASE d # c
      BY <1>2, <3>1, <3>3 DEF WorkerOk
    <3> QED BY <3>2, <3>3
  <2>4. ThreadOk(c, "busy", cwq[c].stop)
    BY ThreadGoesOn DEF Inside
  <2>5. ASSUME NEW k \in CPUs
        PROVE  ThreadOk(k, cwq'[k].thread, cwq'[k].stop) /\ Quiesced(k)'
    <3>1. ThreadOk(k, cwq[k].thread, cwq[k].stop) /\ Quiesced(k)
      BY DEF Shape, Hotplug
    <3>2. CASE k = c
      BY <1>2, <2>4, <3>2 DEF Quiesced
    <3>3. CASE k # c
      <4>1. Quiescing(k)' => Quiescing(k)
        BY <1>u, <1>2, <3>3 DEF Quiescing
      <4> QED BY <1>2, <3>1, <3>3, <4>1 DEF Quiesced
    <3> QED BY <3>2, <3>3
  <2>6. hot.todo # {} \/ hot.at = "destroyed" => \A w \in Works : work'[w].timer = "none"
    BY <1>u DEF Shape, Hotplug, NoUsers
  <2> QED BY <1>u, <2>1, <2>3, <2>5, <2>6, SteadyShape DEF Workers
<1>5. ASSUME NEW v \in Works
      PROVE  Owner(v)' /\ KnowsCwq(v)'
  <2>0. /\ CallOf(v)' = CallOf(v) /\ work'[v] = work[v] /\ TimerOf(v)' = TimerOf(v)
        /\ Owner(v) /\ KnowsCwq(v)
    BY <1>u DEF CallOf, TimerOf, Owned
  <2>1. CASE v # x
    BY <1>3, <2>0, <2>1, SameOwner
  <2>2. CASE v = x
    <3>1. /\ work[x].pending /\ ListOf(x) = {c}
          /\ HandOf(x) = {} /\ CallOf(x) = {} /\ TimerOf(x) = {}
      BY <1>3, <2>0, <2>2, Sole
    <3>2. RunningAt(x, {"clear"}) = {}
      BY <3>1 DEF HandOf, RunningAt
    <3>3. HandOf(x)' = {c} /\ ListOf(x)' = {} /\ RunningAt(x, {"clear"})' = {c}
      BY <1>3, <3>1, <3>2
    <3>4. Owner(x)'
      BY <2>0, <2>2, <3>1, <3>3 DEF Owner, Alone
    <3>5. work[x].cwq = c /\ c # 0
      BY <1>3, <2>0, <2>2 DEF KnowsCwq, CPUs
    <3>6. KnowsCwq(x)'
      BY <2>0, <2>2, <3>3, <3>5 DEF KnowsCwq
    <3> QED BY <2>2, <3>4, <3>6
  <2> QED BY <2>1, <2>2
<1>6. ASSUME NEW s \in Waits
      PROVE  Barrier(s)'
  <2>0. Barrier(s) /\ (s \in done' <=> s \in done) /\ (Awaits(s)' <=> Awaits(s)) /\ Home(s)' = Home(s)
    BY <1>u DEF Flushed, Awaits, Home
  <2>1. CASE s # x
    BY <1>3, <2>0, <2>1 DEF Barrier
  <2>2. CASE s = x
    <3>1. c \in ListOf(s) /\ \A d \in ListOf(s) \cup Running(s) : d = Home(s)
      BY <1>3, <2>0, <2>2 DEF Barrier
    <3>2. s \notin done /\ Awaits(s) /\ c = Home(s)
      BY <2>0, <3>1 DEF Barrier
    <3>3. ListOf(s)' = {}
      BY <1>3, <2>2, <3>1, <3>2
    <3>4. \A d \in Running(s)' : d = c
      BY <1>3, <2>2, <3>1, <3>2
    <3> QED BY <2>0, <3>2, <3>3, <3>4 DEF Barrier
  <2> QED BY <2>1, <2>2
<1>7. ASSUME NEW s \in Clients
      PROVE  Cancels(s)'
  <2>0. Cancels(s) /\ call'[s] = call[s]
    BY <1>u DEF Owned
  <2>1. SUFFICES ASSUME call[s].got, call[s].pc \in {"c_cpu", "c_cpu_wait", "c_clear"},
                        NEW d \in Running(call[s].w)'
                 PROVE  /\ d >= call[s].cpu
                        /\ call[s].pc = "c_cpu_wait" /\ d = call[s].cpu => d \in ListOf(s)'
    BY <2>0 DEF Cancels
  <2>2. call[s].w \in Works /\ s \in CallOf(call[s].w)
    BY <2>1 DEF Shape, CallsOk, CallOk, CallOf
  <2>3. ListOf(call[s].w) = {}
    BY <2>2, Sole DEF Owned
  <2>4. call[s].w # x /\ d # c /\ d \in Running(call[s].w)
    BY <1>3, <2>0, <2>1, <2>3
  <2>5. d \in ListOf(s) => d \in ListOf(s)'
    BY <1>3, <2>4
  <2> QED BY <2>0, <2>1, <2>4, <2>5 DEF Cancels
<1>8. ASSUME NEW s \in Clients, NEW o \in owed'[s]
      PROVE  Owes(s, o)'
  <2>0. call'[s] = call[s] /\ s \notin Works
    BY <1>u, Kinds
  <2>p. PICK p \in owed[s] : o = Taken(c, x, p)
    BY <1>0, <1>8 DEF History
  <2>o. Owes(s, p) /\ p \in CPUs \X Works \X {"queued", "run", "byhand"} /\ p = <<p[1], p[2], p[3]>>
    BY <1>u, <2>p DEF Flushed, TypeOK
  <2>1. CASE p = <<c, x, "queued">> /\ o = <<c, x, "run">>
    <3>1. s # x
      BY <2>0, <2>o, <2>1
    <3>2. o[1] = c /\ o[2] = x /\ o[3] = "run" /\ p[1] = c /\ p[2] = x /\ p[3] = "queued"
      BY <2>1
    <3>3. ListOf(s)' = ListOf(s) /\ c \in Running(x)'
      BY <1>3, <3>1
    <3> QED BY <2>0, <2>o, <3>2, <3>3 DEF Owes
  <2>2. CASE o = <<c, p[2], "byhand">>
    <3>1. o[2] = p[2] /\ o[3] = "byhand"
      BY <2>2
    <3> QED BY <2>0, <2>o, <3>1 DEF Owes
  <2>3. CASE p # <<c, x, "queued">> /\ ~(p[1] = c /\ p[3] = "run") /\ o = p
    <3>0. Owes(s, o) /\ o = <<o[1], o[2], o[3]>> /\ o[1] \in CPUs
      BY <2>o, <2>3
    <3>1. CASE o[3] = "byhand"
      BY <2>0, <3>0, <3>1 DEF Owes
    <3>2. CASE o[3] # "byhand"
      <4>2. /\ o[1] = c /\ o[3] = "queued" => o[2] # x
            /\ o[3] = "run" => o[1] # c
            /\ o[3] \in {"queued", "run"} /\ o[2] \in Works
        BY <2>o, <2>3, <3>0, <3>2
      <4>3. o[3] = "run" => o[1] \in Running(o[2])'
        BY <1>3, <3>0, <4>2 DEF Owes
      <4>4. o[3] = "queued" => o[1] \in ListOf(o[2])'
        BY <1>3, <3>0, <4>2 DEF Owes
      <4>5. ASSUME o[1] \in ListOf(s), o[3] = "queued" => Before(cwq[o[1]].worklist, o[2], s)
            PROVE  /\ o[1] \in ListOf(s)'
                   /\ o[3] = "queued" => Before(cwq'[o[1]].worklist, o[2], s)
        <5>1. CASE o[1] = c
          <6>1. o[3] = "queued" /\ o[2] # x /\ Before(q, o[2], s)
            BY <1>q, <4>2, <4>5, <5>1
          <6>2. s # x /\ Before(Tail(q), o[2], s)
            BY <1>1, <6>1, TakenOff
          <6> QED BY <1>2, <1>3, <4>5, <5>1, <6>2
        <5>2. CASE o[1] # c
          BY <1>2, <1>3, <3>0, <4>5, <5>2
        <5> QED BY <5>1, <5>2
      <4> QED BY <2>0, <3>0, <3>2, <4>2, <4>3, <4>4, <4>5 DEF Owes
    <3> QED BY <3>1, <3>2
  <2> QED BY <2>p, <2>1, <2>2, <2>3, TakenIs
<1> QED BY <1>4, <1>5, <1>6, <1>7, <1>8 DEF Owned, Flushed

\* Only the innermost callback of c runs.
LEMMA WhatRuns ==
    ASSUME Shape, NEW c \in CPUs, NEW fs \in Seq(RunFrames), fs = cwq[c].frames
    PROVE  /\ \A y : c \in HandOf(y) <=>
                 fs # <<>> /\ fs[Len(fs)].item = y /\ fs[Len(fs)].at \in {"clear", "requeue", "byhand_requeue"}
           /\ \A y : c \in Running(y) <=>
                 fs # <<>> /\ fs[Len(fs)].item = y /\ fs[Len(fs)].at \in {"clear", "run", "requeue"}
           /\ \A y : c \in RunningAt(y, {"clear"}) <=>
                 fs # <<>> /\ fs[Len(fs)].item = y /\ fs[Len(fs)].at \in {"clear"}
<1>1. \A i \in 1..Len(fs) : i < Len(fs) => fs[i].at = "byhand"
  BY DEF Shape, Workers, WorkerOk, FramesOk
<1>2. ASSUME NEW P, "byhand" \notin P
      PROVE  \A y : c \in RunningAt(y, P) <=>
                fs # <<>> /\ fs[Len(fs)].item = y /\ fs[Len(fs)].at \in P
  <2>1. \A y : Runs(fs, y, P) <=> fs # <<>> /\ fs[Len(fs)].item = y /\ fs[Len(fs)].at \in P
    BY <1>1, <1>2, RunsTop
  <2>2. \A y : c \in RunningAt(y, P) <=> Runs(fs, y, P)
    BY RunsIs
  <2> QED BY <2>1, <2>2
<1>3. \A y : c \in RunningAt(y, {"clear", "requeue", "byhand_requeue"}) <=>
                fs # <<>> /\ fs[Len(fs)].item = y /\ fs[Len(fs)].at \in {"clear", "requeue", "byhand_requeue"}
  <2>1. "byhand" \notin {"clear", "requeue", "byhand_requeue"}
    OBVIOUS
  <2> QED BY <1>2, <2>1
<1>4. \A y : c \in RunningAt(y, {"clear", "run", "requeue"}) <=>
                fs # <<>> /\ fs[Len(fs)].item = y /\ fs[Len(fs)].at \in {"clear", "run", "requeue"}
  <2>1. "byhand" \notin {"clear", "run", "requeue"}
    OBVIOUS
  <2> QED BY <1>2, <2>1
<1>5. \A y : c \in RunningAt(y, {"clear"}) <=>
                fs # <<>> /\ fs[Len(fs)].item = y /\ fs[Len(fs)].at \in {"clear"}
  <2>1. "byhand" \notin {"clear"}
    OBVIOUS
  <2> QED BY <1>2, <2>1
<1> QED BY <1>3, <1>4, <1>5 DEF HandOf, Running

\* The loop of run_workqueue() takes one more item or returns.
LEMMA RunNext ==
    ASSUME IInv, NEW c \in CPUs, NEW fs, Inside(c, fs), run_next(c, fs)
    PROVE  IInv'
BY RunNextReturns, RunNextTakes

\* worker_thread() calls run_workqueue().
LEMMA RunWorkqueue ==
    ASSUME IInv, NEW c \in CPUs, run_workqueue(c)
    PROVE  IInv'
<1> USE DEF IInv
<1>1. cwq[c].thread = "entry" /\ run_next(c, <<>>)
  BY DEF run_workqueue
<1>2. cwq[c].frames = <<>> /\ cwq[c].frames \in Seq(RunFrames)
  BY <1>1, Types DEF Shape, Workers, WorkerOk
<1>3. \A y : c \notin HandOf(y) /\ c \notin Running(y) /\ c \notin RunningAt(y, {"clear"})
  BY <1>2, WhatRuns
<1>4. Inside(c, <<>>)
  BY <1>1, <1>2, <1>3 DEF Inside, AllByHand
<1> QED BY <1>1, <1>4, RunNext

\* Behind a callback: the next item, or back to where the loop was called from.
LEMMA RunReturn ==
    ASSUME IInv, NEW c \in CPUs, run_return(c)
    PROVE  IInv'
<1> USE DEF IInv
<1>g. PICK gs \in Seq(RunFrames) : gs = cwq[c].frames
  BY Types DEF Shape
<1>1. gs # <<>> /\ gs[Len(gs)].at = "ret"
  BY <1>g DEF run_return, RunsAt
<1>f. PICK fs : fs = SubSeq(gs, 1, Len(gs) - 1)
  OBVIOUS
<1>2. run_next(c, fs)
  BY <1>g, <1>f DEF run_return, Front
<1>3. cwq[c].thread = "busy" /\ FramesOk(gs, cwq[c].current_work)
  BY <1>g, <1>1 DEF Shape, Workers, WorkerOk
<1>4. \A y : c \notin HandOf(y) /\ c \notin Running(y) /\ c \notin RunningAt(y, {"clear"})
  BY <1>g, <1>1, WhatRuns
<1>5. /\ fs \in Seq(RunFrames) /\ Len(fs) = Len(gs) - 1
      /\ \A i \in 1..Len(fs) : fs[i] = gs[i] /\ i \in 1..Len(gs) /\ i < Len(gs)
  <2>1. Len(gs) \in Nat /\ Len(gs) # 0
    BY <1>1
  <2>2. Len(gs) - 1 \in 0..Len(gs) /\ Len(gs) - 1 \in Nat
    BY <2>1
  <2>3. PICK n : n = Len(gs) - 1
    OBVIOUS
  <2>4. n \in 0..Len(gs) /\ n \in Nat /\ Len(gs) = n + 1
    BY <2>1, <2>2, <2>3
  <2>5. fs = SubSeq(gs, 1, n)
    BY <1>f, <2>3
  <2>6. fs \in Seq(RunFrames) /\ Len(fs) = n /\ \A i \in 1..n : fs[i] = gs[i]
    BY <2>4, <2>5
  <2> QED BY <2>1, <2>3, <2>4, <2>6
<1>6. AllByHand(fs)
  BY <1>3, <1>5 DEF AllByHand, ByHand, FramesOk
<1>7. Inside(c, fs)
  BY <1>3, <1>4, <1>5, <1>6 DEF Inside
<1> QED BY <1>2, <1>7, RunNext

\* flush_cpu_workqueue() from the worker itself: it runs the works by hand.
LEMMA FlushOwnWorkqueue ==
    ASSUME IInv, NEW c \in CPUs, flush_own_workqueue(c)
    PROVE  IInv'
<1> USE DEF IInv
<1>g. PICK gs \in Seq(RunFrames) : gs = cwq[c].frames
  BY Types DEF Shape
<1>1. /\ gs # <<>> /\ gs[Len(gs)].at \in {"run", "byhand"} /\ gs[Len(gs)].item \in Works
      /\ cwq[c].worklist # <<>>
  BY <1>g DEF flush_own_workqueue, RunsAt, Item
<1>f. PICK fs : fs = [gs EXCEPT ![Len(gs)].at = "byhand"]
  OBVIOUS
<1>2. run_next(c, fs)
  BY <1>g, <1>f DEF flush_own_workqueue
<1>3. cwq[c].thread = "busy" /\ FramesOk(gs, cwq[c].current_work)
  BY <1>g, <1>1 DEF Shape, Workers, WorkerOk
<1>4. /\ \A y : c \notin HandOf(y) /\ c \notin RunningAt(y, {"clear"})
      /\ \A y : c \in Running(y) => y = gs[Len(gs)].item
  BY <1>g, <1>1, WhatRuns
<1>5. Topped(gs, "byhand", fs)
  BY <1>1, <1>f, ToppedIs DEF Ats, ByHand
<1>6. /\ fs \in Seq(RunFrames) /\ Len(fs) = Len(gs) /\ Len(fs) \in 1..Len(fs)
      /\ fs[Len(fs)].item = gs[Len(gs)].item /\ fs[Len(fs)].at = "byhand"
      /\ \A i \in 1..Len(fs) : i # Len(fs) => fs[i] = gs[i] /\ i < Len(gs)
  BY <1>1, <1>5 DEF Topped
<1>7. AllByHand(fs)
  BY <1>1, <1>3, <1>6 DEF AllByHand, ByHand, FramesOk
<1>8. fs[Len(fs)] \in Members(fs)
  BY <1>6 DEF Members
<1>9. Inside(c, fs)
  BY <1>1, <1>3, <1>4, <1>6, <1>7, <1>8 DEF Inside
<1> QED BY <1>2, <1>9, RunNext

------------------------------------------------------------------------------
\* The hotplug task is now here.
HotNow(on, pop, k, todo, at) ==
    /\ hot' \in HotRec /\ hot'.single = hot.single
    /\ hot'.online = on /\ hot'.populated = pop
    /\ hot'.cpu = k /\ hot'.todo = todo /\ hot'.at = at
HotPlaces == {"idle", "flush", "flush_wait", "stop", "stop_wait", "prepared", "online", "destroyed"}

\* What the hotplug task changes of its own state.
LEMMA HotFields ==
    ASSUME TypeOK
    PROVE  /\ \A a \in HotPlaces : hot' = [hot EXCEPT !.at = a]
                => HotNow(hot.online, hot.populated, hot.cpu, hot.todo, a)
           /\ \A a \in HotPlaces, on \in SUBSET CPUs : hot' = [hot EXCEPT !.online = on, !.at = a]
                => HotNow(on, hot.populated, hot.cpu, hot.todo, a)
           /\ \A a \in HotPlaces, on \in SUBSET CPUs, k \in 0..NCPU :
                 hot' = [hot EXCEPT !.online = on, !.at = a, !.cpu = k]
                => HotNow(on, hot.populated, k, hot.todo, a)
           /\ \A a \in HotPlaces, pop \in SUBSET CPUs, k \in 0..NCPU :
                 hot' = [hot EXCEPT !.populated = pop, !.at = a, !.cpu = k]
                => HotNow(hot.online, pop, k, hot.todo, a)
           /\ \A a \in HotPlaces, pop \in SUBSET CPUs, k \in 0..NCPU :
                 hot' = [hot EXCEPT !.at = a, !.cpu = k, !.populated = pop]
                => HotNow(hot.online, pop, k, hot.todo, a)
           /\ \A a \in HotPlaces, k \in 0..NCPU : hot' = [hot EXCEPT !.at = a, !.cpu = k]
                => HotNow(hot.online, hot.populated, k, hot.todo, a)
           /\ \A a \in HotPlaces, todo \in SUBSET CPUs, k \in 0..NCPU :
                 hot' = [hot EXCEPT !.at = a, !.cpu = k, !.todo = todo]
                => HotNow(hot.online, hot.populated, k, todo, a)
           /\ \A a \in HotPlaces, todo \in SUBSET CPUs, k \in 0..NCPU :
                 hot' = [hot EXCEPT !.at = a, !.todo = todo, !.cpu = k]
                => HotNow(hot.online, hot.populated, k, todo, a)
<1>1. PICK h \in HotRec : h = hot
  BY DEF TypeOK
<1>2. ASSUME NEW r \in HotRec, NEW a \in HotPlaces PROVE [r EXCEPT !.at = a] \in HotRec
  BY DEF HotRec, HotPlaces
<1>3. ASSUME NEW r \in HotRec, NEW on \in SUBSET CPUs
      PROVE  /\ [r EXCEPT !.online = on] \in HotRec /\ [r EXCEPT !.populated = on] \in HotRec
             /\ [r EXCEPT !.todo = on] \in HotRec
  BY DEF HotRec
<1>4. ASSUME NEW r \in HotRec, NEW k \in 0..NCPU PROVE [r EXCEPT !.cpu = k] \in HotRec
  BY DEF HotRec
<1>5. ASSUME NEW a \in HotPlaces,
             hot' = [h EXCEPT !.at = a]
      PROVE  HotNow(h.online, h.populated, h.cpu, h.todo, a)
  <2>1. PICK r1 \in HotRec : r1 = [h EXCEPT !.at = a]
    BY <1>2
  <2>2. /\ r1.single = h.single /\ r1.online = h.online /\ r1.populated = h.populated
        /\ r1.cpu = h.cpu /\ r1.todo = h.todo /\ r1.at = a
    BY <2>1 DEF HotRec
  <2>3. hot' = r1
    BY <1>1, <1>5, <2>1
  <2> QED BY <1>1, <2>2, <2>3 DEF HotNow
<1>6. ASSUME NEW on \in SUBSET CPUs, NEW a \in HotPlaces,
             hot' = [h EXCEPT !.online = on, !.at = a]
      PROVE  HotNow(on, h.populated, h.cpu, h.todo, a)
  <2>1. PICK r1 \in HotRec : r1 = [h EXCEPT !.online = on]
    BY <1>3
  <2>2. PICK r2 \in HotRec : r2 = [r1 EXCEPT !.at = a]
    BY <1>2
  <2>3. /\ r2.single = h.single /\ r2.online = on /\ r2.populated = h.populated
        /\ r2.cpu = h.cpu /\ r2.todo = h.todo /\ r2.at = a
    BY <2>1, <2>2 DEF HotRec
  <2>4. hot' = r2
    BY <1>1, <1>6, <2>1, <2>2
  <2> QED BY <1>1, <2>3, <2>4 DEF HotNow
<1>7. ASSUME NEW on \in SUBSET CPUs, NEW k \in 0..NCPU, NEW a \in HotPlaces,
             hot' = [h EXCEPT !.online = on, !.at = a, !.cpu = k]
      PROVE  HotNow(on, h.populated, k, h.todo, a)
  <2>1. PICK r1 \in HotRec : r1 = [h EXCEPT !.online = on]
    BY <1>3
  <2>2. PICK r2 \in HotRec : r2 = [r1 EXCEPT !.at = a]
    BY <1>2
  <2>3. PICK r3 \in HotRec : r3 = [r2 EXCEPT !.cpu = k]
    BY <1>4
  <2>4. /\ r3.single = h.single /\ r3.online = on /\ r3.populated = h.populated
        /\ r3.cpu = k /\ r3.todo = h.todo /\ r3.at = a
    BY <2>1, <2>2, <2>3 DEF HotRec
  <2>5. hot' = r3
    BY <1>1, <1>7, <2>1, <2>2, <2>3
  <2> QED BY <1>1, <2>4, <2>5 DEF HotNow
<1>8. ASSUME NEW pop \in SUBSET CPUs, NEW k \in 0..NCPU, NEW a \in HotPlaces,
             hot' = [h EXCEPT !.populated = pop, !.at = a, !.cpu = k]
      PROVE  HotNow(h.online, pop, k, h.todo, a)
  <2>1. PICK r1 \in HotRec : r1 = [h EXCEPT !.populated = pop]
    BY <1>3
  <2>2. PICK r2 \in HotRec : r2 = [r1 EXCEPT !.at = a]
    BY <1>2
  <2>3. PICK r3 \in HotRec : r3 = [r2 EXCEPT !.cpu = k]
    BY <1>4
  <2>4. /\ r3.single = h.single /\ r3.online = h.online /\ r3.populated = pop
        /\ r3.cpu = k /\ r3.todo = h.todo /\ r3.at = a
    BY <2>1, <2>2, <2>3 DEF HotRec
  <2>5. hot' = r3
    BY <1>1, <1>8, <2>1, <2>2, <2>3
  <2> QED BY <1>1, <2>4, <2>5 DEF HotNow
<1>9. ASSUME NEW pop \in SUBSET CPUs, NEW k \in 0..NCPU, NEW a \in HotPlaces,
             hot' = [h EXCEPT !.at = a, !.cpu = k, !.populated = pop]
      PROVE  HotNow(h.online, pop, k, h.todo, a)
  <2>1. PICK r1 \in HotRec : r1 = [h EXCEPT !.at = a]
    BY <1>2
  <2>2. PICK r2 \in HotRec : r2 = [r1 EXCEPT !.cpu = k]
    BY <1>4
  <2>3. PICK r3 \in HotRec : r3 = [r2 EXCEPT !.populated = pop]
    BY <1>3
  <2>4. /\ r3.single = h.single /\ r3.online = h.online /\ r3.populated = pop
        /\ r3.cpu = k /\ r3.todo = h.todo /\ r3.at = a
    BY <2>1, <2>2, <2>3 DEF HotRec
  <2>5. hot' = r3
    BY <1>1, <1>9, <2>1, <2>2, <2>3
  <2> QED BY <1>1, <2>4, <2>5 DEF HotNow
<1>10. ASSUME NEW k \in 0..NCPU, NEW a \in HotPlaces,
             hot' = [h EXCEPT !.at = a, !.cpu = k]
      PROVE  HotNow(h.online, h.populated, k, h.todo, a)
  <2>1. PICK r1 \in HotRec : r1 = [h EXCEPT !.at = a]
    BY <1>2
  <2>2. PICK r2 \in HotRec : r2 = [r1 EXCEPT !.cpu = k]
    BY <1>4
  <2>3. /\ r2.single = h.single /\ r2.online = h.online /\ r2.populated = h.populated
        /\ r2.cpu = k /\ r2.todo = h.todo /\ r2.at = a
    BY <2>1, <2>2 DEF HotRec
  <2>4. hot' = r2
    BY <1>1, <1>10, <2>1, <2>2
  <2> QED BY <1>1, <2>3, <2>4 DEF HotNow
<1>11. ASSUME NEW k \in 0..NCPU, NEW todo \in SUBSET CPUs, NEW a \in HotPlaces,
             hot' = [h EXCEPT !.at = a, !.cpu = k, !.todo = todo]
      PROVE  HotNow(h.online, h.populated, k, todo, a)
  <2>1. PICK r1 \in HotRec : r1 = [h EXCEPT !.at = a]
    BY <1>2
  <2>2. PICK r2 \in HotRec : r2 = [r1 EXCEPT !.cpu = k]
    BY <1>4
  <2>3. PICK r3 \in HotRec : r3 = [r2 EXCEPT !.todo = todo]
    BY <1>3
  <2>4. /\ r3.single = h.single /\ r3.online = h.online /\ r3.populated = h.populated
        /\ r3.cpu = k /\ r3.todo = todo /\ r3.at = a
    BY <2>1, <2>2, <2>3 DEF HotRec
  <2>5. hot' = r3
    BY <1>1, <1>11, <2>1, <2>2, <2>3
  <2> QED BY <1>1, <2>4, <2>5 DEF HotNow
<1>12. ASSUME NEW k \in 0..NCPU, NEW todo \in SUBSET CPUs, NEW a \in HotPlaces,
             hot' = [h EXCEPT !.at = a, !.todo = todo, !.cpu = k]
      PROVE  HotNow(h.online, h.populated, k, todo, a)
  <2>1. PICK r1 \in HotRec : r1 = [h EXCEPT !.at = a]
    BY <1>2
  <2>2. PICK r2 \in HotRec : r2 = [r1 EXCEPT !.todo = todo]
    BY <1>3
  <2>3. PICK r3 \in HotRec : r3 = [r2 EXCEPT !.cpu = k]
    BY <1>4
  <2>4. /\ r3.single = h.single /\ r3.online = h.online /\ r3.populated = h.populated
        /\ r3.cpu = k /\ r3.todo = todo /\ r3.at = a
    BY <2>1, <2>2, <2>3 DEF HotRec
  <2>5. hot' = r3
    BY <1>1, <1>12, <2>1, <2>2, <2>3
  <2> QED BY <1>1, <2>4, <2>5 DEF HotNow
<1> QED BY <1>1, <1>5, <1>6, <1>7, <1>8, <1>9, <1>10, <1>11, <1>12

\* The thread of the worker of c is made, stopped, started or gone.
Worker(c, th, b) ==
    /\ cwq' \in [CPUs -> CwqRec]
    /\ \A d \in CPUs : /\ cwq'[d].worklist = cwq[d].worklist
                       /\ cwq'[d].current_work = cwq[d].current_work
                       /\ cwq'[d].frames = cwq[d].frames
                       /\ d # c => cwq'[d].thread = cwq[d].thread /\ cwq'[d].stop = cwq[d].stop
    /\ cwq'[c].thread = th /\ cwq'[c].stop = b

\* What the hotplug task changes of a cwq.
LEMMA ThreadFields ==
    ASSUME TypeOK, NEW c \in CPUs
    PROVE  /\ UNCHANGED cwq => Worker(c, cwq[c].thread, cwq[c].stop)
           /\ \A th \in Threads : cwq' = [cwq EXCEPT ![c].thread = th] => Worker(c, th, cwq[c].stop)
           /\ \A b, e \in BOOLEAN : cwq' = [cwq EXCEPT ![c].stop = b, ![c].awake = e]
                => Worker(c, cwq[c].thread, b)
           /\ \A th \in Threads, b \in BOOLEAN : cwq' = [cwq EXCEPT ![c].thread = th, ![c].stop = b]
                => Worker(c, th, b)
           /\ \A th \in Threads, e \in BOOLEAN : cwq' = [cwq EXCEPT ![c].thread = th, ![c].awake = e]
                => Worker(c, th, cwq[c].stop)
<1>0. cwq \in [CPUs -> CwqRec]
  BY Types
<1>1. PICK k \in CwqRec : k = cwq[c]
  BY <1>0
<1>2. ASSUME NEW r \in CwqRec, cwq' = [cwq EXCEPT ![c] = r], r.worklist = k.worklist,
             r.current_work = k.current_work, r.frames = k.frames
      PROVE  Worker(c, r.thread, r.stop)
  BY <1>0, <1>1, <1>2 DEF Worker
<1>3. ASSUME NEW r \in CwqRec, NEW th \in Threads
      PROVE  [r EXCEPT !.thread = th] \in CwqRec
  BY DEF CwqRec, Threads
<1>4. ASSUME NEW r \in CwqRec, NEW b \in BOOLEAN
      PROVE  [r EXCEPT !.stop = b] \in CwqRec /\ [r EXCEPT !.awake = b] \in CwqRec
  BY DEF CwqRec
<1>5. UNCHANGED cwq => Worker(c, k.thread, k.stop)
  BY <1>0, <1>1 DEF Worker
<1>6. ASSUME NEW th \in Threads, cwq' = [cwq EXCEPT ![c].thread = th]
      PROVE  Worker(c, th, k.stop)
  <2>1. PICK r \in CwqRec : r = [k EXCEPT !.thread = th]
    BY <1>3
  <2>2. /\ r.worklist = k.worklist /\ r.current_work = k.current_work /\ r.frames = k.frames
        /\ r.thread = th /\ r.stop = k.stop
    BY <2>1 DEF CwqRec
  <2>3. cwq' = [cwq EXCEPT ![c] = r]
    BY <1>0, <1>1, <1>6, <2>1
  <2> QED BY <1>2, <2>2, <2>3
<1>7. ASSUME NEW b \in BOOLEAN, NEW e \in BOOLEAN, cwq' = [cwq EXCEPT ![c].stop = b, ![c].awake = e]
      PROVE  Worker(c, k.thread, b)
  <2>1. PICK m \in CwqRec : m = [k EXCEPT !.stop = b]
    BY <1>4
  <2>2. PICK r \in CwqRec : r = [m EXCEPT !.awake = e]
    BY <1>4
  <2>3. /\ r.worklist = k.worklist /\ r.current_work = k.current_work /\ r.frames = k.frames
        /\ r.thread = k.thread /\ r.stop = b
    BY <2>1, <2>2 DEF CwqRec
  <2>4. cwq' = [cwq EXCEPT ![c] = r]
    BY <1>0, <1>1, <1>7, <2>1, <2>2
  <2> QED BY <1>2, <2>3, <2>4
<1>8. ASSUME NEW th \in Threads, NEW b \in BOOLEAN, cwq' = [cwq EXCEPT ![c].thread = th, ![c].stop = b]
      PROVE  Worker(c, th, b)
  <2>1. PICK m \in CwqRec : m = [k EXCEPT !.thread = th]
    BY <1>3
  <2>2. PICK r \in CwqRec : r = [m EXCEPT !.stop = b]
    BY <1>4
  <2>3. /\ r.worklist = k.worklist /\ r.current_work = k.current_work /\ r.frames = k.frames
        /\ r.thread = th /\ r.stop = b
    BY <2>1, <2>2 DEF CwqRec
  <2>4. cwq' = [cwq EXCEPT ![c] = r]
    BY <1>0, <1>1, <1>8, <2>1, <2>2
  <2> QED BY <1>2, <2>3, <2>4
<1>9. ASSUME NEW th \in Threads, NEW e \in BOOLEAN, cwq' = [cwq EXCEPT ![c].thread = th, ![c].awake = e]
      PROVE  Worker(c, th, k.stop)
  <2>1. PICK m \in CwqRec : m = [k EXCEPT !.thread = th]
    BY <1>3
  <2>2. PICK r \in CwqRec : r = [m EXCEPT !.awake = e]
    BY <1>4
  <2>3. /\ r.worklist = k.worklist /\ r.current_work = k.current_work /\ r.frames = k.frames
        /\ r.thread = th /\ r.stop = k.stop
    BY <2>1, <2>2 DEF CwqRec
  <2>4. cwq' = [cwq EXCEPT ![c] = r]
    BY <1>0, <1>1, <1>9, <2>1, <2>2
  <2> QED BY <1>2, <2>3, <2>4
<1> QED BY <1>1, <1>5, <1>6, <1>7, <1>8, <1>9

\* What such a step of the hotplug task has to see to.
LEMMA HotMoves ==
    ASSUME IInv, NEW c \in CPUs, NEW th, NEW b, Worker(c, th, b),
           UNCHANGED <<work, call, done, owed>>,
           hot.at # "flush_wait" \/ Admin \in done, hot' \in HotRec,
           th = "busy" <=> cwq[c].thread = "busy",
           \A t \in Clients : call[t].pc = "insert" => call[t].cpu \in hot'.online,
           MapsOk', hot'.todo # {} \/ hot'.at = "destroyed" => NoUsers,
           \A k \in CPUs : ThreadOk(k, cwq[k].thread, cwq[k].stop)',
           \A k \in CPUs : Quiescing(k)' =>
                Quiescing(k) \/ cwq[k].thread = "busy" \/ cwq[k].worklist = <<>>
    PROVE  IInv'
<1> USE DEF IInv
<1>0. TypeOK /\ Admin \in Waits
  BY Kinds DEF Shape
<1>1. /\ cwq' \in [CPUs -> CwqRec]
      /\ \A d \in CPUs : /\ cwq'[d].worklist = cwq[d].worklist
                         /\ cwq'[d].current_work = cwq[d].current_work
                         /\ cwq'[d].frames = cwq[d].frames
                         /\ cwq'[d].thread = "busy" <=> cwq[d].thread = "busy"
  BY DEF Worker
<1>2. Shape'
  <2>1. TypeOK'
    BY <1>0, <1>1 DEF TypeOK
  <2>2. \A d \in CPUs : WorkerOk(d)'
    <3>1. ASSUME NEW d \in CPUs
          PROVE  WorkerOk(d)'
      <4>1. WorkerOk(d)
        BY DEF Shape, Workers
      <4> QED BY <1>1, <4>1 DEF WorkerOk
    <3> QED BY <3>1
  <2>3. \A t \in Clients : CallOk(call[t], hot.online)'
    <3>1. ASSUME NEW t \in Clients
          PROVE  CallOk(call'[t], hot'.online)
      <4>1. CallOk(call[t], hot.online)
        BY DEF Shape, CallsOk
      <4> QED BY <4>1 DEF CallOk
    <3> QED BY <3>1
  <2>4. NoUsers' <=> NoUsers
    BY DEF NoUsers
  <2>5. \A k \in CPUs : Quiesced(k)'
    <3>1. ASSUME NEW k \in CPUs
          PROVE  Quiesced(k)'
      <4>1. Quiesced(k)
        BY DEF Shape, Hotplug
      <4> QED BY <1>1, <4>1 DEF Quiesced
    <3> QED BY <3>1
  <2> QED BY <2>1, <2>2, <2>3, <2>4, <2>5 DEF Shape, Workers, CallsOk, Hotplug
<1>3. /\ \A y : ListOf(y)' = ListOf(y)
      /\ \A y : /\ RunningAt(y, {"clear"})' = RunningAt(y, {"clear"})
                /\ HandOf(y)' = HandOf(y) /\ Running(y)' = Running(y)
                /\ CallOf(y)' = CallOf(y)
  BY <1>1 DEF ListOf, RunningAt, HandOf, Running, CallOf
<1>4. \A v \in Works : Owner(v)' /\ KnowsCwq(v)'
  BY <1>3, SameOwner DEF Owned
<1>5. \A s \in Clients : Cancels(s)'
  <2>1. ASSUME NEW s \in Clients
        PROVE  Cancels(s)'
    <3>1. Cancels(s)
      BY DEF Owned
    <3> QED BY <1>3, <3>1 DEF Cancels
  <2> QED BY <2>1
<1>6. ASSUME NEW s \in Clients, NEW o \in owed'[s]
      PROVE  Owes(s, o)'
  <2>1. Owes(s, o) /\ o[1] \in CPUs
    BY <1>0, <1>6 DEF Flushed, TypeOK
  <2>2. cwq'[o[1]].worklist = cwq[o[1]].worklist
    BY <1>1, <2>1
  <2> QED BY <1>3, <2>1, <2>2 DEF Owes
<1>7. ASSUME NEW s \in Waits
      PROVE  Barrier(s)'
  <2>1. CASE s = Admin
    <3>1. ListOf(s) = {} /\ Running(s) = {}
      BY <2>1, NoBarrier DEF Awaits
    <3> QED BY <1>3, <3>1 DEF Barrier
  <2>2. CASE s # Admin
    <3>1. Barrier(s) /\ (Awaits(s)' <=> Awaits(s)) /\ Home(s)' = Home(s)
      BY <2>2 DEF Flushed, Awaits, Home
    <3> QED BY <1>3, <3>1 DEF Barrier
  <2> QED BY <2>1, <2>2
<1> QED BY <1>2, <1>4, <1>5, <1>6, <1>7 DEF Owned, Flushed

\* A CPU goes offline.
LEMMA CpuDown ==
    ASSUME IInv, NEW c \in CPUs, cpu_down(c)
    PROVE  IInv'
<1> USE DEF IInv
<1>0. /\ hot.at = "idle" /\ hot.single = FALSE /\ c \in hot.online
      /\ \A t \in Clients : ~(call[t].pc = "insert" /\ call[t].cpu = c)
      /\ UNCHANGED <<work, cwq, call, done, owed>> /\ TypeOK
  BY Types DEF cpu_down, Shape
<1>1. HotNow(hot.online \ {c}, hot.populated, c, hot.todo, "flush")
  <2>1. hot.online \ {c} \in SUBSET CPUs /\ c \in 0..NCPU /\ "flush" \in HotPlaces
    BY <1>0, Types DEF CPUs, HotPlaces
  <2>2. hot' = [hot EXCEPT !.online = hot.online \ {c}, !.at = "flush", !.cpu = c]
    BY <1>0, Types DEF cpu_down
  <2> QED BY <1>0, <2>1, <2>2, HotFields
<1>2. Worker(c, cwq[c].thread, cwq[c].stop)
  BY <1>0, ThreadFields
<1>3. MapsOk /\ \A k \in CPUs : ThreadOk(k, cwq[k].thread, cwq[k].stop)
  BY DEF Shape, Hotplug
<1>4. MapsOk'
  BY <1>0, <1>1, <1>3 DEF MapsOk, HotNow
<1>5. \A k \in CPUs : ThreadOk(k, cwq[k].thread, cwq[k].stop)'
  BY <1>0, <1>1, <1>3 DEF ThreadOk, MapsOk, HotNow, wq_cpu_map
<1>6. \A k \in CPUs : Quiescing(k)' => Quiescing(k)
  BY <1>0, <1>1 DEF Quiescing, HotNow
<1>7. \A t \in Clients : call[t].pc = "insert" => call[t].cpu \in hot'.online
  BY <1>0, <1>1 DEF HotNow, Shape, CallsOk, CallOk
<1>8. hot' \in HotRec /\ hot'.todo = {} /\ hot'.at # "destroyed"
  BY <1>0, <1>1, <1>3 DEF HotNow, MapsOk
<1> QED BY <1>0, <1>2, <1>4, <1>5, <1>6, <1>7, <1>8, HotMoves

\* destroy_workqueue() starts, with no users left.
LEMMA DestroyWorkqueue ==
    ASSUME IInv, destroy_workqueue
    PROVE  IInv'
<1> USE DEF IInv
<1>0. /\ hot.at = "idle" /\ NoUsers /\ UNCHANGED <<work, cwq, call, done, owed>> /\ TypeOK
  BY DEF destroy_workqueue, Shape, NoUsers
<1>c. 1 \in CPUs /\ 1 \in 0..NCPU
  BY WorkQueueAssumption DEF CPUs
<1>1. HotNow(hot.online, hot.populated, 1, wq_cpu_map \cup {1}, "flush")
  <2>1. wq_cpu_map \cup {1} \in SUBSET CPUs /\ "flush" \in HotPlaces
    BY <1>0, <1>c, Types DEF wq_cpu_map, HotPlaces
  <2>2. hot' = [hot EXCEPT !.at = "flush", !.cpu = 1, !.todo = wq_cpu_map \cup {1}]
    BY DEF destroy_workqueue
  <2> QED BY <1>0, <1>c, <2>1, <2>2, HotFields
<1>2. Worker(1, cwq[1].thread, cwq[1].stop)
  BY <1>0, <1>c, ThreadFields
<1>3. MapsOk /\ \A k \in CPUs : ThreadOk(k, cwq[k].thread, cwq[k].stop)
  BY DEF Shape, Hotplug
<1>m. wq_cpu_map' = wq_cpu_map
  BY <1>1 DEF HotNow, wq_cpu_map
<1>4. MapsOk'
  BY <1>0, <1>1, <1>3, <1>c DEF MapsOk, HotNow
<1>5. \A k \in CPUs : ThreadOk(k, cwq[k].thread, cwq[k].stop)'
  BY <1>0, <1>1, <1>3, <1>m DEF ThreadOk, MapsOk, HotNow
<1>6. \A k \in CPUs : Quiescing(k)' => Quiescing(k)
  BY <1>0, <1>1 DEF Quiescing, HotNow
<1>7. \A t \in Clients : call[t].pc = "insert" => call[t].cpu \in hot'.online
  BY <1>0 DEF NoUsers
<1>8. hot' \in HotRec
  BY <1>1 DEF HotNow
<1> QED BY <1>0, <1>c, <1>2, <1>4, <1>5, <1>6, <1>7, <1>8, HotMoves

\* The hotplug task stays with its CPU, and the maps as they are.
LEMMA HotGoesOn ==
    ASSUME IInv, NEW a \in {"stop", "stop_wait"}, HotStep(a),
           hot.at \in {"flush", "flush_wait", "stop"},
           hot.at # "flush_wait" \/ Admin \in done,
           UNCHANGED <<work, call, done, owed>>,
           cwq[hot.cpu].thread # "none",
           cwq[hot.cpu].thread = "busy" \/ cwq[hot.cpu].worklist = <<>>,
           NEW b, Worker(hot.cpu, cwq[hot.cpu].thread, b),
           b => a = "stop_wait", cwq[hot.cpu].thread = "exited" => b
    PROVE  IInv'
<1> USE DEF IInv
<1>0. TypeOK /\ hot.cpu \in CPUs
  BY DEF Shape, Hotplug, MapsOk
<1>1. HotNow(hot.online, hot.populated, hot.cpu, hot.todo, a)
  BY <1>0, HotFields DEF HotStep, HotPlaces
<1>3. MapsOk /\ \A k \in CPUs : ThreadOk(k, cwq[k].thread, cwq[k].stop)
  BY DEF Shape, Hotplug
<1>m. wq_cpu_map' = wq_cpu_map
  BY <1>1 DEF HotNow, wq_cpu_map
<1>4. MapsOk'
  BY <1>1, <1>3 DEF MapsOk, HotNow
<1>5. ASSUME NEW k \in CPUs
      PROVE  ThreadOk(k, cwq[k].thread, cwq[k].stop)'
  <2>1. CASE k = hot.cpu
    BY <1>0, <1>1, <1>3, <1>m, <2>1 DEF ThreadOk, HotNow, Worker
  <2>2. CASE k # hot.cpu
    BY <1>0, <1>1, <1>3, <1>m, <2>2 DEF ThreadOk, HotNow, Worker
  <2> QED BY <2>1, <2>2
<1>6. \A k \in CPUs : Quiescing(k)' =>
         Quiescing(k) \/ cwq[k].thread = "busy" \/ cwq[k].worklist = <<>>
  BY <1>0, <1>1 DEF Quiescing, HotNow, Worker
<1>7. \A t \in Clients : call[t].pc = "insert" => call[t].cpu \in hot'.online
  BY <1>1 DEF HotNow, Shape, CallsOk, CallOk
<1>8. /\ hot' \in HotRec
      /\ hot'.todo # {} \/ hot'.at = "destroyed" => NoUsers
  BY <1>1 DEF HotNow, Shape, Hotplug
<1> QED BY <1>0, <1>4, <1>5, <1>6, <1>7, <1>8, HotMoves

\* The flush of cleanup_workqueue_thread() is over.
LEMMA CleanupWaited ==
    ASSUME IInv, cleanup_waited
    PROVE  IInv'
<1> USE DEF IInv
<1>0. /\ hot.at = "flush_wait" /\ Admin \in done /\ HotStep("stop")
      /\ UNCHANGED <<work, cwq, call, done, owed>> /\ TypeOK /\ hot.cpu \in CPUs
  BY DEF cleanup_waited, Shape, Hotplug, MapsOk
<1>1. Worker(hot.cpu, cwq[hot.cpu].thread, cwq[hot.cpu].stop)
  BY <1>0, ThreadFields
<1>2. cwq[hot.cpu].thread = "busy" \/ cwq[hot.cpu].worklist = <<>>
  BY <1>0 DEF Shape, Hotplug, Quiesced, Quiescing
<1>3. /\ ~cwq[hot.cpu].stop /\ cwq[hot.cpu].thread # "exited"
      /\ cwq[hot.cpu].stop => "stop" = "stop_wait"
  BY <1>0 DEF Shape, Hotplug, ThreadOk
<1>4. cwq[hot.cpu].thread # "none"
  BY <1>0 DEF Shape, Hotplug, ThreadOk
<1> QED BY <1>0, <1>1, <1>2, <1>3, <1>4, HotGoesOn

\* kthread_stop(): the worker is told to exit.
LEMMA CleanupStop ==
    ASSUME IInv, cleanup_stop
    PROVE  IInv'
<1> USE DEF IInv
<1>0. /\ hot.at = "stop" /\ HotStep("stop_wait")
      /\ cwq' = [cwq EXCEPT ![hot.cpu].stop = TRUE, ![hot.cpu].awake = TRUE]
      /\ UNCHANGED <<work, call, done, owed>> /\ TypeOK /\ hot.cpu \in CPUs
  BY DEF cleanup_stop, Shape, Hotplug, MapsOk
<1>1. Worker(hot.cpu, cwq[hot.cpu].thread, TRUE)
  BY <1>0, ThreadFields
<1>2. cwq[hot.cpu].thread = "busy" \/ cwq[hot.cpu].worklist = <<>>
  BY <1>0 DEF Shape, Hotplug, Quiesced, Quiescing
<1>4. cwq[hot.cpu].thread # "none"
  BY <1>0 DEF Shape, Hotplug, ThreadOk
<1> QED BY <1>0, <1>1, <1>2, <1>4, HotGoesOn

\* The hotplug task queues its barrier, and waits for it.
LEMMA CleanupBarrier ==
    ASSUME IInv, NEW c \in CPUs, hot.cpu = c, hot.at = "flush", cwq[c].thread # "none",
           insert_wq_barrier(c, Admin, list_add_tail(cwq[c].worklist, Admin)),
           HotStep("flush_wait"), UNCHANGED <<call, owed>>
    PROVE  IInv'
<1> USE DEF IInv
<1>0. TypeOK /\ Admin \in Waits /\ Admin \in Items /\ Admin \notin Works /\ Admin \notin Clients
  BY Kinds, WorkQueueAssumption DEF Shape
<1>q. PICK q : q = list_add_tail(cwq[c].worklist, Admin)
  OBVIOUS
<1>1. HotNow(hot.online, hot.populated, c, hot.todo, "flush_wait")
  BY <1>0, HotFields DEF HotStep, HotPlaces
<1>2. Placed(c, Admin, q) /\ q \in Seq(Items)
  BY <1>0, <1>q, PlacedAt DEF Placed
<1>3. List(c, q) /\ UNCHANGED work /\ done' = done \ {Admin}
  BY <1>0, <1>q, <1>2, ListFields DEF insert_wq_barrier
<1>4. ListOf(Admin) = {} /\ Running(Admin) = {}
  BY <1>0, NoBarrier DEF Awaits
<1>5. Adds(c, Admin) /\ Workers'
  <2>1. Admin \notin Members(cwq[c].worklist)
    BY <1>4 DEF ListOf
  <2> QED BY <1>0, <1>2, <1>3, <2>1, ListGrows
<1>6. \A k \in CPUs : /\ cwq'[k].thread = cwq[k].thread /\ cwq'[k].stop = cwq[k].stop
                      /\ k # c => cwq'[k].worklist = cwq[k].worklist
  BY <1>3 DEF List
<1>7. Shape'
  <2>1. TypeOK'
    BY <1>0, <1>1, <1>3 DEF TypeOK, HotNow, List
  <2>2. MapsOk /\ \A k \in CPUs : ThreadOk(k, cwq[k].thread, cwq[k].stop) /\ Quiesced(k)
    BY DEF Shape, Hotplug
  <2>3. MapsOk'
    BY <1>1, <2>2 DEF MapsOk, HotNow
  <2>4. CallsOk'
    <3>1. \A t \in Clients : CallOk(call'[t], hot'.online)
      BY <1>1 DEF HotNow, Shape, CallsOk
    <3> QED BY <3>1 DEF CallsOk
  <2>5. hot'.todo # {} \/ hot'.at = "destroyed" => NoUsers'
    BY <1>1, <1>3 DEF HotNow, Shape, Hotplug, NoUsers
  <2>6. wq_cpu_map' = wq_cpu_map
    BY <1>1 DEF HotNow, wq_cpu_map
  <2>7. ASSUME NEW k \in CPUs
        PROVE  ThreadOk(k, cwq[k].thread, cwq[k].stop)' /\ Quiesced(k)'
    <3>1. ThreadOk(k, cwq[k].thread, cwq[k].stop)'
      <4>1. CASE k = c
        BY <1>1, <1>6, <2>2, <2>6, <4>1 DEF ThreadOk, HotNow
      <4>2. CASE k # c
        BY <1>1, <1>6, <2>2, <2>6, <4>2 DEF ThreadOk, HotNow
      <4> QED BY <4>1, <4>2
    <3>2. CASE k = c
      <4>1. ~cwq[c].stop /\ cwq[c].thread # "exited"
        BY <2>2 DEF ThreadOk
      <4>2. ~Quiescing(k)'
        BY <1>1, <1>3, <1>6, <3>2, <4>1 DEF Quiescing, HotNow
      <4> QED BY <3>1, <4>2 DEF Quiesced
    <3>3. CASE k # c
      <4>1. Quiescing(k)' => Quiescing(k)
        BY <1>1, <1>6, <3>3 DEF Quiescing, HotNow
      <4> QED BY <1>6, <2>2, <3>1, <3>3, <4>1 DEF Quiesced
    <3> QED BY <3>2, <3>3
  <2> QED BY <1>5, <2>1, <2>3, <2>4, <2>5, <2>7 DEF Shape, Hotplug
<1>8. /\ \A y : y # Admin => ListOf(y)' = ListOf(y)
      /\ ListOf(Admin)' = {c} /\ Running(Admin)' = {}
      /\ \A y : /\ RunningAt(y, {"clear"})' = RunningAt(y, {"clear"})
                /\ HandOf(y)' = HandOf(y) /\ Running(y)' = Running(y)
      /\ \A d \in CPUs : \A y, z : Before(cwq[d].worklist, y, z) => Before(cwq'[d].worklist, y, z)
  BY <1>4, <1>5 DEF Adds
<1>9. \A v \in Works : Owner(v)' /\ KnowsCwq(v)'
  <2>1. \A v : CallOf(v)' = CallOf(v)
    BY DEF CallOf
  <2> QED BY <1>0, <1>3, <1>8, <2>1, SameOwner DEF Owned
<1>10. ASSUME NEW s \in Clients
       PROVE  Cancels(s)'
  <2>1. Cancels(s) /\ s # Admin
    BY <1>0 DEF Owned
  <2> QED BY <1>8, <2>1 DEF Cancels
<1>11. ASSUME NEW s \in Clients, NEW o \in owed'[s]
       PROVE  Owes(s, o)'
  <2>1. Owes(s, o) /\ o[1] \in CPUs /\ o[2] \in Works /\ s # Admin /\ o[2] # Admin
    BY <1>0, <1>11 DEF Flushed, TypeOK
  <2>2. /\ ListOf(s)' = ListOf(s) /\ ListOf(o[2])' = ListOf(o[2]) /\ Running(o[2])' = Running(o[2])
        /\ Before(cwq[o[1]].worklist, o[2], s) => Before(cwq'[o[1]].worklist, o[2], s)
    BY <1>8, <2>1
  <2> QED BY <2>1, <2>2 DEF Owes
<1>12. ASSUME NEW s \in Waits
       PROVE  Barrier(s)'
  <2>1. CASE s = Admin
    BY <1>1, <1>3, <1>8, <2>1 DEF Barrier, Awaits, Home, HotNow
  <2>2. CASE s # Admin
    <3>1. Barrier(s) /\ (Awaits(s)' <=> Awaits(s)) /\ Home(s)' = Home(s)
      BY <2>2 DEF Flushed, Awaits, Home
    <3> QED BY <1>3, <1>8, <2>2, <3>1 DEF Barrier
  <2> QED BY <2>1, <2>2
<1> QED BY <1>7, <1>9, <1>10, <1>11, <1>12 DEF Owned, Flushed

\* cleanup_workqueue_thread() queues its barrier behind all that is left.
LEMMA CleanupFlush ==
    ASSUME IInv, cleanup_flush
    PROVE  IInv'
<1> USE DEF IInv
<1>0. /\ hot.at = "flush" /\ cwq[hot.cpu].thread # "none"
      /\ UNCHANGED <<call, owed>> /\ TypeOK /\ hot.cpu \in CPUs
  BY DEF cleanup_flush, Shape, Hotplug, MapsOk
<1>1. CASE Active(hot.cpu)
  BY <1>0, <1>1, CleanupBarrier DEF cleanup_flush
<1>2. CASE ~Active(hot.cpu)
  <2>1. HotStep("stop") /\ UNCHANGED <<work, cwq, done>>
    BY <1>2 DEF cleanup_flush
  <2>2. Worker(hot.cpu, cwq[hot.cpu].thread, cwq[hot.cpu].stop)
    BY <1>0, <2>1, ThreadFields
  <2>3. cwq[hot.cpu].worklist = <<>>
    BY <1>2 DEF Active
  <2>4. ~cwq[hot.cpu].stop /\ cwq[hot.cpu].thread # "exited"
    BY <1>0 DEF Shape, Hotplug, ThreadOk
  <2> QED BY <1>0, <2>1, <2>2, <2>3, <2>4, HotGoesOn
<1> QED BY <1>1, <1>2

\* Where the hotplug task goes with a worker that is gone.
LEMMA CleanupGoesOn ==
    ASSUME Shape, hot' = CleanupNext, hot.at \in {"flush", "stop_wait"}
    PROVE  \/ hot.todo = {} /\ HotNow(hot.online, hot.populated \ {hot.cpu}, 0, {}, "idle")
           \/ hot.todo = {hot.cpu} /\ HotNow(hot.online, hot.populated, 0, {}, "destroyed")
           \/ /\ hot.todo # {}
              /\ \E k \in hot.todo \ {hot.cpu} :
                    HotNow(hot.online, hot.populated, k, hot.todo \ {hot.cpu}, "flush")
<1>0. TypeOK /\ hot.cpu \in CPUs /\ (hot.todo # {} => hot.cpu \in hot.todo)
      /\ hot.todo \subseteq CPUs /\ hot.populated \subseteq CPUs /\ 0 \in 0..NCPU
      /\ "idle" \in HotPlaces /\ "destroyed" \in HotPlaces /\ "flush" \in HotPlaces
  BY Types, WorkQueueAssumption DEF Shape, Hotplug, MapsOk, HotPlaces
<1>l. PICK left \in SUBSET CPUs : left = hot.todo \ {hot.cpu}
  BY <1>0
<1>1. CASE hot.todo = {}
  <2>1. PICK pop \in SUBSET CPUs : pop = hot.populated \ {hot.cpu}
    BY <1>0
  <2>2. hot \in HotRec
    BY <1>0, Types
  <2>3. PICK h : h = [hot EXCEPT !.at = "idle", !.cpu = 0]
    OBVIOUS
  <2>4. h.populated = hot.populated
    BY <2>2, <2>3 DEF HotRec
  <2>5. hot' = [h EXCEPT !.populated = @ \ {hot.cpu}]
    BY <1>1, <2>3 DEF CleanupNext, HotIdle
  <2>6. hot' = [h EXCEPT !.populated = pop]
    BY <2>1, <2>4, <2>5
  <2>7. hot' = [hot EXCEPT !.at = "idle", !.cpu = 0, !.populated = pop]
    BY <2>3, <2>6
  <2>8. HotNow(hot.online, pop, 0, hot.todo, "idle")
    BY <1>0, <2>7, HotFields
  <2> QED BY <1>1, <2>1, <2>8
<1>2. CASE hot.todo # {} /\ left = {}
  <2>1. hot' = [hot EXCEPT !.at = "destroyed", !.cpu = 0, !.todo = {}]
    BY <1>2, <1>l DEF CleanupNext
  <2>2. HotNow(hot.online, hot.populated, 0, {}, "destroyed")
    BY <1>0, <2>1, HotFields
  <2>3. hot.todo = {hot.cpu}
    BY <1>0, <1>2, <1>l
  <2> QED BY <2>2, <2>3
<1>3. CASE hot.todo # {} /\ left # {}
  <2>1. \E m \in left : \A d \in left : m <= d
    BY <1>3, LeastNatural DEF CPUs
  <2>2. PICK k : k = CHOOSE c \in left : \A d \in left : c <= d
    OBVIOUS
  <2>3. k \in left /\ k \in 0..NCPU
    <3>1. k \in left
      BY <2>1, <2>2, Zenon
    <3> QED BY <3>1, WorkQueueAssumption DEF CPUs
  <2>4. hot' = [hot EXCEPT !.at = "flush", !.todo = left, !.cpu = k]
    BY <1>3, <1>l, <2>2 DEF CleanupNext
  <2>5. HotNow(hot.online, hot.populated, k, left, "flush")
    BY <1>0, <2>3, <2>4, HotFields
  <2> QED BY <1>3, <1>l, <2>3, <2>5
<1> QED BY <1>1, <1>2, <1>3

\* The worker of the CPU is gone, or has just gone.
LEMMA CleanupDone ==
    ASSUME IInv, NEW c \in CPUs, c = hot.cpu, hot' = CleanupNext, hot.at \in {"flush", "stop_wait"},
           UNCHANGED <<work, call, done, owed>>, Worker(c, "none", FALSE),
           cwq[c].thread \in {"none", "exited"}
    PROVE  IInv'
<1> USE DEF IInv
<1>0. /\ TypeOK /\ MapsOk
      /\ \A k \in CPUs : ThreadOk(k, cwq[k].thread, cwq[k].stop) /\ Quiesced(k)
      /\ cwq[c].worklist = <<>>
  BY DEF Shape, Hotplug, Quiesced, Quiescing
<1>t. /\ cwq'[c].thread = "none" /\ cwq'[c].stop = FALSE
      /\ \A k \in CPUs : k # c => cwq'[k].thread = cwq[k].thread /\ cwq'[k].stop = cwq[k].stop
  BY DEF Worker
<1>n. \/ hot.todo = {} /\ HotNow(hot.online, hot.populated \ {c}, 0, {}, "idle")
      \/ hot.todo = {c} /\ HotNow(hot.online, hot.populated, 0, {}, "destroyed")
      \/ /\ hot.todo # {}
         /\ \E k \in hot.todo \ {c} :
               HotNow(hot.online, hot.populated, k, hot.todo \ {c}, "flush")
  BY CleanupGoesOn
<1>1. CASE hot.todo = {} /\ HotNow(hot.online, hot.populated \ {c}, 0, {}, "idle")
  <2>1. /\ hot' \in HotRec /\ hot'.online = hot.online /\ hot'.populated = hot.populated \ {c}
        /\ hot'.cpu = 0 /\ hot'.todo = {} /\ hot'.at = "idle" /\ hot'.single = hot.single
    BY <1>1 DEF HotNow
  <2>2. c \notin hot.online /\ ~hot.single
    BY <1>0, <1>1 DEF MapsOk
  <2>3. MapsOk'
    BY <1>0, <1>1, <2>1, <2>2 DEF MapsOk
  <2>4. wq_cpu_map = hot.populated /\ wq_cpu_map' = hot.populated \ {c}
    BY <2>1, <2>2 DEF wq_cpu_map
  <2>5. ASSUME NEW k \in CPUs
        PROVE  ThreadOk(k, cwq[k].thread, cwq[k].stop)'
    <3>1. CASE k = c
      BY <1>t, <2>1, <2>4, <3>1 DEF ThreadOk
    <3>2. CASE k # c
      BY <1>0, <1>1, <1>t, <2>1, <2>4, <3>2 DEF ThreadOk
    <3> QED BY <3>1, <3>2
  <2>6. \A k \in CPUs : Quiescing(k)' => Quiescing(k)
    BY <1>t, <2>1 DEF Quiescing
  <2>7. \A t \in Clients : call[t].pc = "insert" => call[t].cpu \in hot'.online
    BY <2>1 DEF Shape, CallsOk, CallOk
  <2> QED BY <2>1, <2>3, <2>5, <2>6, <2>7, HotMoves
<1>2. CASE hot.todo = {c} /\ HotNow(hot.online, hot.populated, 0, {}, "destroyed")
  <2>1. /\ hot' \in HotRec /\ hot'.online = hot.online /\ hot'.populated = hot.populated
        /\ hot'.cpu = 0 /\ hot'.todo = {} /\ hot'.at = "destroyed" /\ hot'.single = hot.single
    BY <1>2 DEF HotNow
  <2>3. MapsOk'
    BY <1>0, <1>2, <2>1 DEF MapsOk
  <2>4. wq_cpu_map' = wq_cpu_map
    BY <2>1 DEF wq_cpu_map
  <2>5. ASSUME NEW k \in CPUs
        PROVE  ThreadOk(k, cwq[k].thread, cwq[k].stop)'
    <3>1. CASE k = c
      BY <1>t, <2>1, <2>4, <3>1 DEF ThreadOk
    <3>2. CASE k # c
      BY <1>0, <1>2, <1>t, <2>1, <2>4, <3>2 DEF ThreadOk
    <3> QED BY <3>1, <3>2
  <2>6. \A k \in CPUs : Quiescing(k)' => Quiescing(k) \/ cwq[k].worklist = <<>>
    BY <1>0, <1>t, <2>1 DEF Quiescing
  <2>7. NoUsers
    BY <1>2 DEF Shape, Hotplug
  <2>8. \A t \in Clients : call[t].pc = "insert" => call[t].cpu \in hot'.online
    BY <2>7 DEF NoUsers
  <2> QED BY <2>1, <2>3, <2>5, <2>6, <2>7, <2>8, HotMoves
<1>3. CASE /\ hot.todo # {}
           /\ \E k \in hot.todo \ {c} :
                 HotNow(hot.online, hot.populated, k, hot.todo \ {c}, "flush")
  <2>0. PICK e \in hot.todo \ {c} : HotNow(hot.online, hot.populated, e, hot.todo \ {c}, "flush")
    BY <1>3
  <2>1. /\ hot' \in HotRec /\ hot'.online = hot.online /\ hot'.populated = hot.populated
        /\ hot'.cpu = e /\ hot'.todo = hot.todo \ {c} /\ hot'.at = "flush"
        /\ hot'.single = hot.single /\ e \in CPUs /\ e \in hot'.todo
    BY <1>0, <2>0, Types DEF HotNow
  <2>3. MapsOk'
    BY <1>0, <1>3, <2>1 DEF MapsOk
  <2>4. wq_cpu_map' = wq_cpu_map
    BY <2>1 DEF wq_cpu_map
  <2>5. ASSUME NEW k \in CPUs
        PROVE  ThreadOk(k, cwq[k].thread, cwq[k].stop)'
    <3>1. CASE k = c
      BY <1>t, <2>1, <2>4, <3>1 DEF ThreadOk
    <3>2. CASE k # c
      BY <1>0, <1>3, <1>t, <2>1, <2>4, <3>2 DEF ThreadOk
    <3> QED BY <3>1, <3>2
  <2>6. \A k \in CPUs : Quiescing(k)' => Quiescing(k) \/ cwq[k].worklist = <<>>
    BY <1>0, <1>t, <2>1 DEF Quiescing
  <2>7. NoUsers
    BY <1>3 DEF Shape, Hotplug
  <2>8. \A t \in Clients : call[t].pc = "insert" => call[t].cpu \in hot'.online
    BY <2>7 DEF NoUsers
  <2> QED BY <2>1, <2>3, <2>5, <2>6, <2>7, <2>8, HotMoves
<1> QED BY <1>n, <1>1, <1>2, <1>3

\* The worker has exited, and its cwq has no thread any more.
LEMMA CleanupExit ==
    ASSUME IInv, cleanup_exit
    PROVE  IInv'
<1> USE DEF IInv
<1>0. /\ hot.at = "stop_wait" /\ hot.cpu \in CPUs /\ cwq[hot.cpu].thread = "exited"
      /\ cwq' = [cwq EXCEPT ![hot.cpu].thread = "none", ![hot.cpu].stop = FALSE]
      /\ hot' = CleanupNext /\ UNCHANGED <<work, call, done, owed>> /\ TypeOK
  BY DEF cleanup_exit, Shape, Hotplug, MapsOk
<1>1. Worker(hot.cpu, "none", FALSE)
  BY <1>0, ThreadFields DEF Threads
<1> QED BY <1>0, <1>1, CleanupDone

\* cleanup_workqueue_thread() of a cwq that has no thread.
LEMMA CleanupSkip ==
    ASSUME IInv, cleanup_skip
    PROVE  IInv'
<1> USE DEF IInv
<1>0. /\ hot.at = "flush" /\ hot.cpu \in CPUs /\ cwq[hot.cpu].thread = "none"
      /\ hot' = CleanupNext /\ UNCHANGED <<work, cwq, call, done, owed>> /\ TypeOK
  BY DEF cleanup_skip, Shape, Hotplug, MapsOk
<1>1. cwq[hot.cpu].stop = FALSE
  BY <1>0, Types DEF Shape, Hotplug, ThreadOk
<1>2. Worker(hot.cpu, "none", FALSE)
  BY <1>0, <1>1, ThreadFields
<1> QED BY <1>0, <1>2, CleanupDone

\* A CPU comes up, with a new thread or without.
LEMMA CpuComesUp ==
    ASSUME IInv, NEW c \in CPUs \ hot.online, hot.at = "idle",
           UNCHANGED <<work, call, done, owed>>, NEW a, NEW th,
           HotNow(hot.online, hot.populated \cup {c}, c, hot.todo, a), Worker(c, th, cwq[c].stop),
           \/ a = "prepared" /\ th = "created"
           \/ a = "flush" /\ th = cwq[c].thread
    PROVE  IInv'
<1> USE DEF IInv
<1>0. /\ TypeOK /\ MapsOk /\ c \in CPUs /\ c \notin hot.online
      /\ \A k \in CPUs : ThreadOk(k, cwq[k].thread, cwq[k].stop) /\ Quiesced(k)
  BY DEF Shape, Hotplug
<1>1. /\ hot' \in HotRec /\ hot'.online = hot.online /\ hot'.populated = hot.populated \cup {c}
      /\ hot'.cpu = c /\ hot'.todo = hot.todo /\ hot'.at = a /\ hot'.single = hot.single
  BY DEF HotNow
<1>t. /\ cwq'[c].thread = th /\ cwq'[c].stop = cwq[c].stop
      /\ \A k \in CPUs : k # c => cwq'[k].thread = cwq[k].thread /\ cwq'[k].stop = cwq[k].stop
  BY DEF Worker
<1>2. hot.single = FALSE /\ c \notin hot.populated /\ hot.todo = {}
  BY <1>0, Types DEF MapsOk
<1>3. MapsOk'
  BY <1>0, <1>1, <1>2 DEF MapsOk
<1>4. wq_cpu_map = hot.populated /\ wq_cpu_map' = hot.populated \cup {c}
  BY <1>1, <1>2 DEF wq_cpu_map
<1>5. cwq[c].thread = "none" /\ cwq[c].stop = FALSE /\ cwq[c].worklist = <<>>
  BY <1>0, <1>2, <1>4, Types DEF ThreadOk, Quiesced, Quiescing
<1>6. ASSUME NEW k \in CPUs
      PROVE  ThreadOk(k, cwq[k].thread, cwq[k].stop)'
  <2>1. CASE k = c
    BY <1>1, <1>2, <1>4, <1>5, <1>t, <2>1 DEF ThreadOk
  <2>2. CASE k # c
    BY <1>0, <1>1, <1>2, <1>4, <1>t, <2>2 DEF ThreadOk
  <2> QED BY <2>1, <2>2
<1>7. \A k \in CPUs : Quiescing(k)' => Quiescing(k) \/ cwq[k].worklist = <<>>
  BY <1>1, <1>5, <1>t DEF Quiescing
<1>8. \A t \in Clients : call[t].pc = "insert" => call[t].cpu \in hot'.online
  BY <1>1 DEF Shape, CallsOk, CallOk
<1>9. th = "busy" <=> cwq[c].thread = "busy"
  BY <1>5
<1>10. /\ hot.at # "flush_wait" \/ Admin \in done
       /\ hot'.todo # {} \/ hot'.at = "destroyed" => NoUsers
  BY <1>1, <1>2
<1> QED BY <1>0, <1>1, <1>3, <1>6, <1>7, <1>8, <1>9, <1>10, HotMoves

\* CPU_UP_PREPARE: a thread is made for the CPU, or the CPU stays down.
LEMMA CpuUpPrepare ==
    ASSUME IInv, NEW c \in CPUs, cpu_up_prepare(c) \/ cpu_up_fails(c)
    PROVE  IInv'
<1> USE DEF IInv
<1>0. /\ hot.at = "idle" /\ c \in CPUs \ hot.online /\ UNCHANGED <<work, call, done, owed>> /\ TypeOK
  BY DEF cpu_up_prepare, cpu_up_fails, Shape
<1>p. PICK pop \in SUBSET CPUs : pop = hot.populated \cup {c}
  BY <1>0, Types
<1>k. c \in 0..NCPU /\ "prepared" \in HotPlaces /\ "flush" \in HotPlaces /\ "created" \in Threads
  BY DEF CPUs, HotPlaces, Threads
<1>1. CASE cpu_up_prepare(c)
  <2>1. hot' = [hot EXCEPT !.populated = pop, !.at = "prepared", !.cpu = c]
    BY <1>0, <1>1, <1>p, Types DEF cpu_up_prepare
  <2>2. HotNow(hot.online, hot.populated \cup {c}, c, hot.todo, "prepared")
    BY <1>0, <1>p, <1>k, <2>1, HotFields
  <2>3. Worker(c, "created", cwq[c].stop)
    BY <1>0, <1>1, <1>k, ThreadFields DEF cpu_up_prepare
  <2> QED BY <1>0, <2>2, <2>3, CpuComesUp
<1>2. CASE cpu_up_fails(c)
  <2>1. hot' = [hot EXCEPT !.populated = pop, !.at = "flush", !.cpu = c]
    BY <1>0, <1>2, <1>p, Types DEF cpu_up_fails
  <2>2. HotNow(hot.online, hot.populated \cup {c}, c, hot.todo, "flush")
    BY <1>0, <1>p, <1>k, <2>1, HotFields
  <2>3. Worker(c, cwq[c].thread, cwq[c].stop)
    BY <1>0, <1>2, ThreadFields DEF cpu_up_fails
  <2> QED BY <1>0, <2>2, <2>3, CpuComesUp
<1> QED BY <1>1, <1>2

\* CPU_ONLINE: the thread is started.
LEMMA CpuUp ==
    ASSUME IInv, cpu_up
    PROVE  IInv'
<1> USE DEF IInv
<1>0. /\ hot.at = "prepared" /\ UNCHANGED <<work, cwq, call, done, owed>> /\ TypeOK
      /\ MapsOk /\ hot.cpu \in CPUs
      /\ \A k \in CPUs : ThreadOk(k, cwq[k].thread, cwq[k].stop)
  BY DEF cpu_up, Shape, Hotplug, MapsOk
<1>1. HotNow(hot.online \cup {hot.cpu}, hot.populated, hot.cpu, hot.todo, "online")
  <2>1. PICK on \in SUBSET CPUs : on = hot.online \cup {hot.cpu}
    BY <1>0, Types
  <2>2. hot' = [hot EXCEPT !.online = on, !.at = "online"]
    BY <1>0, <2>1, Types DEF cpu_up
  <2> QED BY <1>0, <2>1, <2>2, HotFields DEF HotPlaces
<1>2. /\ hot' \in HotRec /\ hot'.online = hot.online \cup {hot.cpu} /\ hot'.populated = hot.populated
      /\ hot'.cpu = hot.cpu /\ hot'.todo = hot.todo /\ hot'.at = "online" /\ hot'.single = hot.single
  BY <1>1 DEF HotNow
<1>3. hot.todo = {} /\ ~hot.single
  BY <1>0 DEF MapsOk
<1>4. MapsOk'
  BY <1>0, <1>2, <1>3 DEF MapsOk
<1>5. wq_cpu_map' = wq_cpu_map
  BY <1>2 DEF wq_cpu_map
<1>6. \A k \in CPUs : ThreadOk(k, cwq[k].thread, cwq[k].stop)'
  BY <1>0, <1>2, <1>3, <1>5 DEF ThreadOk
<1>7. \A k \in CPUs : Quiescing(k)' => Quiescing(k)
  BY <1>0, <1>2 DEF Quiescing
<1>8. \A t \in Clients : call[t].pc = "insert" => call[t].cpu \in hot'.online
  BY <1>2 DEF Shape, CallsOk, CallOk
<1>9. Worker(hot.cpu, cwq[hot.cpu].thread, cwq[hot.cpu].stop)
  BY <1>0, ThreadFields
<1> QED BY <1>0, <1>2, <1>3, <1>4, <1>6, <1>7, <1>8, <1>9, HotMoves

\* The thread of the CPU is started.
LEMMA WorkerStarts ==
    ASSUME IInv, cpu_online \/ cpu_up_canceled
    PROVE  IInv'
<1> USE DEF IInv
<1>0. /\ hot.at \in {"online", "prepared"} /\ UNCHANGED <<work, call, done, owed>> /\ TypeOK
      /\ MapsOk /\ hot.cpu \in CPUs
      /\ \A k \in CPUs : ThreadOk(k, cwq[k].thread, cwq[k].stop) /\ Quiesced(k)
      /\ cwq' = [cwq EXCEPT ![hot.cpu].thread = "prepare", ![hot.cpu].awake = TRUE]
  BY DEF cpu_online, cpu_up_canceled, start_workqueue_thread, Shape, Hotplug, MapsOk
<1>c. PICK c \in CPUs : c = hot.cpu
  BY <1>0
<1>1. PICK k \in 0..NCPU, a \in {"idle", "flush"} :
          /\ HotNow(hot.online, hot.populated, k, hot.todo, a)
          /\ \/ hot.at = "online" /\ a = "idle"
             \/ hot.at = "prepared" /\ a = "flush" /\ k = c
  <2>0. 0 \in 0..NCPU /\ "idle" \in HotPlaces /\ "flush" \in HotPlaces /\ c \in 0..NCPU
    BY WorkQueueAssumption DEF HotPlaces, CPUs
  <2>1. CASE cpu_online
    <3>1. hot.at = "online" /\ hot' = [hot EXCEPT !.at = "idle", !.cpu = 0]
      BY <2>1 DEF cpu_online, start_workqueue_thread, HotIdle
    <3>2. HotNow(hot.online, hot.populated, 0, hot.todo, "idle")
      BY <1>0, <2>0, <3>1, HotFields
    <3> QED BY <2>0, <3>1, <3>2
  <2>2. CASE cpu_up_canceled
    <3>1. hot.at = "prepared" /\ hot' = [hot EXCEPT !.at = "flush"]
      BY <2>2 DEF cpu_up_canceled, start_workqueue_thread
    <3>2. HotNow(hot.online, hot.populated, c, hot.todo, "flush")
      BY <1>0, <1>c, <2>0, <3>1, HotFields
    <3> QED BY <2>0, <3>1, <3>2
  <2> QED BY <2>1, <2>2
<1>2. /\ hot' \in HotRec /\ hot'.online = hot.online /\ hot'.populated = hot.populated
      /\ hot'.cpu = k /\ hot'.todo = hot.todo /\ hot'.at = a /\ hot'.single = hot.single
  BY <1>1 DEF HotNow
<1>3. hot.todo = {} /\ ~hot.single
  BY <1>0 DEF MapsOk
<1>4. MapsOk'
  BY <1>0, <1>1, <1>2, <1>3, <1>c DEF MapsOk
<1>5. wq_cpu_map' = wq_cpu_map /\ wq_cpu_map = hot.populated
  BY <1>2, <1>3 DEF wq_cpu_map
<1>6. Worker(c, "prepare", cwq[c].stop)
  BY <1>0, <1>c, ThreadFields DEF Threads
<1>t. /\ cwq'[c].thread = "prepare" /\ cwq'[c].stop = cwq[c].stop
      /\ \A e \in CPUs : e # c => cwq'[e].thread = cwq[e].thread /\ cwq'[e].stop = cwq[e].stop
  BY <1>6 DEF Worker
<1>7. cwq[c].thread = "created" /\ cwq[c].stop = FALSE /\ c \in hot.populated
  BY <1>0, <1>c, Types DEF ThreadOk, MapsOk
<1>8. ASSUME NEW e \in CPUs
      PROVE  ThreadOk(e, cwq[e].thread, cwq[e].stop)'
  <2>1. CASE e = c
    BY <1>1, <1>2, <1>3, <1>5, <1>7, <1>t, <2>1 DEF ThreadOk
  <2>2. CASE e # c
    <3>1. ThreadOk(e, cwq[e].thread, cwq[e].stop)
      BY <1>0
    <3>2. /\ cwq[e].thread \notin {"created", "exited"} /\ ~cwq[e].stop
          /\ cwq[e].thread = "none" <=> e \notin hot.populated
      BY <1>0, <1>3, <1>5, <1>c, <2>2, <3>1 DEF ThreadOk
    <3>3. hot'.at \in {"idle", "flush"} /\ hot'.todo = {} /\ wq_cpu_map' = hot.populated
      BY <1>2, <1>3, <1>5
    <3> QED BY <1>t, <2>2, <3>2, <3>3 DEF ThreadOk
  <2> QED BY <2>1, <2>2
<1>9. \A e \in CPUs : Quiescing(e)' => Quiescing(e)
  BY <1>1, <1>2, <1>t DEF Quiescing
<1>10. \A t \in Clients : call[t].pc = "insert" => call[t].cpu \in hot'.online
  BY <1>2 DEF Shape, CallsOk, CallOk
<1>11. /\ "prepare" = "busy" <=> cwq[c].thread = "busy"
       /\ hot.at # "flush_wait" \/ Admin \in done
       /\ hot'.todo # {} \/ hot'.at = "destroyed" => NoUsers
  BY <1>0, <1>1, <1>2, <1>3, <1>7
<1> QED BY <1>0, <1>2, <1>4, <1>6, <1>8, <1>9, <1>10, <1>11, HotMoves

------------------------------------------------------------------------------
\* A new workqueue is in order.
LEMMA InitInvariant == Init => IInv
<1> SUFFICES ASSUME Init
             PROVE  IInv
  OBVIOUS
<1>1. PICK s \in Single : hot = [single |-> s, online |-> CPUs, populated |-> CPUs,
                                 cpu |-> 0, todo |-> {}, at |-> "idle"]
  BY DEF Init
<1>2. /\ hot \in HotRec /\ hot.online = CPUs /\ hot.populated = CPUs /\ hot.cpu = 0
      /\ hot.todo = {} /\ hot.at = "idle" /\ hot.single = s
  BY <1>1, WorkQueueAssumption DEF HotRec
<1>3. /\ work \in [Works -> WorkRec]
      /\ \A w \in Works : work[w].pending = FALSE /\ work[w].timer = "none"
  <2>1. [pending |-> FALSE, cwq |-> 0, timer |-> "none"] \in WorkRec
    BY WorkQueueAssumption DEF WorkRec
  <2> QED BY <2>1 DEF Init
<1>4. /\ call \in [Clients -> Calls]
      /\ \A t \in Clients : call[t].pc = "idle" /\ call[t].w = NULL /\ call[t].got = FALSE
  <2>1. Idle \in Calls /\ Idle.pc = "idle" /\ Idle.w = NULL /\ Idle.got = FALSE
    BY WorkQueueAssumption DEF Idle, Calls
  <2> QED BY <2>1 DEF Init
<1>5. /\ cwq \in [CPUs -> CwqRec]
      /\ \A c \in CPUs : /\ cwq[c].worklist = <<>> /\ cwq[c].frames = <<>>
                         /\ cwq[c].current_work = NULL /\ cwq[c].stop = FALSE
                         /\ cwq[c].thread = IF c \in wq_cpu_map THEN "prepare" ELSE "none"
  <2>1. ASSUME NEW th \in {"prepare", "none"}
        PROVE  [worklist |-> <<>>, current_work |-> NULL, frames |-> <<>>,
                thread |-> th, awake |-> TRUE, stop |-> FALSE] \in CwqRec
    <3>1. <<>> \in Seq(Items) /\ <<>> \in Seq(RunFrames)
      OBVIOUS
    <3> QED BY <2>1, <3>1 DEF CwqRec
  <2>2. \A c \in CPUs : (IF c \in wq_cpu_map THEN "prepare" ELSE "none") \in {"prepare", "none"}
    OBVIOUS
  <2> QED BY <2>1, <2>2 DEF Init
<1>6. done = {} /\ owed = [t \in Clients |-> {}]
  BY DEF Init
<1>7. wq_cpu_map \subseteq CPUs
  BY <1>2, WorkQueueAssumption DEF wq_cpu_map, CPUs
<1>8. TypeOK
  BY <1>2, <1>3, <1>4, <1>5, <1>6 DEF TypeOK
<1>9. Workers
  <2>1. NoDup(<<>>)
    BY DEF NoDup
  <2>2. FramesOk(<<>>, NULL)
    BY DEF FramesOk
  <2> QED BY <1>5, <2>1, <2>2 DEF Workers, WorkerOk
<1>10. CallsOk
  BY <1>4 DEF CallsOk, CallOk
<1>11. Hotplug
  <2>1. MapsOk
    BY <1>2 DEF MapsOk
  <2>2. \A c \in CPUs : ThreadOk(c, cwq[c].thread, cwq[c].stop)
    BY <1>2, <1>5 DEF ThreadOk
  <2>3. \A c \in CPUs : Quiesced(c)
    BY <1>5 DEF Quiesced
  <2> QED BY <1>2, <2>1, <2>2, <2>3 DEF Hotplug
<1>12. \A x : ListOf(x) = {} /\ HandOf(x) = {} /\ Running(x) = {} /\ RunningAt(x, {"clear"}) = {}
  BY <1>5 DEF ListOf, HandOf, Running, RunningAt, Members
<1>13. Owned
  <2>1. ASSUME NEW w \in Works
        PROVE  Owner(w) /\ KnowsCwq(w)
    <3>1. CallOf(w) = {} /\ TimerOf(w) = {}
      BY <1>3, <1>4 DEF CallOf, TimerOf
    <3> QED BY <1>3, <1>12, <3>1 DEF Owner, KnowsCwq
  <2> QED BY <1>4, <2>1 DEF Owned, Cancels
<1>14. Flushed
  BY <1>6, <1>12 DEF Flushed, Barrier
<1> QED BY <1>8, <1>9, <1>10, <1>11, <1>13, <1>14 DEF IInv, Shape

\* Every step of the workqueue, its users, its timers and the hotplug task.
LEMMA NextInvariant == IInv /\ [Next]_vars => IInv'
<1> SUFFICES ASSUME IInv, [Next]_vars
             PROVE  IInv'
  OBVIOUS
<1>1. ASSUME NEW t \in Clients, ClientCall(t)
      PROVE  IInv'
  BY <1>1, QueueWork, FlushWorkqueue, FlushWork, CancelDelayedWork, CancelWorkSync DEF ClientCall
<1>2. ASSUME NEW t \in Clients, ClientStep(t)
      PROVE  IInv'
  BY <1>2, QueueInsert, ArmTimer, FlushCpuWorkqueue, FlushSkip, FlushWaited, FlushWorkLock,
     FlushWorkWaited, FlushWorkReturn, CancelDelTimer, GrabPending, GrabRead, GrabLock,
     WaitOnWork, WaitOnCpuWork, WaitOnCpuWaited, CancelClear DEF ClientStep
<1>3. ASSUME NEW c \in CPUs, CallbackCall(c) \/ WorkerStep(c)
      PROVE  IInv'
  BY <1>3, RunRequeue, FlushOwnWorkqueue, WorkerSleeps, RunWorkqueue, RunClear, RunFunction,
     RunReturn, RunRequeueInsert DEF CallbackCall, WorkerStep
<1>4. ASSUME NEW w \in Works, TimerStep(w)
      PROVE  IInv'
  BY <1>4, TimerExpires, DelayedWorkTimer DEF TimerStep
<1>5. ASSUME HotCall \/ AdminStep
      PROVE  IInv'
  BY <1>5, DestroyWorkqueue, CpuDown, CpuUpPrepare, CleanupFlush, CleanupWaited, CleanupStop,
     CleanupExit, CleanupSkip, CpuUp, WorkerStarts DEF HotCall, AdminStep
<1>6. CASE UNCHANGED vars
  <2>1. /\ UNCHANGED <<work, call, done, hot, owed>>
        /\ \A d \in CPUs : /\ cwq'[d].worklist = cwq[d].worklist
                           /\ cwq'[d].frames = cwq[d].frames
    BY <1>6 DEF vars
  <2>2. Owned' /\ Flushed'
    BY <2>1, SameView
  <2>3. Shape'
    <3>1. TypeOK'
      BY <1>6 DEF vars, TypeOK, IInv, Shape
    <3>2. Workers' /\ \A k \in CPUs : ThreadOk(k, cwq'[k].thread, cwq'[k].stop) /\ Quiesced(k)'
      BY <1>6 DEF vars, Workers, WorkerOk, IInv, Shape, Hotplug, Quiesced, Quiescing
    <3>3. hot.todo # {} \/ hot.at = "destroyed" => \A w \in Works : work'[w].timer = "none"
      BY <1>6 DEF vars, IInv, Shape, Hotplug, NoUsers
    <3> QED BY <2>1, <3>1, <3>2, <3>3, SteadyShape DEF IInv
  <2> QED BY <2>2, <2>3 DEF IInv
<1>7. CASE Finished
  BY <1>6, <1>7 DEF Finished
<1> QED BY <1>1, <1>2, <1>3, <1>4, <1>5, <1>6, <1>7 DEF Next, Settle

\* What the workers hold, who owns a work and where the barriers are, in every
\* reachable state.
THEOREM WorkQueueInvariant == Spec => []IInv
<1>1. Init => IInv
  BY InitInvariant
<1>2. IInv /\ [Next]_vars => IInv'
  BY NextInvariant
<1> QED BY <1>1, <1>2, PTL DEF Spec

\* The worker that runs a work is the one whose cwq the work points to:
\* BUG_ON(get_wq_data(work) != cwq) in run_workqueue() is never hit.
THEOREM WorkQueueConsistent == Spec => []Consistent
<1>1. IInv => Consistent
  <2> SUFFICES ASSUME IInv
               PROVE  Consistent
    OBVIOUS
  <2>1. ASSUME NEW c \in CPUs, RunsAt(c, "clear"), Item(c) \in Works
        PROVE  work[Item(c)].cwq = c
    <3>1. PICK fs \in Seq(RunFrames) : fs = cwq[c].frames
      BY Types DEF IInv, Shape
    <3>2. fs # <<>> /\ fs[Len(fs)].item = Item(c) /\ fs[Len(fs)].at \in {"clear"}
      BY <2>1, <3>1 DEF RunsAt, Item
    <3>3. c \in RunningAt(Item(c), {"clear"})
      BY <3>1, <3>2, WhatRuns DEF IInv
    <3> QED BY <2>1, <3>3 DEF IInv, Owned, KnowsCwq
  <2> QED BY <2>1 DEF Consistent, RunsWhereQueued, IInv, Shape
<1> QED BY <1>1, WorkQueueInvariant, PTL

\* The owners that the model counts are those of the invariant.
LEMMA OwnersAre ==
    ASSUME NEW w \in Works
    PROVE  PendingOwners(w) = {<<"list", c>> : c \in ListOf(w)} \cup {<<"timer", s>> : s \in TimerOf(w)}
                        \cup {<<"call", t>> : t \in CallOf(w)} \cup {<<"worker", c>> : c \in HandOf(w)}
BY DEF PendingOwners, ListOf, TimerOf, CallOf, HandOf

\* So there is one owner of a bit that is set, and none of one that is clear.
LEMMA OneOwner ==
    ASSUME IInv, NEW w \in Works
    PROVE  Cardinality(PendingOwners(w)) = IF work[w].pending THEN 1 ELSE 0
<1>1. Owner(w)
  BY DEF IInv, Owned
<1>2. CASE ~work[w].pending
  <2>1. ListOf(w) = {} /\ HandOf(w) = {} /\ CallOf(w) = {} /\ TimerOf(w) = {}
    BY <1>1, <1>2, Sole
  <2>2. PendingOwners(w) = {}
    BY <2>1, OwnersAre
  <2> QED BY <1>2, <2>2, FS_EmptySet
<1>3. CASE work[w].pending
  <2>1. \E o : PendingOwners(w) = {o}
    <3>1. \/ Alone(ListOf(w), HandOf(w), CallOf(w), TimerOf(w))
          \/ Alone(HandOf(w), ListOf(w), CallOf(w), TimerOf(w))
          \/ Alone(CallOf(w), ListOf(w), HandOf(w), TimerOf(w))
          \/ Alone(TimerOf(w), ListOf(w), HandOf(w), CallOf(w))
      BY <1>1, <1>3 DEF Owner
    <3>2. CASE Alone(ListOf(w), HandOf(w), CallOf(w), TimerOf(w))
      <4>1. PICK x : ListOf(w) = {x}
        BY <3>2 DEF Alone
      <4>2. PendingOwners(w) = {<<"list", x>>}
        BY <3>2, <4>1, OwnersAre DEF Alone
      <4> QED BY <4>2
    <3>3. CASE Alone(HandOf(w), ListOf(w), CallOf(w), TimerOf(w))
      <4>1. PICK x : HandOf(w) = {x}
        BY <3>3 DEF Alone
      <4>2. PendingOwners(w) = {<<"worker", x>>}
        BY <3>3, <4>1, OwnersAre DEF Alone
      <4> QED BY <4>2
    <3>4. CASE Alone(CallOf(w), ListOf(w), HandOf(w), TimerOf(w))
      <4>1. PICK x : CallOf(w) = {x}
        BY <3>4 DEF Alone
      <4>2. PendingOwners(w) = {<<"call", x>>}
        BY <3>4, <4>1, OwnersAre DEF Alone
      <4> QED BY <4>2
    <3>5. CASE Alone(TimerOf(w), ListOf(w), HandOf(w), CallOf(w))
      <4>1. PICK x : TimerOf(w) = {x}
        BY <3>5 DEF Alone
      <4>2. PendingOwners(w) = {<<"timer", x>>}
        BY <3>5, <4>1, OwnersAre DEF Alone
      <4> QED BY <4>2
    <3> QED BY <3>1, <3>2, <3>3, <3>4, <3>5
  <2> QED BY <1>3, <2>1, FS_Singleton
<1> QED BY <1>2, <1>3

\* The PENDING bit is a lock: a set bit has exactly one owner.
THEOREM WorkQueuePendingHasOneOwner == Spec => []PendingHasOneOwner
<1>1. IInv => PendingHasOneOwner
  BY OneOwner DEF PendingHasOneOwner
<1> QED BY <1>1, WorkQueueInvariant, PTL

\* When cancel_work_sync() lets go of the work, it is nowhere and runs nowhere,
\* but in a callback that has flushed its own workqueue.
THEOREM WorkQueueCancelledIsQuiet == Spec => []CancelledIsQuiet
<1>1. IInv => CancelledIsQuiet
  <2> SUFFICES ASSUME IInv, NEW t \in Clients, call[t].pc = "c_clear"
               PROVE  /\ PendingOwners(call[t].w) = {<<"call", t>>}
                      /\ Running(call[t].w) = {}
    BY DEF CancelledIsQuiet
  <2>1. PICK w \in Works : w = call[t].w
    BY DEF IInv, Shape, CallsOk, CallOk
  <2>2. call[t].got /\ call[t].cpu = NCPU + 1
    BY DEF IInv, Shape, CallsOk, CallOk
  <2>3. t \in CallOf(w)
    BY <2>1, <2>2 DEF CallOf
  <2>4. CallOf(w) = {t} /\ ListOf(w) = {} /\ HandOf(w) = {} /\ TimerOf(w) = {}
    BY <2>3, Sole DEF IInv, Owned
  <2>5. PendingOwners(w) = {<<"call", t>>}
    BY <2>4, OwnersAre
  <2>6. \A c \in Running(w) : c >= NCPU + 1 /\ c \in CPUs
    BY <2>1, <2>2 DEF IInv, Owned, Cancels, Running, RunningAt
  <2>7. Running(w) = {}
    BY <2>6, WorkQueueAssumption DEF CPUs
  <2> QED BY <2>1, <2>5, <2>7
<1> QED BY <1>1, WorkQueueInvariant, PTL

\* Neither flush_workqueue() nor flush_work() goes past a callback that it has
\* to wait for, unless that callback has flushed its own workqueue: then its
\* entry of owed is there to the end, marked "byhand", and nobody waits for it.
THEOREM WorkQueueFlushesCover == Spec => []FlushesCover
<1>1. IInv => FlushesCover
  BY DEF IInv, Flushed, Owes, FlushesCover, FlushCovers, FlushWorkCovers
<1> QED BY <1>1, WorkQueueInvariant, PTL

\* While a barrier is queued or running, the task on whose stack it is waits.
THEOREM WorkQueueBarrierAlive == Spec => []BarrierAlive
<1>1. IInv => BarrierAlive
  <2> SUFFICES ASSUME IInv, NEW t \in Waits, ~list_empty(t) \/ Running(t) # {}
               PROVE  /\ t \notin done
                      /\ IF t = Admin THEN hot.at = "flush_wait"
                         ELSE call[t].pc \in {"flush_wait", "fw_wait", "c_cpu_wait"}
    BY DEF BarrierAlive
  <2>1. \E c : c \in ListOf(t) \cup Running(t)
    BY DEF list_empty, ListOf
  <2> QED BY <2>1 DEF IInv, Flushed, Barrier, Awaits
<1> QED BY <1>1, WorkQueueInvariant, PTL

\* A worker that was stopped, by CPU hotplug or by destroy_workqueue(), left
\* nothing behind, and no work is left with its PENDING bit set and no owner.
THEOREM WorkQueueNothingStranded == Spec => []NothingStranded
<1>1. IInv => NothingStranded
  <2> SUFFICES ASSUME IInv
               PROVE  NothingStranded
    OBVIOUS
  <2>1. ASSUME NEW c \in CPUs, cwq[c].thread \in {"exited", "none"}
        PROVE  cwq[c].worklist = <<>> /\ cwq[c].frames = <<>>
    BY <2>1 DEF IInv, Shape, Workers, WorkerOk, Hotplug, Quiesced, Quiescing
  <2> QED BY <2>1, OneOwner DEF NothingStranded, PendingHasOneOwner
<1> QED BY <1>1, WorkQueueInvariant, PTL
==============================================================================
