---------------------------- MODULE TaskletProofs ----------------------------
(***************************************************************************)
(* Proofs about tasklets, softirqs and ksoftirqd for any number of CPUs,   *)
(* tasklets, tasks and interrupt handlers.                                 *)
(***************************************************************************)
EXTENDS Tasklet, KernelLemmas

\* Who owns the SCHED bit of t, by kind: the lists of CPUs, the lists that
\* softirqs have taken over, softirqs that hold it, tasks that hold it.
VecOf(t)  == {p \in CPUs \X Softirqs : t \in Members(vec[p[1]][p[2]])}
ListOf(t) == {c \in CPUs : t \in Members(soft[c].list)}
CurOf(t)  == {c \in CPUs : /\ soft[c].cur = t
                           /\ soft[c].at \in {"locked", "clear", "drop", "requeue"}}
CallOf(t) == {a \in Actors : /\ call[a].t = t
                             /\ call[a].pc \in {"insert", "kill_wait", "kill_clear"}}

\* Just one element in the first set, and none in the others.
Alone(S, S1, S2, S3) == (\E x : S = {x}) /\ S1 = {} /\ S2 = {} /\ S3 = {}

\* SCHED is a lock: owned if it is set, by one owner of one kind.
OneHolder == \A t \in Tasklets :
    \/ /\ t \notin sched
       /\ VecOf(t) = {} /\ ListOf(t) = {} /\ CurOf(t) = {} /\ CallOf(t) = {}
    \/ /\ t \in sched
       /\ \/ Alone(VecOf(t), ListOf(t), CurOf(t), CallOf(t))
          \/ Alone(ListOf(t), VecOf(t), CurOf(t), CallOf(t))
          \/ Alone(CurOf(t), VecOf(t), ListOf(t), CallOf(t))
          \/ Alone(CallOf(t), VecOf(t), ListOf(t), CurOf(t))

\* RUN is a lock, too.
OneRunner == \A t \in Tasklets :
    \/ t \notin runbit /\ RunOwners(t) = {}
    \/ t \in runbit /\ \E c : RunOwners(t) = {c}

\* A tasklet's count is the number of tasks that keep it disabled.
Disablers(t) == {a \in Actors : /\ call[a].t = t
                                /\ call[a].pc \in {"dis_wait", "disabled"}}
Counted == \A t \in Tasklets : count[t] = Cardinality(Disablers(t))

\* When tasklet_kill() lets go of a tasklet its function runs nowhere.
KillWaited == \A a \in Actors : call[a].pc = "kill_clear" => InFunc(call[a].t) = {}

Owned == OneHolder /\ OneRunner /\ Counted /\ DisabledIsQuiet /\ KillWaited

\* No tasklet is twice on a list.
Lists == /\ \A c \in CPUs, nr \in Softirqs : NoDup(vec[c][nr])
         /\ \A c \in CPUs : NoDup(soft[c].list)

\* Softirqs run on online CPUs and know which list they work on.
SoftShape == \A c \in CPUs :
    /\ soft[c].at = "none" => soft[c].list = <<>> /\ soft[c].todo = {}
    /\ soft[c].at # "none" => c \in hot.online
    /\ soft[c].list # <<>> => soft[c].nr \in Softirqs
    /\ soft[c].at \notin {"none", "list"} => soft[c].nr \in Softirqs /\ soft[c].cur \in Tasklets

\* Calls know their tasklet; interrupts and sections with softirqs off are on
\* online CPUs, and such a section is alone with its CPU's softirqs off.
CallShape == \A a \in Actors :
    /\ call[a].pc # "idle" => call[a].t \in Tasklets
    /\ call[a].pc = "insert" => call[a].nr \in Softirqs
    /\ call[a].ctx # "none" => call[a].cpu \in hot.online
    /\ call[a].ctx = "bh" =>
          /\ soft[call[a].cpu].at = "none"
          /\ \A b \in Actors : call[b].ctx = "bh" /\ call[b].cpu = call[a].cpu => b = a

\* What the hotplug task has in hand, and that no online CPU is without its
\* ksoftirqd.
HotShape ==
    /\ \A c \in hot.online : ~ksd[c].stop
    /\ hot.at \in {"dead", "stopping", "prepared"} => hot.cpu \in CPUs \ hot.online
    /\ hot.at = "prepared" => /\ ~ksd[hot.cpu].stop
                              /\ \A nr \in Softirqs : vec[hot.cpu][nr] = <<>>
    /\ hot.at = "online" => hot.cpu \in hot.online
    /\ hot.at = "idle" => hot.cpu = 0

Shape == TypeOK /\ Lists /\ SoftShape /\ CallShape /\ HotShape

Raised == ListIsRaised /\ RaisedIsPromised

\* That a list raises its softirq, and that each bit has one owner, depends on
\* what may run on a CPU at the same time and on what the hotplug task has
\* left behind.
IInv == Shape /\ Raised /\ Owned

------------------------------------------------------------------------------
\* A step that moves no tasklet, takes no bit and ends no call keeps all owners.
LEMMA OwnedSame ==
    ASSUME Owned, UNCHANGED <<sched, runbit, count, vec>>,
           \A c \in CPUs : soft'[c].list = soft[c].list,
           \A c \in CPUs : \/ soft'[c].cur = soft[c].cur /\ soft'[c].at = soft[c].at
                           \/ soft[c].at \in {"none", "list"} /\ soft'[c].at \in {"none", "list"},
           \A a \in Actors : \/ call'[a].t = call[a].t /\ call'[a].pc = call[a].pc
                             \/ call[a].pc = "idle" /\ call'[a].pc = "idle"
    PROVE  Owned'
<1>1. \A t : /\ VecOf(t)' = VecOf(t) /\ ListOf(t)' = ListOf(t)
             /\ CurOf(t)' = CurOf(t) /\ CallOf(t)' = CallOf(t)
  BY DEF VecOf, ListOf, CurOf, CallOf
<1>2. \A t : RunOwners(t)' = RunOwners(t) /\ InFunc(t)' = InFunc(t)
  BY DEF RunOwners, InFunc
<1>3. \A t : Disablers(t)' = Disablers(t)
  BY DEF Disablers
<1>4. OneHolder'
  BY <1>1 DEF Owned, OneHolder
<1>5. OneRunner'
  BY <1>2 DEF Owned, OneRunner
<1>6. Counted'
  BY <1>3 DEF Owned, Counted
<1>7. \A a \in Actors : call'[a].pc # "idle" => call'[a].t = call[a].t /\ call'[a].pc = call[a].pc
  OBVIOUS
<1>8. DisabledIsQuiet' /\ KillWaited'
  BY <1>2, <1>7 DEF Owned, DisabledIsQuiet, KillWaited
<1> QED BY <1>4, <1>5, <1>6, <1>8 DEF Owned

\* A step that leaves lists, raised softirqs and all contexts alone.
LEMMA RaisedSame ==
    ASSUME Raised, UNCHANGED <<vec, pend, ksd, hot>>,
           \A c \in CPUs : /\ soft'[c].todo = soft[c].todo
                           /\ soft'[c].at = "none" <=> soft[c].at = "none",
           \A a \in Actors : call'[a].ctx = call[a].ctx /\ call'[a].cpu = call[a].cpu,
           hot.online \subseteq CPUs
    PROVE  Raised'
<1>1. \A c \in CPUs : in_interrupt(c)' <=> in_interrupt(c)
  BY DEF in_interrupt, On
<1>2. ListIsRaised'
  BY DEF Raised, ListIsRaised
<1>3. RaisedIsPromised'
  BY <1>1 DEF Raised, RaisedIsPromised
<1> QED BY <1>2, <1>3 DEF Raised

\* The types of what the proofs compute with.
LEMMA Types ==
    ASSUME Shape
    PROVE  /\ sched \subseteq Tasklets /\ runbit \subseteq Tasklets
           /\ count \in [Tasklets -> 0..Cardinality(Actors)]
           /\ vec \in [CPUs -> [Softirqs -> Seq(Tasklets)]]
           /\ pend \in [CPUs -> SUBSET Softirqs]
           /\ soft \in [CPUs -> SoftRec]
           /\ ksd \in [CPUs -> KsdRec]
           /\ call \in [Actors -> Calls]
           /\ hot \in HotRec /\ hot.online \subseteq CPUs
BY DEF Shape, TypeOK, HotRec

\* Where softirqs do nothing, only the calls and the bits they take matter.
LEMMA CallOwned ==
    ASSUME Owned, UNCHANGED <<runbit, soft>>, OneHolder', Counted',
           \A b \in Actors : call'[b].pc \in {"disabled", "kill_clear"} =>
              \/ call'[b].pc = call[b].pc /\ call'[b].t = call[b].t
              \/ InFunc(call'[b].t) = {}
    PROVE  Owned'
<1>1. \A t : RunOwners(t)' = RunOwners(t) /\ InFunc(t)' = InFunc(t)
  BY DEF RunOwners, InFunc
<1>2. OneRunner'
  BY <1>1 DEF Owned, OneRunner
<1>3. DisabledIsQuiet' /\ KillWaited'
  BY <1>1 DEF Owned, DisabledIsQuiet, KillWaited
<1> QED BY <1>2, <1>3 DEF Owned

\* The calls of one task, or of nobody, take hold of a tasklet or let it go.
LEMMA CallHolder ==
    ASSUME OneHolder, UNCHANGED <<vec, soft>>, NEW a \in Actors,
           \A b \in Actors : b # a => call'[b] = call[b],
           \A t \in Tasklets :
              \/ sched' \cap {t} = sched \cap {t} /\ (a \in CallOf(t)' <=> a \in CallOf(t))
              \/ t \notin sched /\ t \in sched' /\ a \in CallOf(t)'
              \/ t \in sched /\ t \notin sched' /\ a \in CallOf(t) /\ a \notin CallOf(t)'
    PROVE  OneHolder'
<1> SUFFICES ASSUME NEW t \in Tasklets
             PROVE  \/ /\ t \notin sched'
                       /\ VecOf(t)' = {} /\ ListOf(t)' = {} /\ CurOf(t)' = {} /\ CallOf(t)' = {}
                    \/ /\ t \in sched'
                       /\ \/ Alone(VecOf(t)', ListOf(t)', CurOf(t)', CallOf(t)')
                          \/ Alone(ListOf(t)', VecOf(t)', CurOf(t)', CallOf(t)')
                          \/ Alone(CurOf(t)', VecOf(t)', ListOf(t)', CallOf(t)')
                          \/ Alone(CallOf(t)', VecOf(t)', ListOf(t)', CurOf(t)')
  BY DEF OneHolder, Alone
<1>1. VecOf(t)' = VecOf(t) /\ ListOf(t)' = ListOf(t) /\ CurOf(t)' = CurOf(t)
  BY DEF VecOf, ListOf, CurOf
<1>2. \A b \in Actors : b # a => (b \in CallOf(t)' <=> b \in CallOf(t))
  BY DEF CallOf
<1>3. CallOf(t) \subseteq Actors /\ CallOf(t)' \subseteq Actors
  BY DEF CallOf
<1>4. CASE sched' \cap {t} = sched \cap {t} /\ (a \in CallOf(t)' <=> a \in CallOf(t))
  <2>1. CallOf(t)' = CallOf(t)
    BY <1>2, <1>3, <1>4
  <2>2. t \in sched' <=> t \in sched
    BY <1>4
  <2> QED BY <1>1, <2>1, <2>2 DEF OneHolder
<1>5. CASE t \notin sched /\ t \in sched' /\ a \in CallOf(t)'
  <2>1. CallOf(t) = {} /\ VecOf(t) = {} /\ ListOf(t) = {} /\ CurOf(t) = {}
    BY <1>5 DEF OneHolder
  <2>2. CallOf(t)' = {a}
    BY <1>2, <1>3, <1>5, <2>1
  <2> QED BY <1>1, <1>5, <2>1, <2>2 DEF Alone
<1>6. CASE t \in sched /\ t \notin sched' /\ a \in CallOf(t) /\ a \notin CallOf(t)'
  <2>1. /\ \E x : CallOf(t) = {x}
        /\ VecOf(t) = {} /\ ListOf(t) = {} /\ CurOf(t) = {}
    BY <1>6 DEF OneHolder, Alone
  <2>2. CallOf(t)' = {}
    BY <1>2, <1>3, <1>6, <2>1
  <2> QED BY <1>1, <1>6, <2>1, <2>2
<1> QED BY <1>4, <1>5, <1>6

\* A count that follows the tasks which keep the tasklet disabled stays in
\* its range.
LEMMA CountRange ==
    ASSUME NEW n, NEW S \in SUBSET Actors, n = Cardinality(S)
    PROVE  n \in 0..Cardinality(Actors)
<1>1. IsFiniteSet(Actors)
  BY TaskletAssumption, FS_Union DEF Actors
<1>2. IsFiniteSet(S) /\ Cardinality(S) <= Cardinality(Actors)
  BY <1>1, FS_Subset
<1>3. Cardinality(S) \in Nat /\ Cardinality(Actors) \in Nat
  BY <1>1, <1>2, FS_CardinalityType
<1> QED BY <1>2, <1>3

\* The call of a goes on at pc, for tasklet t and softirq nr.
To(a, pc, t, nr) ==
    /\ call' \in [Actors -> Calls]
    /\ \A b \in Actors : b # a => call'[b] = call[b]
    /\ call'[a].ctx = call[a].ctx /\ call'[a].cpu = call[a].cpu
    /\ call'[a].t = t /\ call'[a].nr = nr /\ call'[a].pc = pc

LEMMA CallTo ==
    ASSUME Shape, NEW a \in Actors, NEW t \in Tasklets \cup {NULL},
           NEW nr \in Softirqs \cup {99},
           NEW pc \in {"idle", "insert", "dis_wait", "disabled", "kill", "kill_wait",
                       "kill_clear"}
    PROVE  /\ call' = [call EXCEPT ![a].pc = pc, ![a].t = t, ![a].nr = nr]
                 => To(a, pc, t, nr)
           /\ call' = [call EXCEPT ![a].pc = pc, ![a].t = t]
                 => To(a, pc, t, call[a].nr)
           /\ call' = [call EXCEPT ![a].pc = pc]
                 => To(a, pc, call[a].t, call[a].nr)
<1>1. call \in [Actors -> Calls]
  BY Types
<1>2. ASSUME NEW r \in Calls
      PROVE  [r EXCEPT !.pc = pc] \in Calls
  BY DEF Calls
<1>3. ASSUME NEW r \in Calls
      PROVE  [r EXCEPT !.t = t] \in Calls
  BY DEF Calls
<1>4. ASSUME NEW r \in Calls
      PROVE  [r EXCEPT !.nr = nr] \in Calls
  BY DEF Calls
<1>5. ASSUME call' = [call EXCEPT ![a].pc = pc, ![a].t = t, ![a].nr = nr]
      PROVE  To(a, pc, t, nr)
  <2>1. \A b \in Actors : b # a => call'[b] = call[b]
    BY <1>1, <1>5
  <2>2. call'[a] = [call[a] EXCEPT !.pc = pc, !.t = t, !.nr = nr]
    BY <1>1, <1>5
  <2>3. call'[a].t = t /\ call'[a].nr = nr /\ call'[a].pc = pc
    BY <1>1, <2>2 DEF Calls
  <2>4. call'[a].ctx = call[a].ctx /\ call'[a].cpu = call[a].cpu
    BY <1>1, <2>2 DEF Calls
  <2>5. call'[a] \in Calls
    <3>1. call'[a] = [[[call[a] EXCEPT !.pc = pc] EXCEPT !.t = t] EXCEPT !.nr = nr]
      BY <1>1, <2>2 DEF Calls
    <3>2. [call[a] EXCEPT !.pc = pc] \in Calls
      BY <1>1, <1>2
    <3>3. [[call[a] EXCEPT !.pc = pc] EXCEPT !.t = t] \in Calls
      BY <3>2, <1>3
    <3>4. [[[call[a] EXCEPT !.pc = pc] EXCEPT !.t = t] EXCEPT !.nr = nr] \in Calls
      BY <3>3, <1>4
    <3> QED BY <3>1, <3>4
  <2>6. call' \in [Actors -> Calls]
    BY <1>1, <1>5, <2>1, <2>5
  <2> QED BY <2>1, <2>3, <2>4, <2>6 DEF To
<1>6. ASSUME call' = [call EXCEPT ![a].pc = pc, ![a].t = t]
      PROVE  To(a, pc, t, call[a].nr)
  <2>1. \A b \in Actors : b # a => call'[b] = call[b]
    BY <1>1, <1>6
  <2>2. call'[a] = [call[a] EXCEPT !.pc = pc, !.t = t]
    BY <1>1, <1>6
  <2>3. call'[a].t = t /\ call'[a].nr = call[a].nr /\ call'[a].pc = pc
    BY <1>1, <2>2 DEF Calls
  <2>4. call'[a].ctx = call[a].ctx /\ call'[a].cpu = call[a].cpu
    BY <1>1, <2>2 DEF Calls
  <2>5. call'[a] \in Calls
    <3>1. call'[a] = [[call[a] EXCEPT !.pc = pc] EXCEPT !.t = t]
      BY <1>1, <2>2 DEF Calls
    <3>2. [call[a] EXCEPT !.pc = pc] \in Calls
      BY <1>1, <1>2
    <3>3. [[call[a] EXCEPT !.pc = pc] EXCEPT !.t = t] \in Calls
      BY <3>2, <1>3
    <3> QED BY <3>1, <3>3
  <2>6. call' \in [Actors -> Calls]
    BY <1>1, <1>6, <2>1, <2>5
  <2> QED BY <2>1, <2>3, <2>4, <2>6 DEF To
<1>7. ASSUME call' = [call EXCEPT ![a].pc = pc]
      PROVE  To(a, pc, call[a].t, call[a].nr)
  <2>1. \A b \in Actors : b # a => call'[b] = call[b]
    BY <1>1, <1>7
  <2>2. call'[a] = [call[a] EXCEPT !.pc = pc]
    BY <1>1, <1>7
  <2>3. call'[a].t = call[a].t /\ call'[a].nr = call[a].nr /\ call'[a].pc = pc
    BY <1>1, <2>2 DEF Calls
  <2>4. call'[a].ctx = call[a].ctx /\ call'[a].cpu = call[a].cpu
    BY <1>1, <2>2 DEF Calls
  <2>5. call'[a] \in Calls
    BY <1>1, <1>2, <2>2
  <2>6. call' \in [Actors -> Calls]
    BY <1>1, <1>7, <2>1, <2>5
  <2> QED BY <2>1, <2>3, <2>4, <2>6 DEF To
<1> QED BY <1>5, <1>6, <1>7

\* A task goes on with its call where it is.
LEMMA CallFrame ==
    ASSUME Shape, Raised, NEW a \in Actors, NEW pc, NEW t, NEW nr, To(a, pc, t, nr),
           pc # "idle" => t \in Tasklets,
           pc = "insert" => nr \in Softirqs,
           UNCHANGED <<runbit, vec, pend, soft, ksd, hot>>,
           sched' \subseteq Tasklets,
           count' \in [Tasklets -> 0..Cardinality(Actors)]
    PROVE  Shape' /\ Raised'
<1>1. \A b \in Actors : call'[b].ctx = call[b].ctx /\ call'[b].cpu = call[b].cpu
  BY DEF To
<1>2. TypeOK'
  BY DEF Shape, TypeOK, To
<1>3. Lists' /\ SoftShape' /\ HotShape'
  BY DEF Shape, Lists, SoftShape, HotShape
<1>4. CallShape'
  BY <1>1 DEF Shape, CallShape, To
<1>5. Raised'
  BY <1>1, Types, RaisedSame
<1> QED BY <1>2, <1>3, <1>4, <1>5 DEF Shape

\* Calls that neither begin nor end to keep a tasklet disabled.
LEMMA CountedSame ==
    ASSUME Counted, UNCHANGED count, NEW a \in Actors,
           \A b \in Actors : b # a => call'[b] = call[b],
           \/ call[a].pc \notin {"dis_wait", "disabled"} /\ call'[a].pc \notin {"dis_wait", "disabled"}
           \/ /\ call[a].pc \in {"dis_wait", "disabled"} /\ call'[a].pc \in {"dis_wait", "disabled"}
              /\ call'[a].t = call[a].t
    PROVE  Counted'
<1>1. \A t : Disablers(t)' = Disablers(t)
  BY DEF Disablers
<1> QED BY <1>1 DEF Counted

\* tasklet_schedule() by a task, and tasklet_kill() getting the SCHED bit.
LEMMA TakeSchedStep ==
    ASSUME IInv, NEW a \in Actors, NEW t \in Tasklets, NEW pc, NEW nr, To(a, pc, t, nr),
           t \notin sched, sched' = sched \cup {t},
           \/ call[a].pc = "idle" /\ pc = "insert" /\ nr \in Softirqs
           \/ call[a].pc = "kill" /\ pc = "kill_wait",
           UNCHANGED <<runbit, count, vec, pend, soft, ksd, hot>>
    PROVE  IInv'
<1>1. Shape' /\ Raised'
  BY Types, CallFrame DEF IInv
<1>2. OneHolder'
  <2>1. \A u \in Tasklets :
           \/ sched' \cap {u} = sched \cap {u} /\ (a \in CallOf(u)' <=> a \in CallOf(u))
           \/ u \notin sched /\ u \in sched' /\ a \in CallOf(u)'
    BY DEF CallOf, To
  <2> QED BY <2>1, CallHolder DEF To, IInv, Owned
<1>3. Counted'
  BY CountedSame DEF To, IInv, Owned
<1>4. Owned'
  BY <1>2, <1>3, CallOwned DEF To, IInv, Owned
<1> QED BY <1>1, <1>4 DEF IInv

\* tasklet_disable() and tasklet_enable() count.
LEMMA DisableStep ==
    ASSUME IInv, NEW a \in Actors, NEW t \in Tasklets, NEW pc, NEW u, NEW nr, To(a, pc, u, nr),
           \/ /\ call[a].pc = "idle" /\ pc = "dis_wait" /\ u = t
              /\ count' = [count EXCEPT ![t] = @ + 1]
           \/ /\ call[a].pc = "disabled" /\ call[a].t = t /\ pc = "idle"
              /\ count' = [count EXCEPT ![t] = @ - 1],
           UNCHANGED <<sched, runbit, vec, pend, soft, ksd, hot>>
    PROVE  IInv'
<1>1. /\ \A v \in Tasklets : v # t => count'[v] = count[v] /\ Disablers(v)' = Disablers(v)
      /\ \/ count'[t] = count[t] + 1 /\ a \notin Disablers(t) /\ Disablers(t)' = Disablers(t) \cup {a}
         \/ count'[t] = count[t] - 1 /\ a \in Disablers(t) /\ Disablers(t)' = Disablers(t) \ {a}
  <2>1. count \in [Tasklets -> 0..Cardinality(Actors)] /\ NULL \notin Tasklets
    BY Types, TaskletAssumption DEF IInv
  <2>2. CASE pc = "dis_wait"
    BY <2>1, <2>2 DEF Disablers, To
  <2>3. CASE pc = "idle"
    BY <2>1, <2>3 DEF Disablers, To
  <2> QED BY <2>2, <2>3
<1>2. Counted'
  <2>1. \A v \in Tasklets : Disablers(v) \subseteq Actors /\ IsFiniteSet(Disablers(v))
    BY TaskletAssumption, FS_Union, FS_Subset DEF Disablers, Actors
  <2>2. Cardinality(Disablers(t)) = count[t] /\ count[t] \in Nat
    BY Types DEF IInv, Owned, Counted
  <2>3. Cardinality(Disablers(t)') = count'[t]
    <3> DEFINE D == Disablers(t)
    <3>1. IsFiniteSet(D)
      BY <2>1
    <3> HIDE DEF D
    <3>2. a \notin D => Cardinality(D \cup {a}) = Cardinality(D) + 1
      BY <3>1, FS_AddElement
    <3>3. a \in D => Cardinality(D \ {a}) = Cardinality(D) - 1
      BY <3>1, FS_RemoveElement
    <3> USE DEF D
    <3> QED BY <1>1, <2>2, <3>2, <3>3
  <2> QED BY <1>1, <2>3 DEF IInv, Owned, Counted
<1>3. Shape' /\ Raised'
  <2>1. \A v \in Tasklets : count'[v] \in 0..Cardinality(Actors)
    <3> TAKE v \in Tasklets
    <3>1. Disablers(v)' \in SUBSET Actors
      BY DEF Disablers
    <3>2. count'[v] = Cardinality(Disablers(v)')
      BY <1>2 DEF Counted
    <3> HIDE DEF Disablers
    <3> QED BY <3>1, <3>2, CountRange
  <2>2. count' \in [Tasklets -> 0..Cardinality(Actors)]
    BY <2>1, Types DEF IInv
  <2> QED BY <2>2, Types, CallFrame DEF IInv
<1>4. OneHolder'
  <2>1. \A v \in Tasklets : a \in CallOf(v)' <=> a \in CallOf(v)
    BY DEF CallOf, To
  <2> QED BY <2>1, CallHolder DEF To, IInv, Owned
<1>5. Owned'
  BY <1>2, <1>4, CallOwned DEF To, IInv, Owned
<1> QED BY <1>3, <1>5 DEF IInv

\* The other steps of calls take no bit: what they waited for has ended.
LEMMA WaitedStep ==
    ASSUME IInv, NEW a \in Actors, NEW t \in Tasklets, NEW pc, NEW nr, To(a, pc, t, nr),
           \/ call[a].pc = "idle" /\ pc = "kill"
           \/ /\ call[a].pc = "dis_wait" /\ pc = "disabled"
              /\ call[a].t = t /\ t \notin runbit
           \/ /\ call[a].pc = "kill_wait" /\ pc = "kill_clear"
              /\ call[a].t = t /\ t \notin runbit,
           UNCHANGED <<sched, runbit, count, vec, pend, soft, ksd, hot>>
    PROVE  IInv'
<1>1. Shape' /\ Raised'
  BY Types, CallFrame DEF IInv
<1>2. OneHolder'
  <2>1. \A u \in Tasklets : a \in CallOf(u)' <=> a \in CallOf(u)
    BY DEF CallOf, To
  <2> QED BY <2>1, CallHolder DEF To, IInv, Owned
<1>3. Counted'
  BY CountedSame DEF To, IInv, Owned
<1>4. t \notin runbit => InFunc(t) = {}
  <2>1. t \notin runbit => RunOwners(t) = {}
    BY DEF IInv, Owned, OneRunner
  <2>2. InFunc(t) \subseteq RunOwners(t)
    BY DEF InFunc, RunOwners
  <2> QED BY <2>1, <2>2
<1>5. Owned'
  BY <1>2, <1>3, <1>4, CallOwned DEF To, IInv, Owned
<1> QED BY <1>1, <1>5 DEF IInv

\* tasklet_kill() gives the SCHED bit back.
LEMMA KillClearStep ==
    ASSUME IInv, NEW a \in Actors, NEW u, NEW nr, To(a, "idle", u, nr),
           call[a].pc = "kill_clear", sched' = sched \ {call[a].t},
           UNCHANGED <<runbit, count, vec, pend, soft, ksd, hot>>
    PROVE  IInv'
<1>1. Shape' /\ Raised'
  BY Types, CallFrame DEF IInv
<1>2. OneHolder'
  <2>1. call[a].t \in Tasklets
    BY DEF IInv, Shape, CallShape
  <2>2. a \in CallOf(call[a].t)
    BY DEF CallOf
  <2>3. call[a].t \in sched
    BY <2>1, <2>2 DEF IInv, Owned, OneHolder
  <2>4. \A v \in Tasklets :
           \/ sched' \cap {v} = sched \cap {v} /\ (a \in CallOf(v)' <=> a \in CallOf(v))
           \/ v \in sched /\ v \notin sched' /\ a \in CallOf(v) /\ a \notin CallOf(v)'
    BY <2>2, <2>3 DEF CallOf, To
  <2> QED BY <2>4, CallHolder DEF To, IInv, Owned
<1>3. Counted'
  BY CountedSame DEF To, IInv, Owned
<1>4. Owned'
  BY <1>2, <1>3, CallOwned DEF To, IInv, Owned
<1> QED BY <1>1, <1>4 DEF IInv

\* The steps of calls that use no softirq.
LEMMA CallStep ==
    ASSUME IInv, NEW a \in Actors,
           \/ \E t \in Tasklets, nr \in Softirqs : tasklet_schedule(a, t, nr)
           \/ \E t \in Tasklets : tasklet_disable(a, t) \/ tasklet_kill(a, t)
           \/ disable_wait(a) \/ tasklet_enable(a)
           \/ kill_test_and_set(a) \/ kill_wait(a) \/ kill_clear(a)
    PROVE  IInv'
<1>1. Shape
  BY DEF IInv
<1>2. call[a].pc # "idle" => call[a].t \in Tasklets
  BY <1>1 DEF Shape, CallShape
<1>3. ASSUME NEW t \in Tasklets, NEW nr \in Softirqs, tasklet_schedule(a, t, nr)
      PROVE  IInv'
  <2>1. To(a, "insert", t, nr)
    BY <1>1, <1>3, CallTo DEF tasklet_schedule
  <2>2. call[a].pc = "idle"
    <3>1. call[a] = Idle
      BY <1>3 DEF tasklet_schedule
    <3> QED BY <3>1 DEF Idle
  <2> QED BY <1>3, <2>1, <2>2, TakeSchedStep DEF tasklet_schedule
<1>4. ASSUME NEW t \in Tasklets, tasklet_disable(a, t)
      PROVE  IInv'
  <2>1. To(a, "dis_wait", t, call[a].nr)
    BY <1>1, <1>4, CallTo DEF tasklet_disable, Become
  <2>2. call[a].pc = "idle"
    BY <1>4 DEF tasklet_disable, Idle
  <2> QED BY <1>4, <2>1, <2>2, DisableStep DEF tasklet_disable
<1>5. ASSUME NEW t \in Tasklets, tasklet_kill(a, t)
      PROVE  IInv'
  <2>1. To(a, "kill", t, call[a].nr)
    BY <1>1, <1>5, CallTo DEF tasklet_kill, Become
  <2>2. call[a].pc = "idle"
    BY <1>5 DEF tasklet_kill, Idle
  <2> QED BY <1>5, <2>1, <2>2, WaitedStep DEF tasklet_kill
<1>6. CASE disable_wait(a)
  <2>1. To(a, "disabled", call[a].t, call[a].nr)
    BY <1>1, <1>6, CallTo DEF disable_wait, Goto
  <2> QED BY <1>2, <1>6, <2>1, WaitedStep DEF disable_wait
<1>7. CASE tasklet_enable(a)
  <2>1. To(a, "idle", NULL, 99)
    BY <1>1, <1>7, CallTo DEF tasklet_enable, Back
  <2> QED BY <1>2, <1>7, <2>1, DisableStep DEF tasklet_enable
<1>8. CASE kill_test_and_set(a)
  <2>1. To(a, "kill_wait", call[a].t, call[a].nr)
    BY <1>1, <1>8, CallTo DEF kill_test_and_set, Goto
  <2> QED BY <1>2, <1>8, <2>1, TakeSchedStep DEF kill_test_and_set
<1>9. CASE kill_wait(a)
  <2>1. To(a, "kill_clear", call[a].t, call[a].nr)
    BY <1>1, <1>9, CallTo DEF kill_wait, Goto
  <2> QED BY <1>2, <1>9, <2>1, WaitedStep DEF kill_wait
<1>10. CASE kill_clear(a)
  <2>1. To(a, "idle", NULL, 99)
    BY <1>1, <1>10, CallTo DEF kill_clear, Back
  <2> QED BY <1>2, <1>10, <2>1, KillClearStep DEF kill_clear
<1> QED BY <1>3, <1>4, <1>5, <1>6, <1>7, <1>8, <1>9, <1>10

------------------------------------------------------------------------------
\* __do_softirq() on c goes on at the place given, with list still to do and
\* tasklet cur in hand.
Softs(c, at, list, cur) ==
    /\ soft' \in [CPUs -> SoftRec]
    /\ \A d \in CPUs : d # c => soft'[d] = soft[d]
    /\ soft'[c].at = at /\ soft'[c].list = list /\ soft'[c].cur = cur
    /\ soft'[c].todo = soft[c].todo /\ soft'[c].nr = soft[c].nr

LEMMA SoftGoes ==
    ASSUME Shape, NEW c \in CPUs, NEW cur \in Tasklets \cup {NULL},
           NEW at \in {"none", "list", "locked", "clear", "func", "drop", "requeue"}
    PROVE  /\ SoftTo(c, at) => Softs(c, at, soft[c].list, soft[c].cur)
           /\ soft' = [soft EXCEPT ![c].at = at, ![c].cur = cur]
                 => Softs(c, at, soft[c].list, cur)
           /\ soft' = [soft EXCEPT ![c].at = at, ![c].cur = cur, ![c].list = Tail(@)]
                 /\ soft[c].list # <<>>
                 => Softs(c, at, Tail(soft[c].list), cur)
<1>1. soft \in [CPUs -> SoftRec]
  BY Types
<1>2. ASSUME NEW r \in SoftRec
      PROVE  [r EXCEPT !.at = at] \in SoftRec
  BY DEF SoftRec
<1>3. ASSUME NEW r \in SoftRec
      PROVE  [r EXCEPT !.cur = cur] \in SoftRec
  BY DEF SoftRec
<1>4. ASSUME NEW r \in SoftRec, r.list # <<>>
      PROVE  [r EXCEPT !.list = Tail(@)] \in SoftRec
  <2>1. Tail(r.list) \in Seq(Tasklets)
    BY <1>4 DEF SoftRec
  <2> QED BY <2>1 DEF SoftRec
<1>5. ASSUME SoftTo(c, at)
      PROVE  Softs(c, at, soft[c].list, soft[c].cur)
  <2>1. \A d \in CPUs : d # c => soft'[d] = soft[d]
    BY <1>1, <1>5 DEF SoftTo
  <2>2. soft'[c] = [soft[c] EXCEPT !.at = at]
    BY <1>1, <1>5 DEF SoftTo
  <2>3. soft'[c] \in SoftRec
    BY <1>1, <1>2, <2>2
  <2>4. soft' \in [CPUs -> SoftRec]
    BY <1>1, <1>5, <2>1, <2>3 DEF SoftTo
  <2>5. /\ soft'[c].at = at /\ soft'[c].list = soft[c].list /\ soft'[c].cur = soft[c].cur
        /\ soft'[c].todo = soft[c].todo /\ soft'[c].nr = soft[c].nr
    BY <1>1, <2>2 DEF SoftRec
  <2> QED BY <2>1, <2>4, <2>5 DEF Softs
<1>6. ASSUME soft' = [soft EXCEPT ![c].at = at, ![c].cur = cur]
      PROVE  Softs(c, at, soft[c].list, cur)
  <2>1. \A d \in CPUs : d # c => soft'[d] = soft[d]
    BY <1>1, <1>6
  <2>2. soft'[c] = [[soft[c] EXCEPT !.at = at] EXCEPT !.cur = cur]
    BY <1>1, <1>6
  <2>3. soft'[c] \in SoftRec
    <3>1. [soft[c] EXCEPT !.at = at] \in SoftRec
      BY <1>1, <1>2
    <3> QED BY <2>2, <3>1, <1>3
  <2>4. soft' \in [CPUs -> SoftRec]
    BY <1>1, <1>6, <2>1, <2>3
  <2>5. /\ soft'[c].at = at /\ soft'[c].list = soft[c].list /\ soft'[c].cur = cur
        /\ soft'[c].todo = soft[c].todo /\ soft'[c].nr = soft[c].nr
    BY <1>1, <2>2 DEF SoftRec
  <2> QED BY <2>1, <2>4, <2>5 DEF Softs
<1>7. ASSUME soft' = [soft EXCEPT ![c].at = at, ![c].cur = cur, ![c].list = Tail(@)],
             soft[c].list # <<>>
      PROVE  Softs(c, at, Tail(soft[c].list), cur)
  <2>1. \A d \in CPUs : d # c => soft'[d] = soft[d]
    BY <1>1, <1>7
  <2>2. soft'[c] = [[[soft[c] EXCEPT !.at = at] EXCEPT !.cur = cur] EXCEPT !.list = Tail(@)]
    BY <1>1, <1>7
  <2>3. /\ soft'[c].at = at /\ soft'[c].list = Tail(soft[c].list) /\ soft'[c].cur = cur
        /\ soft'[c].todo = soft[c].todo /\ soft'[c].nr = soft[c].nr
    BY <1>1, <2>2 DEF SoftRec
  <2>4. soft'[c] \in SoftRec
    <3>1. [soft[c] EXCEPT !.at = at] \in SoftRec
      BY <1>1, <1>2
    <3>2. [[soft[c] EXCEPT !.at = at] EXCEPT !.cur = cur] \in SoftRec
      BY <3>1, <1>3
    <3>3. [[soft[c] EXCEPT !.at = at] EXCEPT !.cur = cur].list # <<>>
      BY <1>1, <1>7 DEF SoftRec
    <3> QED BY <2>2, <3>2, <3>3, <1>4
  <2>5. soft' \in [CPUs -> SoftRec]
    BY <1>1, <1>7, <2>1, <2>4
  <2> QED BY <2>1, <2>3, <2>5 DEF Softs
<1> QED BY <1>5, <1>6, <1>7

\* A softirq goes on with its list.
LEMMA SoftFrame ==
    ASSUME Shape, Raised, NEW c \in CPUs, NEW at, NEW list, NEW cur, Softs(c, at, list, cur),
           soft[c].at # "none", at # "none", NoDup(list),
           list # <<>> => soft[c].list # <<>>,
           at # "list" => cur \in Tasklets /\ soft[c].nr \in Softirqs,
           UNCHANGED <<count, vec, pend, ksd, call, hot>>,
           sched' \subseteq Tasklets, runbit' \subseteq Tasklets
    PROVE  Shape' /\ Raised'
<1>1. TypeOK'
  BY DEF Shape, TypeOK, Softs
<1>2. Lists'
  BY DEF Shape, Lists, Softs
<1>3. SoftShape'
  BY DEF Shape, SoftShape, Softs
<1>4. \A d \in CPUs : soft'[d].at = "none" <=> soft[d].at = "none"
  BY DEF Softs
<1>5. CallShape'
  <2>1. \A a \in Actors : call[a].ctx = "bh" => call[a].cpu \in CPUs
    BY Types DEF Shape, CallShape
  <2> QED BY <1>4, <2>1 DEF Shape, CallShape
<1>6. HotShape'
  BY DEF Shape, HotShape
<1>7. Raised'
  BY <1>4, Types, RaisedSame DEF Softs
<1> QED BY <1>1, <1>2, <1>3, <1>5, <1>6, <1>7 DEF Shape

\* The softirq of c takes a tasklet off its list or lets it go.
LEMMA SoftHolder ==
    ASSUME OneHolder, UNCHANGED <<vec, call>>, NEW c \in CPUs,
           \A d \in CPUs : d # c => soft'[d] = soft[d],
           \A t \in Tasklets :
              \/ /\ t \in sched' <=> t \in sched
                 /\ c \in ListOf(t)' <=> c \in ListOf(t)
                 /\ c \in CurOf(t)' <=> c \in CurOf(t)
              \/ /\ t \in sched' <=> t \in sched
                 /\ c \in ListOf(t) /\ c \notin ListOf(t)' /\ c \in CurOf(t)'
              \/ /\ t \notin sched'
                 /\ c \in CurOf(t) /\ c \notin CurOf(t)' /\ c \notin ListOf(t)'
    PROVE  OneHolder'
<1> SUFFICES ASSUME NEW t \in Tasklets
             PROVE  \/ /\ t \notin sched'
                       /\ VecOf(t)' = {} /\ ListOf(t)' = {} /\ CurOf(t)' = {} /\ CallOf(t)' = {}
                    \/ /\ t \in sched'
                       /\ \/ Alone(VecOf(t)', ListOf(t)', CurOf(t)', CallOf(t)')
                          \/ Alone(ListOf(t)', VecOf(t)', CurOf(t)', CallOf(t)')
                          \/ Alone(CurOf(t)', VecOf(t)', ListOf(t)', CallOf(t)')
                          \/ Alone(CallOf(t)', VecOf(t)', ListOf(t)', CurOf(t)')
  BY DEF OneHolder, Alone
<1>1. VecOf(t)' = VecOf(t) /\ CallOf(t)' = CallOf(t)
  BY DEF VecOf, CallOf
<1>2. \A d \in CPUs : d # c => /\ d \in ListOf(t)' <=> d \in ListOf(t)
                               /\ d \in CurOf(t)' <=> d \in CurOf(t)
  BY DEF ListOf, CurOf
<1>3. /\ ListOf(t) \subseteq CPUs /\ ListOf(t)' \subseteq CPUs
      /\ CurOf(t) \subseteq CPUs /\ CurOf(t)' \subseteq CPUs
  BY DEF ListOf, CurOf
<1>4. CASE /\ t \in sched' <=> t \in sched
           /\ c \in ListOf(t)' <=> c \in ListOf(t)
           /\ c \in CurOf(t)' <=> c \in CurOf(t)
  <2>1. ListOf(t)' = ListOf(t)
    BY <1>2, <1>3, <1>4
  <2>2. \A d \in CPUs : d \in CurOf(t)' <=> d \in CurOf(t)
    BY <1>2, <1>4
  <2>3. CurOf(t)' = CurOf(t)
    BY <1>3, <2>2
  <2> QED BY <1>1, <1>4, <2>1, <2>3 DEF OneHolder
<1>5. CASE /\ t \in sched' <=> t \in sched
           /\ c \in ListOf(t) /\ c \notin ListOf(t)' /\ c \in CurOf(t)'
  <2>1. /\ t \in sched /\ \E x : ListOf(t) = {x}
        /\ VecOf(t) = {} /\ CurOf(t) = {} /\ CallOf(t) = {}
    BY <1>5 DEF OneHolder, Alone
  <2>2. ListOf(t)' = {} /\ CurOf(t)' = {c}
    BY <1>2, <1>3, <1>5, <2>1
  <2> QED BY <1>1, <1>5, <2>1, <2>2 DEF Alone
<1>6. CASE /\ t \notin sched'
           /\ c \in CurOf(t) /\ c \notin CurOf(t)' /\ c \notin ListOf(t)'
  <2>1. /\ \E x : CurOf(t) = {x}
        /\ VecOf(t) = {} /\ ListOf(t) = {} /\ CallOf(t) = {}
    BY <1>6 DEF OneHolder, Alone
  <2>2. ListOf(t)' = {} /\ CurOf(t)' = {}
    BY <1>2, <1>3, <1>6, <2>1
  <2> QED BY <1>1, <1>6, <2>1, <2>2
<1> QED BY <1>4, <1>5, <1>6

\* The softirq of c takes the RUN bit of a tasklet or lets it go.
LEMMA SoftRunner ==
    ASSUME OneRunner, NEW c \in CPUs,
           \A d \in CPUs : d # c => soft'[d] = soft[d],
           \A t \in Tasklets :
              \/ (t \in runbit' <=> t \in runbit) /\ (c \in RunOwners(t)' <=> c \in RunOwners(t))
              \/ t \notin runbit /\ t \in runbit' /\ c \in RunOwners(t)'
              \/ t \notin runbit' /\ c \in RunOwners(t) /\ c \notin RunOwners(t)'
    PROVE  OneRunner'
<1> SUFFICES ASSUME NEW t \in Tasklets
             PROVE  \/ t \notin runbit' /\ RunOwners(t)' = {}
                    \/ t \in runbit' /\ \E d : RunOwners(t)' = {d}
  BY DEF OneRunner
<1>1. \A d \in CPUs : d # c => (d \in RunOwners(t)' <=> d \in RunOwners(t))
  BY DEF RunOwners
<1>2. RunOwners(t) \subseteq CPUs /\ RunOwners(t)' \subseteq CPUs
  BY DEF RunOwners
<1>3. CASE (t \in runbit' <=> t \in runbit) /\ (c \in RunOwners(t)' <=> c \in RunOwners(t))
  <2>1. RunOwners(t)' = RunOwners(t)
    BY <1>1, <1>2, <1>3
  <2> QED BY <1>3, <2>1 DEF OneRunner
<1>4. CASE t \notin runbit /\ t \in runbit' /\ c \in RunOwners(t)'
  <2>1. RunOwners(t) = {}
    BY <1>4 DEF OneRunner
  <2>2. RunOwners(t)' = {c}
    BY <1>1, <1>2, <1>4, <2>1
  <2> QED BY <1>4, <2>2
<1>5. CASE t \notin runbit' /\ c \in RunOwners(t) /\ c \notin RunOwners(t)'
  <2>1. \E d : RunOwners(t) = {d}
    BY <1>5 DEF OneRunner
  <2>2. RunOwners(t)' = {}
    BY <1>1, <1>2, <1>5, <2>1
  <2> QED BY <1>5, <2>2
<1> QED BY <1>3, <1>4, <1>5

\* The function is entered on c only by a tasklet that nobody keeps disabled
\* and nobody is about to have killed.
LEMMA SoftQuiet ==
    ASSUME IInv, UNCHANGED <<call, count>>, NEW c \in CPUs,
           \A d \in CPUs : d # c => soft'[d] = soft[d],
           \A t \in Tasklets : c \in InFunc(t)' =>
              \/ c \in InFunc(t)
              \/ count[t] = 0 /\ CallOf(t) = {}
    PROVE  Counted' /\ DisabledIsQuiet' /\ KillWaited'
<1>1. \A t : Disablers(t)' = Disablers(t)
  BY DEF Disablers
<1>2. Counted'
  BY <1>1 DEF IInv, Owned, Counted
<1>3. ASSUME NEW a \in Actors, call[a].pc \in {"disabled", "kill_clear"}, InFunc(call[a].t) = {}
      PROVE  InFunc(call[a].t)' = {}
  <2> DEFINE t == call[a].t
  <2>1. t \in Tasklets
    BY <1>3 DEF IInv, Shape, CallShape
  <2>2. \A d \in CPUs : d # c => d \notin InFunc(t)'
    BY <1>3 DEF InFunc
  <2>3. c \notin InFunc(t)'
    <3>1. SUFFICES ASSUME count[t] = 0, CallOf(t) = {}
                   PROVE  FALSE
      BY <1>3, <2>1
    <3>2. call[a].pc = "disabled"
      BY <1>3, <3>1 DEF CallOf
    <3>3. a \in Disablers(t)
      BY <3>2 DEF Disablers
    <3>4. Cardinality(Disablers(t)) = 0 /\ IsFiniteSet(Disablers(t))
      BY <2>1, <3>1, TaskletAssumption, FS_Union, FS_Subset
         DEF Disablers, Actors, IInv, Owned, Counted
    <3>5. Disablers(t) = {}
      BY <3>4, FS_EmptySet
    <3> QED BY <3>3, <3>5
  <2>4. InFunc(t)' \subseteq CPUs
    BY DEF InFunc
  <2> QED BY <2>2, <2>3, <2>4
<1>4. DisabledIsQuiet' /\ KillWaited'
  BY <1>3 DEF IInv, Owned, DisabledIsQuiet, KillWaited
<1> QED BY <1>2, <1>4

\* tasklet_trylock() on the next tasklet of the list.
LEMMA TrylockStep ==
    ASSUME IInv, NEW c \in CPUs, tasklet_trylock(c)
    PROVE  IInv'
<1> DEFINE list == soft[c].list
<1>0. PICK t : t = Head(list)
  OBVIOUS
<1> DEFINE at == IF t \in runbit THEN "requeue" ELSE "locked"
<1>1. soft[c].at = "list" /\ list # <<>>
  BY DEF tasklet_trylock, SoftAt
<1>2. /\ t \in Tasklets /\ Tail(list) \in Seq(Tasklets) /\ NoDup(Tail(list))
      /\ t \in Members(list) /\ Members(Tail(list)) = Members(list) \ {t}
  <2>1. list \in Seq(Tasklets) /\ NoDup(list)
    BY Types DEF IInv, Shape, Lists, SoftRec
  <2> QED BY <1>0, <1>1, <2>1, TailMembers
<1>3. Softs(c, at, Tail(list), t)
  BY <1>0, <1>1, <1>2, SoftGoes DEF tasklet_trylock, IInv
<1>4. runbit' = runbit \cup {t} /\ UNCHANGED <<sched, count, vec, pend, ksd, call, hot>>
  BY <1>0 DEF tasklet_trylock
<1>5. soft[c].nr \in Softirqs
  BY <1>1 DEF IInv, Shape, SoftShape
<1>6. at \in {"requeue", "locked"} /\ (at = "locked" <=> t \notin runbit)
  OBVIOUS
<1> HIDE DEF at
<1>7. Shape' /\ Raised'
  <2>1. runbit' \subseteq Tasklets /\ sched' \subseteq Tasklets
    BY <1>2, <1>4, Types DEF IInv
  <2> QED BY <1>1, <1>2, <1>3, <1>4, <1>5, <1>6, <2>1, SoftFrame DEF IInv
<1>8. OneHolder'
  <2>1. c \in ListOf(t) /\ c \notin ListOf(t)'
    BY <1>2, <1>3 DEF ListOf, Softs
  <2>2. c \in CurOf(t)'
    BY <1>3, <1>6 DEF CurOf, Softs
  <2>3. \A u \in Tasklets : u # t => /\ c \in ListOf(u)' <=> c \in ListOf(u)
                                     /\ c \in CurOf(u)' <=> c \in CurOf(u)
    BY <1>1, <1>2, <1>3 DEF ListOf, CurOf, Softs
  <2>4. \A u \in Tasklets :
           \/ /\ u \in sched' <=> u \in sched
              /\ c \in ListOf(u)' <=> c \in ListOf(u)
              /\ c \in CurOf(u)' <=> c \in CurOf(u)
           \/ /\ u \in sched' <=> u \in sched
              /\ c \in ListOf(u) /\ c \notin ListOf(u)' /\ c \in CurOf(u)'
    BY <1>4, <2>1, <2>2, <2>3
  <2> QED BY <1>3, <1>4, <2>4, SoftHolder DEF Softs, IInv, Owned
<1>9. OneRunner'
  <2>1. t \notin runbit => c \in RunOwners(t)'
    BY <1>3, <1>6 DEF RunOwners, Softs
  <2>2. t \in runbit => (c \in RunOwners(t)' <=> c \in RunOwners(t))
    BY <1>1, <1>3, <1>6 DEF RunOwners, Softs
  <2>3. \A u \in Tasklets : u # t => (c \in RunOwners(u)' <=> c \in RunOwners(u))
    BY <1>1, <1>3 DEF RunOwners, Softs
  <2>4. \A u \in Tasklets :
           \/ (u \in runbit' <=> u \in runbit) /\ (c \in RunOwners(u)' <=> c \in RunOwners(u))
           \/ u \notin runbit /\ u \in runbit' /\ c \in RunOwners(u)'
    BY <1>4, <2>1, <2>2, <2>3
  <2> QED BY <1>3, <2>4, SoftRunner DEF Softs, IInv, Owned
<1>10. \A u \in Tasklets : c \notin InFunc(u)'
  BY <1>3, <1>6 DEF InFunc, Softs
<1> QED BY <1>3, <1>4, <1>7, <1>8, <1>9, <1>10, SoftQuiet DEF Softs, IInv, Owned

\* tasklet_action() with a tasklet in hand: it looks at the count, clears the
\* SCHED bit, and lets go of the RUN bit.
LEMMA ActionStep ==
    ASSUME IInv, NEW c \in CPUs, NEW at, NEW cur, Softs(c, at, soft[c].list, cur),
           \/ /\ soft[c].at = "locked" /\ cur = soft[c].cur
              /\ \/ count[cur] = 0 /\ at = "clear"
                 \/ at = "drop"
              /\ UNCHANGED <<sched, runbit>>
           \/ /\ soft[c].at = "clear" /\ at = "func" /\ cur = soft[c].cur
              /\ sched' = sched \ {cur} /\ UNCHANGED runbit
           \/ /\ soft[c].at = "func" /\ at = "list" /\ cur = NULL
              /\ runbit' = runbit \ {soft[c].cur} /\ UNCHANGED sched
           \/ /\ soft[c].at = "drop" /\ at = "requeue" /\ cur = soft[c].cur
              /\ runbit' = runbit \ {cur} /\ UNCHANGED sched,
           UNCHANGED <<count, vec, pend, ksd, call, hot>>
    PROVE  IInv'
<1>0. PICK t : t = soft[c].cur
  OBVIOUS
<1>1. t \in Tasklets /\ soft[c].nr \in Softirqs /\ NoDup(soft[c].list)
  BY <1>0 DEF IInv, Shape, SoftShape, Lists
<1>2. Shape' /\ Raised'
  BY <1>0, <1>1, Types, SoftFrame DEF IInv
<1>3. \A u \in Tasklets : c \in ListOf(u)' <=> c \in ListOf(u)
  BY DEF ListOf, Softs
<1>4. OneHolder'
  <2>1. \A u \in Tasklets : u # t => (c \in CurOf(u)' <=> c \in CurOf(u))
    BY <1>0, TaskletAssumption DEF CurOf, Softs
  <2>2. CASE soft[c].at = "clear" /\ at = "func" /\ sched' = sched \ {t}
    <3>1. c \in CurOf(t) /\ c \notin CurOf(t)'
      BY <1>0, <2>2 DEF CurOf, Softs
    <3>2. c \notin ListOf(t)
      BY <1>1, <3>1 DEF IInv, Owned, OneHolder, Alone
    <3>3. c \notin ListOf(t)'
      BY <1>1, <1>3, <3>2
    <3>4. \A u \in Tasklets :
             \/ /\ u \in sched' <=> u \in sched
                /\ c \in ListOf(u)' <=> c \in ListOf(u)
                /\ c \in CurOf(u)' <=> c \in CurOf(u)
             \/ /\ u \notin sched'
                /\ c \in CurOf(u) /\ c \notin CurOf(u)' /\ c \notin ListOf(u)'
      BY <1>3, <2>1, <2>2, <3>1, <3>3
    <3> QED BY <3>4, SoftHolder DEF Softs, IInv, Owned
  <2>3. CASE at # "func" /\ sched' = sched
    <3>1. c \in CurOf(t)' <=> c \in CurOf(t)
      BY <2>3, TaskletAssumption, <1>1 DEF CurOf, Softs
    <3>2. \A u \in Tasklets :
             /\ u \in sched' <=> u \in sched
             /\ c \in ListOf(u)' <=> c \in ListOf(u)
             /\ c \in CurOf(u)' <=> c \in CurOf(u)
      BY <1>3, <2>1, <2>3, <3>1
    <3> QED BY <3>2, SoftHolder DEF Softs, IInv, Owned
  <2> QED BY <1>0, <2>2, <2>3
<1>5. OneRunner'
  <2>1. \A u \in Tasklets : u # t => (c \in RunOwners(u)' <=> c \in RunOwners(u))
    BY <1>0, TaskletAssumption DEF RunOwners, Softs
  <2>2. CASE at \in {"list", "requeue"} /\ runbit' = runbit \ {t}
    <3>1. c \in RunOwners(t) /\ c \notin RunOwners(t)'
      BY <1>0, <2>2 DEF RunOwners, Softs
    <3>2. \A u \in Tasklets :
             \/ (u \in runbit' <=> u \in runbit) /\ (c \in RunOwners(u)' <=> c \in RunOwners(u))
             \/ u \notin runbit' /\ c \in RunOwners(u) /\ c \notin RunOwners(u)'
      BY <2>1, <2>2, <3>1
    <3> QED BY <3>2, SoftRunner DEF Softs, IInv, Owned
  <2>3. CASE at \notin {"list", "requeue"} /\ runbit' = runbit
    <3>1. c \in RunOwners(t)' <=> c \in RunOwners(t)
      BY <2>3 DEF RunOwners, Softs
    <3> QED BY <1>1, <2>1, <2>3, <3>1, SoftRunner DEF Softs, IInv, Owned
  <2> QED BY <1>0, <2>2, <2>3
<1>6. \A u \in Tasklets : c \in InFunc(u)' =>
         c \in InFunc(u) \/ (count[u] = 0 /\ CallOf(u) = {})
  <2> SUFFICES ASSUME NEW u \in Tasklets, c \in InFunc(u)', c \notin InFunc(u)
               PROVE  count[u] = 0 /\ CallOf(u) = {}
    OBVIOUS
  <2>1. u = t /\ soft[c].at = "locked" /\ count[u] = 0
    BY <1>0, TaskletAssumption DEF InFunc, Softs
  <2>2. c \in CurOf(u)
    BY <1>0, <2>1 DEF CurOf
  <2>3. CallOf(u) = {}
    BY <2>2 DEF IInv, Owned, OneHolder, Alone
  <2> QED BY <2>1, <2>3
<1>7. Counted' /\ DisabledIsQuiet' /\ KillWaited'
  BY <1>6, SoftQuiet DEF Softs
<1> QED BY <1>2, <1>4, <1>5, <1>7 DEF IInv, Owned

\* The steps of a softirq that move no tasklet to another CPU's reach.
LEMMA TaskletActionStep ==
    ASSUME IInv, NEW c \in CPUs,
           \/ tasklet_trylock(c) \/ action_count(c) \/ action_clear(c)
           \/ func_return(c) \/ action_unlock(c)
    PROVE  IInv'
<1>1. Shape /\ soft[c].cur \in Tasklets \cup {NULL}
  BY Types DEF IInv, SoftRec
<1>2. CASE tasklet_trylock(c)
  BY <1>2, TrylockStep
<1>3. CASE action_count(c)
  <2>1. \/ count[soft[c].cur] = 0 /\ Softs(c, "clear", soft[c].list, soft[c].cur)
        \/ Softs(c, "drop", soft[c].list, soft[c].cur)
    BY <1>1, <1>3, SoftGoes DEF action_count
  <2> QED BY <1>3, <2>1, ActionStep DEF action_count, SoftAt
<1>4. CASE action_clear(c)
  <2>1. Softs(c, "func", soft[c].list, soft[c].cur)
    BY <1>1, <1>4, SoftGoes DEF action_clear
  <2> QED BY <1>4, <2>1, ActionStep DEF action_clear, SoftAt
<1>5. CASE func_return(c)
  <2>1. Softs(c, "list", soft[c].list, NULL)
    BY <1>1, <1>5, SoftGoes DEF func_return
  <2> QED BY <1>5, <2>1, ActionStep DEF func_return, SoftAt
<1>6. CASE action_unlock(c)
  <2>1. Softs(c, "requeue", soft[c].list, soft[c].cur)
    BY <1>1, <1>6, SoftGoes DEF action_unlock
  <2> QED BY <1>6, <2>1, ActionStep DEF action_unlock, SoftAt
<1> QED BY <1>2, <1>3, <1>4, <1>5, <1>6

------------------------------------------------------------------------------
\* An interrupt handler is entered, a section with softirqs off begins.
LEMMA EnterStep ==
    ASSUME IInv, NEW a \in Actors, NEW c \in CPUs, irq_enter(a, c) \/ local_bh_disable(a, c)
    PROVE  IInv'
<1>1. UNCHANGED <<sched, runbit, count, vec, pend, soft, ksd, hot>>
  BY DEF irq_enter, local_bh_disable
<1>2. PICK ctx \in {"irq", "bh"} :
         /\ call' = [call EXCEPT ![a].ctx = ctx, ![a].cpu = c]
         /\ ctx = "bh" => Free(c)
         /\ call[a] = Idle /\ c \in hot.online
  BY DEF irq_enter, local_bh_disable, Free
<1>3. call \in [Actors -> Calls] /\ call[a].ctx = "none"
  BY <1>2, Types DEF IInv, Idle
<1>4. \A b \in Actors : b # a => call'[b] = call[b]
  BY <1>2, <1>3
<1>5. call'[a] = [[call[a] EXCEPT !.ctx = ctx] EXCEPT !.cpu = c]
  BY <1>2, <1>3
<1>6. /\ call'[a].ctx = ctx /\ call'[a].cpu = c /\ call'[a].pc = call[a].pc
      /\ call'[a].t = call[a].t /\ call'[a].nr = call[a].nr
  BY <1>3, <1>5 DEF Calls
<1>7. call' \in [Actors -> Calls]
  <2>1. [call[a] EXCEPT !.ctx = ctx] \in Calls
    BY <1>3 DEF Calls
  <2>2. c \in 0..NCPU
    BY TaskletAssumption DEF CPUs
  <2>3. ASSUME NEW r \in Calls PROVE [r EXCEPT !.cpu = c] \in Calls
    BY <2>2 DEF Calls
  <2>4. call'[a] \in Calls
    BY <1>5, <2>1, <2>3
  <2> QED BY <1>2, <1>3, <1>4, <2>4
<1>8. TypeOK'
  BY <1>1, <1>7 DEF IInv, Shape, TypeOK
<1>9. Lists' /\ SoftShape' /\ HotShape'
  BY <1>1 DEF IInv, Shape, Lists, SoftShape, HotShape
<1>10. CallShape'
  <2>1. ctx = "bh" => /\ soft[c].at = "none"
                      /\ \A b \in Actors : ~(call[b].ctx = "bh" /\ call[b].cpu = c)
    BY <1>2 DEF Free, in_interrupt, On
  <2>2. \A b \in Actors : /\ call[b].pc # "idle" => call[b].t \in Tasklets
                          /\ call[b].pc = "insert" => call[b].nr \in Softirqs
                          /\ call[b].ctx # "none" => call[b].cpu \in hot.online
                          /\ call[b].ctx = "bh" => soft[call[b].cpu].at = "none"
    BY DEF IInv, Shape, CallShape
  <2>3. \A b \in Actors : /\ call'[b].pc # "idle" => call'[b].t \in Tasklets
                          /\ call'[b].pc = "insert" => call'[b].nr \in Softirqs
                          /\ call'[b].ctx # "none" => call'[b].cpu \in hot.online
                          /\ call'[b].ctx = "bh" => soft[call'[b].cpu].at = "none"
    BY <1>2, <1>4, <1>6, <2>1, <2>2
  <2>4. ASSUME NEW b \in Actors, NEW e \in Actors, call'[b].ctx = "bh", call'[e].ctx = "bh",
               call'[e].cpu = call'[b].cpu
        PROVE  e = b
    <3>1. CASE b # a /\ e # a
      BY <1>4, <2>4, <3>1 DEF IInv, Shape, CallShape
    <3>2. CASE b = a /\ e # a
      BY <1>4, <1>6, <2>1, <2>4, <3>2
    <3>3. CASE e = a /\ b # a
      BY <1>4, <1>6, <2>1, <2>4, <3>3
    <3> QED BY <3>1, <3>2, <3>3
  <2> QED BY <1>1, <2>3, <2>4 DEF CallShape
<1>11. Raised'
  <2>1. \A d \in CPUs : in_interrupt(d) => in_interrupt(d)'
    BY <1>1, <1>3, <1>4 DEF in_interrupt, On
  <2>2. ListIsRaised'
    BY <1>1 DEF IInv, Raised, ListIsRaised
  <2>3. RaisedIsPromised'
    BY <1>1, <2>1, Types DEF IInv, Raised, RaisedIsPromised
  <2> QED BY <2>2, <2>3 DEF Raised
<1>12. Owned'
  <2>1. \A b \in Actors : call'[b].t = call[b].t /\ call'[b].pc = call[b].pc
    BY <1>4, <1>6
  <2> QED BY <1>1, <2>1, OwnedSame DEF IInv
<1> QED BY <1>8, <1>9, <1>10, <1>11, <1>12 DEF IInv, Shape

\* What Softirq() does on a CPU where no softirq runs.
LEMMA SoftirqEffect ==
    ASSUME Shape, NEW c \in CPUs, soft[c].at = "none", Softirq(c)
    PROVE  /\ soft' \in [CPUs -> SoftRec] /\ pend' \in [CPUs -> SUBSET Softirqs]
           /\ \A d \in CPUs : d # c => soft'[d] = soft[d] /\ pend'[d] = pend[d]
           /\ pend'[c] = {}
           /\ soft'[c].list = <<>> /\ soft'[c].todo = pend[c]
           /\ soft'[c].at \in {"none", "list"}
           /\ soft'[c].at = "none" => pend[c] = {}
<1>1. soft \in [CPUs -> SoftRec] /\ pend \in [CPUs -> SUBSET Softirqs]
  BY Types
<1>2. CASE pend[c] = {}
  <2>1. UNCHANGED <<soft, pend>>
    BY <1>2 DEF Softirq
  <2>2. soft[c].list = <<>> /\ soft[c].todo = {}
    BY DEF Shape, SoftShape
  <2> QED BY <1>1, <1>2, <2>1, <2>2
<1>3. CASE pend[c] # {}
  <2> DEFINE r1 == [NoSoft EXCEPT !.at = "list"]
             r2 == [r1 EXCEPT !.todo = pend[c]]
             r  == [r2 EXCEPT !.restart = MaxRestart]
  <2>1. soft' = [soft EXCEPT ![c] = r] /\ pend' = [pend EXCEPT ![c] = {}]
    BY <1>3 DEF Softirq
  <2>2. r \in SoftRec
    <3>1. NoSoft \in SoftRec
      BY TaskletAssumption DEF NoSoft, SoftRec
    <3>2. r1 \in SoftRec
      BY <3>1 DEF SoftRec
    <3>3. r2 \in SoftRec
      <4> HIDE DEF r1
      <4> QED BY <1>1, <3>2 DEF SoftRec
    <3> HIDE DEF r1, r2
    <3> QED BY <3>3, TaskletAssumption DEF SoftRec
  <2>3. r.at = "list" /\ r.todo = pend[c] /\ r.list = <<>>
    BY DEF NoSoft
  <2> HIDE DEF r
  <2> QED BY <1>1, <1>3, <2>1, <2>2, <2>3
<1> QED BY <1>2, <1>3

\* Softirqs are done at the end of a section, and by ksoftirqd.
LEMMA SoftirqStep ==
    ASSUME IInv, NEW c \in CPUs, c \in hot.online, soft[c].at = "none", Softirq(c),
           call' \in [Actors -> Calls],
           \A b \in Actors : \/ call'[b] = call[b]
                             \/ /\ call[b].pc = "idle" /\ call[b].cpu = c
                                /\ call'[b].pc = "idle" /\ call'[b].ctx = "none",
           \A b \in Actors : call'[b].ctx = "bh" => call'[b].cpu # c,
           UNCHANGED <<sched, runbit, count, vec, ksd, hot>>
    PROVE  IInv'
<1>1. /\ soft' \in [CPUs -> SoftRec] /\ pend' \in [CPUs -> SUBSET Softirqs]
      /\ \A d \in CPUs : d # c => soft'[d] = soft[d] /\ pend'[d] = pend[d]
      /\ pend'[c] = {}
      /\ soft'[c].list = <<>> /\ soft'[c].todo = pend[c]
      /\ soft'[c].at \in {"none", "list"}
      /\ soft'[c].at = "none" => pend[c] = {}
  BY SoftirqEffect DEF IInv
<1>2. soft[c].list = <<>> /\ soft[c].todo = {}
  BY DEF IInv, Shape, SoftShape
<1>3. TypeOK'
  BY <1>1 DEF IInv, Shape, TypeOK
<1>4. Lists'
  <2>1. \A d \in CPUs : soft'[d].list = soft[d].list
    BY <1>1, <1>2
  <2> QED BY <2>1 DEF IInv, Shape, Lists
<1>5. SoftShape'
  BY <1>1 DEF IInv, Shape, SoftShape
<1>6. CallShape'
  <2>1. \A b \in Actors : call'[b].ctx # "none" => call'[b] = call[b] /\ call[b].cpu \in CPUs
    BY Types DEF IInv, Shape, CallShape
  <2> QED BY <1>1, <2>1 DEF IInv, Shape, CallShape
<1>7. HotShape'
  BY DEF IInv, Shape, HotShape
<1>8. ListIsRaised'
  <2>1. \A d \in CPUs : pend'[d] \cup soft'[d].todo = pend[d] \cup soft[d].todo
    BY <1>1, <1>2
  <2> QED BY <2>1 DEF IInv, Raised, ListIsRaised
<1>9. RaisedIsPromised'
  <2>1. \A d \in CPUs : d # c => (in_interrupt(d) => in_interrupt(d)')
    BY <1>1 DEF in_interrupt, On
  <2> QED BY <1>1, <2>1, Types DEF IInv, Raised, RaisedIsPromised
<1>10. Owned'
  BY <1>1, <1>2, OwnedSame DEF IInv
<1> QED BY <1>3, <1>4, <1>5, <1>6, <1>7, <1>8, <1>9, <1>10 DEF IInv, Shape, Raised

\* An interrupt handler and a section with softirqs off end.
LEMMA ExitStep ==
    ASSUME IInv, NEW a \in Actors, irq_exit(a) \/ local_bh_enable(a)
    PROVE  IInv'
<1>1. PICK c : c = call[a].cpu
  OBVIOUS
<1>2. /\ UNCHANGED <<sched, runbit, count, vec, ksd, hot>>
      /\ call' = [call EXCEPT ![a] = Idle]
      /\ call[a].ctx \in {"irq", "bh"} /\ call[a].pc = "idle"
  BY DEF irq_exit, local_bh_enable
<1>3. /\ call' \in [Actors -> Calls]
      /\ \A b \in Actors : b # a => call'[b] = call[b]
      /\ call'[a].pc = "idle" /\ call'[a].ctx = "none"
  <2>1. Idle \in Calls /\ Idle.pc = "idle" /\ Idle.ctx = "none"
    BY TaskletAssumption DEF Idle, Calls
  <2> QED BY <1>2, <2>1, Types DEF IInv
<1>4. c \in hot.online /\ c \in CPUs
  BY <1>1, <1>2, Types DEF IInv, Shape, CallShape
<1>5. CASE /\ call[a].ctx = "irq" /\ UNCHANGED <<soft, pend>>
           /\ On(c, "bh") \/ soft[c].at # "none"
  <2>1. TypeOK'
    BY <1>2, <1>3, <1>5 DEF IInv, Shape, TypeOK
  <2>2. Lists' /\ SoftShape' /\ HotShape'
    BY <1>2, <1>5 DEF IInv, Shape, Lists, SoftShape, HotShape
  <2>3. CallShape'
    <3>1. \A b \in Actors : call'[b] = call[b] \/ (call'[b].pc = "idle" /\ call'[b].ctx = "none")
      BY <1>3
    <3> QED BY <1>2, <1>5, <3>1 DEF IInv, Shape, CallShape
  <2>4. ListIsRaised'
    BY <1>2, <1>5 DEF IInv, Raised, ListIsRaised
  <2>5. RaisedIsPromised'
    <3>1. in_interrupt(c)'
      BY <1>3, <1>5 DEF in_interrupt, On
    <3>2. \A d \in CPUs : in_interrupt(d) => in_interrupt(d)'
      BY <1>1, <1>2, <1>3, <1>5, <3>1 DEF in_interrupt, On
    <3> QED BY <1>2, <1>5, <3>2, Types DEF IInv, Raised, RaisedIsPromised
  <2>6. Owned'
    <3>1. \A b \in Actors : \/ call'[b].t = call[b].t /\ call'[b].pc = call[b].pc
                            \/ call[b].pc = "idle" /\ call'[b].pc = "idle"
      BY <1>2, <1>3
    <3> QED BY <1>2, <1>5, <3>1, OwnedSame DEF IInv
  <2> QED BY <2>1, <2>2, <2>3, <2>4, <2>5, <2>6 DEF IInv, Shape, Raised
<1>6. CASE /\ Softirq(c) /\ soft[c].at = "none"
           /\ \A b \in Actors : b # a => ~(call[b].ctx = "bh" /\ call[b].cpu = c)
  <2>1. \A b \in Actors : \/ call'[b] = call[b]
                          \/ /\ call[b].pc = "idle" /\ call[b].cpu = c
                             /\ call'[b].pc = "idle" /\ call'[b].ctx = "none"
    BY <1>1, <1>2, <1>3
  <2>2. \A b \in Actors : call'[b].ctx = "bh" => call'[b].cpu # c
    BY <1>3, <1>6
  <2> QED BY <1>2, <1>3, <1>4, <1>6, <2>1, <2>2, SoftirqStep
<1>7. CASE irq_exit(a)
  BY <1>1, <1>5, <1>6, <1>7 DEF irq_exit, On
<1>8. CASE local_bh_enable(a)
  <2>1. soft[c].at = "none" /\ \A b \in Actors : call[b].ctx = "bh" /\ call[b].cpu = c => b = a
    BY <1>1, <1>8 DEF local_bh_enable, IInv, Shape, CallShape
  <2> QED BY <1>1, <1>6, <1>8, <2>1 DEF local_bh_enable
<1> QED BY <1>7, <1>8

------------------------------------------------------------------------------
\* ksoftirqd of c goes on at the place given, awake or about to sleep.
Ksds(c, at, run, stop) ==
    /\ ksd' \in [CPUs -> KsdRec]
    /\ \A d \in CPUs : d # c => ksd'[d] = ksd[d]
    /\ ksd'[c].at = at /\ ksd'[c].running = run /\ ksd'[c].stop = stop

LEMMA KsdGoes ==
    ASSUME Shape, NEW c \in CPUs, NEW run \in BOOLEAN,
           NEW at \in {"new", "check", "sched", "loop", "set", "die", "gone"}
    PROVE  /\ KsdTo(c, at, run) => Ksds(c, at, run, ksd[c].stop)
           /\ ksd' = wakeup_softirqd(c) => Ksds(c, ksd[c].at, TRUE, ksd[c].stop)
           /\ ksd' = [ksd EXCEPT ![c].stop = TRUE, ![c].running = TRUE]
                 => Ksds(c, ksd[c].at, TRUE, TRUE)
           /\ ksd' = [ksd EXCEPT ![c] = [at |-> at, running |-> FALSE, stop |-> FALSE]]
                 => Ksds(c, at, FALSE, FALSE)
<1>1. ksd \in [CPUs -> KsdRec]
  BY Types
<1>2. ASSUME NEW r \in KsdRec PROVE [r EXCEPT !.at = at] \in KsdRec
  BY DEF KsdRec
<1>3. ASSUME NEW r \in KsdRec, NEW b \in BOOLEAN PROVE [r EXCEPT !.running = b] \in KsdRec
  BY DEF KsdRec
<1>4. ASSUME NEW r \in KsdRec PROVE [r EXCEPT !.stop = TRUE] \in KsdRec
  BY DEF KsdRec
<1>5. ASSUME KsdTo(c, at, run)
      PROVE  Ksds(c, at, run, ksd[c].stop)
  <2>1. \A d \in CPUs : d # c => ksd'[d] = ksd[d]
    BY <1>1, <1>5 DEF KsdTo
  <2>2. ksd'[c] = [[ksd[c] EXCEPT !.at = at] EXCEPT !.running = run]
    BY <1>1, <1>5 DEF KsdTo
  <2>3. ksd'[c] \in KsdRec
    <3>1. [ksd[c] EXCEPT !.at = at] \in KsdRec
      BY <1>1, <1>2
    <3> QED BY <1>3, <2>2, <3>1
  <2>4. ksd'[c].at = at /\ ksd'[c].running = run /\ ksd'[c].stop = ksd[c].stop
    BY <1>1, <2>2 DEF KsdRec
  <2> QED BY <1>1, <1>5, <2>1, <2>3, <2>4 DEF Ksds, KsdTo
<1>6. ASSUME ksd' = wakeup_softirqd(c)
      PROVE  Ksds(c, ksd[c].at, TRUE, ksd[c].stop)
  <2>1. \A d \in CPUs : d # c => ksd'[d] = ksd[d]
    BY <1>1, <1>6 DEF wakeup_softirqd
  <2>2. ksd'[c] = [ksd[c] EXCEPT !.running = TRUE]
    BY <1>1, <1>6 DEF wakeup_softirqd
  <2>3. ksd'[c] \in KsdRec
    BY <1>1, <1>3, <2>2
  <2>4. ksd'[c].at = ksd[c].at /\ ksd'[c].running = TRUE /\ ksd'[c].stop = ksd[c].stop
    BY <1>1, <2>2 DEF KsdRec
  <2> QED BY <1>1, <1>6, <2>1, <2>3, <2>4 DEF Ksds, wakeup_softirqd
<1>7. ASSUME ksd' = [ksd EXCEPT ![c].stop = TRUE, ![c].running = TRUE]
      PROVE  Ksds(c, ksd[c].at, TRUE, TRUE)
  <2>1. \A d \in CPUs : d # c => ksd'[d] = ksd[d]
    BY <1>1, <1>7
  <2>2. ksd'[c] = [[ksd[c] EXCEPT !.stop = TRUE] EXCEPT !.running = TRUE]
    BY <1>1, <1>7
  <2>3. ksd'[c] \in KsdRec
    <3>1. [ksd[c] EXCEPT !.stop = TRUE] \in KsdRec
      BY <1>1, <1>4
    <3> QED BY <1>3, <2>2, <3>1
  <2>4. ksd'[c].at = ksd[c].at /\ ksd'[c].running = TRUE /\ ksd'[c].stop = TRUE
    BY <1>1, <2>2 DEF KsdRec
  <2> QED BY <1>1, <1>7, <2>1, <2>3, <2>4 DEF Ksds
<1>8. ASSUME ksd' = [ksd EXCEPT ![c] = [at |-> at, running |-> FALSE, stop |-> FALSE]]
      PROVE  Ksds(c, at, FALSE, FALSE)
  <2>1. [at |-> at, running |-> FALSE, stop |-> FALSE] \in KsdRec
    BY DEF KsdRec
  <2> QED BY <1>1, <1>8, <2>1 DEF Ksds
<1> QED BY <1>5, <1>6, <1>7, <1>8

\* ksoftirqd sleeps only where nothing is pending.
LEMMA KsdFrame ==
    ASSUME IInv, NEW c \in CPUs, NEW at, NEW run, Ksds(c, at, run, ksd[c].stop),
           c \in hot.online /\ pend[c] # {} => run \/ at \in {"check", "set", "loop"},
           UNCHANGED <<sched, runbit, count, vec, pend, soft, call, hot>>
    PROVE  IInv'
<1>1. TypeOK'
  BY DEF IInv, Shape, TypeOK, Ksds
<1>2. Lists' /\ SoftShape' /\ CallShape'
  BY DEF IInv, Shape, Lists, SoftShape, CallShape
<1>3. HotShape'
  <2>1. \A d \in CPUs : ksd'[d].stop = ksd[d].stop
    BY DEF Ksds
  <2> QED BY <2>1, Types DEF IInv, Shape, HotShape
<1>4. ListIsRaised'
  BY DEF IInv, Raised, ListIsRaised
<1>5. RaisedIsPromised'
  <2>1. \A d \in CPUs : in_interrupt(d)' <=> in_interrupt(d)
    BY DEF in_interrupt, On
  <2> QED BY <2>1, Types DEF IInv, Raised, RaisedIsPromised, Ksds
<1>6. Owned'
  BY OwnedSame DEF IInv
<1> QED BY <1>1, <1>2, <1>3, <1>4, <1>5, <1>6 DEF IInv, Shape, Raised

\* The steps of ksoftirqd.
LEMMA KsdStepOK ==
    ASSUME IInv, NEW c \in CPUs, KsdStep(c)
    PROVE  IInv'
<1>1. Shape /\ ksd[c].running \in BOOLEAN
  BY Types DEF IInv, KsdRec
<1>2. \A seen \in SeenPending(c) : c \in hot.online => seen = pend[c]
  BY DEF SeenPending
<1>3. CASE ksoftirqd_start(c)
  <2>1. Ksds(c, "check", FALSE, ksd[c].stop)
    BY <1>1, <1>3, KsdGoes DEF ksoftirqd_start
  <2> QED BY <1>3, <2>1, KsdFrame DEF ksoftirqd_start
<1>4. CASE ksoftirqd_check(c)
  <2>1. \/ /\ c \in hot.online => pend[c] = {}
           /\ Ksds(c, "sched", ksd[c].running, ksd[c].stop)
        \/ Ksds(c, "loop", TRUE, ksd[c].stop)
    BY <1>1, <1>2, <1>4, KsdGoes DEF ksoftirqd_check
  <2> QED BY <1>4, <2>1, KsdFrame DEF ksoftirqd_check
<1>5. CASE ksoftirqd_wakes(c)
  <2>1. Ksds(c, "loop", TRUE, ksd[c].stop)
    BY <1>1, <1>5, KsdGoes DEF ksoftirqd_wakes
  <2> QED BY <1>5, <2>1, KsdFrame DEF ksoftirqd_wakes
<1>6. CASE ksoftirqd_loop(c)
  <2>1. UNCHANGED <<sched, runbit, count, vec, call, hot>>
    BY <1>6 DEF ksoftirqd_loop
  <2>2. CASE KsdTo(c, "set", TRUE) /\ UNCHANGED <<soft, pend>>
    <3>1. Ksds(c, "set", TRUE, ksd[c].stop)
      BY <1>1, <2>2, KsdGoes
    <3> QED BY <2>1, <2>2, <3>1, KsdFrame
  <2>3. CASE c \notin hot.online /\ KsdTo(c, "die", FALSE) /\ UNCHANGED <<soft, pend>>
    <3>1. Ksds(c, "die", FALSE, ksd[c].stop)
      BY <1>1, <2>3, KsdGoes
    <3> QED BY <2>1, <2>3, <3>1, KsdFrame
  <2>4. CASE c \in hot.online /\ Softirq(c) /\ UNCHANGED ksd
    <3>1. /\ soft[c].at = "none"
          /\ \A b \in Actors : ~(call[b].ctx = "bh" /\ call[b].cpu = c)
      BY <1>6, <2>4 DEF ksoftirqd_loop, KsdAt, Free, in_interrupt, On
    <3>2. call' \in [Actors -> Calls]
      BY <1>1, <2>1, Types
    <3> QED BY <2>1, <2>4, <3>1, <3>2, SoftirqStep
  <2> QED BY <1>6, <2>2, <2>3, <2>4 DEF ksoftirqd_loop
<1>7. CASE ksoftirqd_set(c)
  <2>1. Ksds(c, "check", FALSE, ksd[c].stop)
    BY <1>1, <1>7, KsdGoes DEF ksoftirqd_set
  <2> QED BY <1>7, <2>1, KsdFrame DEF ksoftirqd_set
<1>8. CASE ksoftirqd_exit(c)
  <2>1. Ksds(c, "gone", FALSE, ksd[c].stop)
    BY <1>1, <1>8, KsdGoes DEF ksoftirqd_exit
  <2>2. c \notin hot.online
    BY <1>8 DEF ksoftirqd_exit, IInv, Shape, HotShape
  <2> QED BY <1>8, <2>1, <2>2, KsdFrame DEF ksoftirqd_exit
<1> QED BY <1>3, <1>4, <1>5, <1>6, <1>7, <1>8 DEF KsdStep

------------------------------------------------------------------------------
\* What the hotplug task does besides taking lists over: nothing runs on the
\* CPU that goes, none of its lists is in use when it comes.
LEMMA HotplugStep ==
    ASSUME IInv, cpu_dead_stop \/ cpu_up \/ cpu_online \/ cpu_up_canceled \/ HotCall
    PROVE  IInv'
<1>1. UNCHANGED <<sched, runbit, count, vec, pend, soft, call>>
  BY DEF cpu_dead_stop, cpu_up, cpu_online, cpu_up_canceled, HotCall, cpu_down, cpu_up_prepare
<1>2. PICK online, cpu, at : hot = [online |-> online, cpu |-> cpu, at |-> at]
  BY Types DEF IInv, HotRec
<1>3. /\ online \subseteq CPUs /\ cpu \in 0..NCPU
      /\ at \in {"idle", "dead", "stopping", "prepared", "online"}
      /\ hot.online = online /\ hot.cpu = cpu /\ hot.at = at
  BY <1>2, Types DEF IInv, HotRec
<1>4. /\ at \in {"dead", "stopping", "prepared"} => cpu \in CPUs \ online
      /\ at = "online" => cpu \in online
  BY <1>3 DEF IInv, Shape, HotShape
<1>5. Lists'
  BY <1>1 DEF IInv, Shape, Lists
<1>6. Owned'
  BY <1>1, OwnedSame DEF IInv
<1>7. \A d \in CPUs : in_interrupt(d)' <=> in_interrupt(d)
  BY <1>1 DEF in_interrupt, On
<1>8. CASE cpu_dead_stop
  <2>1. Ksds(cpu, ksd[cpu].at, TRUE, TRUE)
    BY <1>3, <1>4, <1>8, KsdGoes DEF cpu_dead_stop, IInv
  <2>2. hot' \in HotRec /\ hot'.online = online /\ hot'.cpu = cpu /\ hot'.at = "stopping" /\ at = "dead"
    BY <1>2, <1>3, <1>8 DEF cpu_dead_stop, HotRec
  <2>3. TypeOK'
    BY <1>1, <2>1, <2>2 DEF IInv, Shape, TypeOK, Ksds
  <2>4. SoftShape' /\ CallShape'
    BY <1>1, <1>3, <2>2 DEF IInv, Shape, SoftShape, CallShape
  <2>5. HotShape'
    BY <1>3, <1>4, <2>1, <2>2 DEF IInv, Shape, HotShape, Ksds
  <2>6. ListIsRaised'
    BY <1>1, <1>3, <2>2 DEF IInv, Raised, ListIsRaised
  <2>7. RaisedIsPromised'
    BY <1>1, <1>3, <1>4, <1>7, <2>1, <2>2 DEF IInv, Raised, RaisedIsPromised, Ksds
  <2> QED BY <1>5, <1>6, <2>3, <2>4, <2>5, <2>6, <2>7 DEF IInv, Shape, Raised
<1>9. CASE cpu_up
  <2>1. /\ hot' \in HotRec /\ hot'.online = online \cup {cpu} /\ hot'.cpu = cpu
        /\ hot'.at = "online" /\ at = "prepared" /\ UNCHANGED ksd
    BY <1>2, <1>3, <1>4, <1>9 DEF cpu_up, HotRec
  <2>2. TypeOK'
    BY <1>1, <2>1 DEF IInv, Shape, TypeOK
  <2>3. SoftShape' /\ CallShape'
    BY <1>1, <1>3, <2>1 DEF IInv, Shape, SoftShape, CallShape
  <2>4. HotShape'
    BY <1>3, <1>4, <2>1 DEF IInv, Shape, HotShape
  <2>5. ListIsRaised'
    <3>1. \A nr \in Softirqs : vec[cpu][nr] = <<>>
      BY <1>3, <2>1 DEF IInv, Shape, HotShape
    <3> QED BY <1>1, <1>3, <2>1, <3>1 DEF IInv, Raised, ListIsRaised
  <2>6. RaisedIsPromised'
    BY <1>1, <1>3, <1>7, <2>1 DEF IInv, Raised, RaisedIsPromised
  <2> QED BY <1>5, <1>6, <2>2, <2>3, <2>4, <2>5, <2>6 DEF IInv, Shape, Raised
<1>10. CASE cpu_online
  <2>1. Ksds(cpu, ksd[cpu].at, TRUE, ksd[cpu].stop)
    BY <1>3, <1>4, <1>10, KsdGoes DEF cpu_online, IInv
  <2>2. hot' \in HotRec /\ hot'.online = online /\ hot'.cpu = 0 /\ hot'.at = "idle" /\ at = "online"
    <3>1. hot' = [[hot EXCEPT !.cpu = 0] EXCEPT !.at = "idle"] /\ at = "online"
      BY <1>3, <1>10 DEF cpu_online
    <3>2. [hot EXCEPT !.cpu = 0] \in HotRec
      BY <1>2, <1>3, TaskletAssumption DEF HotRec
    <3>3. ASSUME NEW r \in HotRec PROVE [r EXCEPT !.at = "idle"] \in HotRec
      BY DEF HotRec
    <3>4. hot'.online = online /\ hot'.cpu = 0 /\ hot'.at = "idle"
      BY <1>2, <3>1
    <3> QED BY <3>1, <3>2, <3>3, <3>4
  <2>3. TypeOK'
    BY <1>1, <2>1, <2>2 DEF IInv, Shape, TypeOK, Ksds
  <2>4. SoftShape' /\ CallShape'
    BY <1>1, <1>3, <2>2 DEF IInv, Shape, SoftShape, CallShape
  <2>5. HotShape'
    BY <1>3, <1>4, <2>1, <2>2 DEF IInv, Shape, HotShape, Ksds
  <2>6. ListIsRaised'
    BY <1>1, <1>3, <1>4, <2>2 DEF IInv, Raised, ListIsRaised
  <2>7. RaisedIsPromised'
    BY <1>1, <1>3, <1>4, <1>7, <2>1, <2>2 DEF IInv, Raised, RaisedIsPromised, Ksds
  <2> QED BY <1>5, <1>6, <2>3, <2>4, <2>5, <2>6, <2>7 DEF IInv, Shape, Raised
<1>11. CASE cpu_up_canceled
  <2>1. /\ hot' \in HotRec /\ hot'.online = online /\ hot'.cpu = cpu
        /\ hot'.at = "dead" /\ at = "prepared" /\ UNCHANGED ksd
    BY <1>2, <1>3, <1>11 DEF cpu_up_canceled, HotRec
  <2>2. TypeOK'
    BY <1>1, <2>1 DEF IInv, Shape, TypeOK
  <2>3. SoftShape' /\ CallShape'
    BY <1>1, <1>3, <2>1 DEF IInv, Shape, SoftShape, CallShape
  <2>4. HotShape'
    BY <1>3, <1>4, <2>1 DEF IInv, Shape, HotShape
  <2>5. ListIsRaised'
    BY <1>1, <1>3, <2>1 DEF IInv, Raised, ListIsRaised
  <2>6. RaisedIsPromised'
    BY <1>1, <1>3, <1>7, <2>1 DEF IInv, Raised, RaisedIsPromised
  <2> QED BY <1>5, <1>6, <2>2, <2>3, <2>4, <2>5, <2>6 DEF IInv, Shape, Raised
<1>12. ASSUME NEW c \in CPUs, cpu_down(c)
       PROVE  IInv'
  <2>1. /\ hot' \in HotRec /\ hot'.online = online \ {c} /\ hot'.cpu = c
        /\ hot'.at = "dead" /\ at = "idle" /\ UNCHANGED ksd
    <3>1. c \in 0..NCPU
      BY TaskletAssumption DEF CPUs
    <3> QED BY <1>2, <1>3, <1>12, <3>1 DEF cpu_down, HotRec
  <2>2. TypeOK'
    BY <1>1, <2>1 DEF IInv, Shape, TypeOK
  <2>3. SoftShape' /\ CallShape'
    <3>1. soft[c].at = "none" /\ \A b \in Actors : call[b].ctx # "none" => call[b].cpu # c
      BY <1>12, Types DEF cpu_down, Free, in_interrupt, On, IInv, Calls
    <3> QED BY <1>1, <1>3, <2>1, <3>1 DEF IInv, Shape, SoftShape, CallShape
  <2>4. HotShape'
    BY <1>3, <1>4, <2>1 DEF IInv, Shape, HotShape
  <2>5. ListIsRaised'
    BY <1>1, <1>3, <1>4, <2>1 DEF IInv, Raised, ListIsRaised, Shape, HotShape, CPUs
  <2>6. RaisedIsPromised'
    BY <1>1, <1>3, <1>7, <2>1 DEF IInv, Raised, RaisedIsPromised
  <2> QED BY <1>5, <1>6, <2>2, <2>3, <2>4, <2>5, <2>6 DEF IInv, Shape, Raised
<1>13. ASSUME NEW c \in CPUs, cpu_up_prepare(c)
       PROVE  IInv'
  <2>1. Ksds(c, "new", FALSE, FALSE)
    BY <1>13, KsdGoes DEF cpu_up_prepare, IInv
  <2>2. /\ hot' \in HotRec /\ hot'.online = online /\ hot'.cpu = c
        /\ hot'.at = "prepared" /\ at = "idle" /\ c \notin online
    <3>1. c \in 0..NCPU
      BY TaskletAssumption DEF CPUs
    <3> QED BY <1>2, <1>3, <1>13, <3>1 DEF cpu_up_prepare, HotRec
  <2>3. TypeOK'
    BY <1>1, <2>1, <2>2 DEF IInv, Shape, TypeOK, Ksds
  <2>4. SoftShape' /\ CallShape'
    BY <1>1, <1>3, <2>2 DEF IInv, Shape, SoftShape, CallShape
  <2>5. cpu = 0 /\ \A d \in CPUs \ online : \A nr \in Softirqs : vec[d][nr] = <<>>
    <3>1. cpu = 0 /\ 0 \notin CPUs
      BY <1>3, <2>2 DEF IInv, Shape, HotShape, CPUs
    <3> QED BY <1>3, <3>1 DEF IInv, Raised, ListIsRaised
  <2>6. HotShape'
    BY <1>1, <1>3, <1>4, <2>1, <2>2, <2>5 DEF IInv, Shape, HotShape, Ksds
  <2>7. ListIsRaised'
    BY <1>1, <1>3, <2>2, <2>5 DEF IInv, Raised, ListIsRaised
  <2>8. RaisedIsPromised'
    BY <1>1, <1>3, <1>7, <2>1, <2>2 DEF IInv, Raised, RaisedIsPromised, Ksds
  <2> QED BY <1>5, <1>6, <2>3, <2>4, <2>6, <2>7, <2>8 DEF IInv, Shape, Raised
<1> QED BY <1>8, <1>9, <1>10, <1>11, <1>12, <1>13 DEF HotCall

------------------------------------------------------------------------------
\* The end of a round of __do_softirq().
LEMMA RoundStep ==
    ASSUME IInv, NEW c \in CPUs, softirq_round(c)
    PROVE  IInv'
<1>1. /\ soft[c].at = "list" /\ soft[c].list = <<>> /\ soft[c].todo = {}
      /\ UNCHANGED <<sched, runbit, count, vec, call, hot>>
  BY DEF softirq_round, SoftDone, SoftAt
<1>2. soft \in [CPUs -> SoftRec] /\ pend \in [CPUs -> SUBSET Softirqs] /\ Shape
  BY Types DEF IInv
<1>3. /\ soft' \in [CPUs -> SoftRec] /\ pend' \in [CPUs -> SUBSET Softirqs]
      /\ ksd' \in [CPUs -> KsdRec]
      /\ \A d \in CPUs : d # c => /\ soft'[d] = soft[d] /\ pend'[d] = pend[d]
                                  /\ ksd'[d] = ksd[d]
      /\ soft'[c].list = <<>> /\ soft'[c].at \in {"none", "list"}
      /\ pend'[c] \cup soft'[c].todo = pend[c]
      /\ ksd'[c].stop = ksd[c].stop
      /\ soft'[c].at = "none" => soft'[c].todo = {}
      /\ pend'[c] # {} => ksd'[c].running
  <2>1. CASE /\ soft' = [soft EXCEPT ![c].todo = pend[c], ![c].restart = @ - 1, ![c].nr = 99]
             /\ pend' = [pend EXCEPT ![c] = {}] /\ soft[c].restart > 1 /\ UNCHANGED ksd
    <3> DEFINE r1 == [soft[c] EXCEPT !.todo = pend[c]]
               r2 == [r1 EXCEPT !.restart = @ - 1]
               r  == [r2 EXCEPT !.nr = 99]
    <3>1. soft'[c] = r /\ \A d \in CPUs : d # c => soft'[d] = soft[d]
      BY <1>2, <2>1
    <3>2. soft[c] \in SoftRec /\ pend[c] \in SUBSET Softirqs
      BY <1>2
    <3>3. r1 \in SoftRec /\ r1.restart > 1
      BY <2>1, <3>2 DEF SoftRec
    <3>4. r2 \in SoftRec
      <4> HIDE DEF r1
      <4>1. r1.restart \in 0..MaxRestart
        BY <3>3 DEF SoftRec
      <4>2. r1.restart - 1 \in 0..MaxRestart
        BY <3>3, <4>1, TaskletAssumption
      <4> QED BY <3>3, <4>2 DEF SoftRec
    <3>5. r \in SoftRec
      <4> HIDE DEF r2
      <4> QED BY <3>4 DEF SoftRec
    <3>6. r.list = <<>> /\ r.at = "list" /\ r.todo = pend[c]
      BY <1>1, <3>2 DEF SoftRec
    <3> HIDE DEF r
    <3>7. soft' \in [CPUs -> SoftRec]
      BY <1>2, <2>1, <3>1, <3>5
    <3> QED BY <1>2, <2>1, <3>1, <3>6, <3>7, Types
  <2>2. CASE /\ soft' = [soft EXCEPT ![c] = NoSoft] /\ UNCHANGED pend
             /\ ksd' = IF pend[c] # {} THEN wakeup_softirqd(c) ELSE ksd
    <3>1. NoSoft \in SoftRec
      BY TaskletAssumption DEF NoSoft, SoftRec
    <3>2. NoSoft.list = <<>> /\ NoSoft.at = "none" /\ NoSoft.todo = {}
      BY DEF NoSoft
    <3>3. /\ soft' \in [CPUs -> SoftRec] /\ soft'[c] = NoSoft
          /\ \A d \in CPUs : d # c => soft'[d] = soft[d]
      BY <1>2, <2>2, <3>1
    <3>4. CASE pend[c] # {}
      <4>1. Ksds(c, ksd[c].at, TRUE, ksd[c].stop)
        BY <1>2, <2>2, <3>4, KsdGoes
      <4> QED BY <1>2, <2>2, <3>2, <3>3, <4>1 DEF Ksds
    <3>5. CASE pend[c] = {}
      BY <1>2, <2>2, <3>2, <3>3, <3>5, Types
    <3> QED BY <3>4, <3>5
  <2> QED BY <2>1, <2>2 DEF softirq_round
<1>4. TypeOK'
  BY <1>1, <1>3 DEF IInv, Shape, TypeOK
<1>5. Lists'
  <2>1. \A d \in CPUs : soft'[d].list = soft[d].list
    BY <1>1, <1>3
  <2> QED BY <1>1, <2>1 DEF IInv, Shape, Lists
<1>6. SoftShape'
  BY <1>1, <1>3 DEF IInv, Shape, SoftShape
<1>7. CallShape'
  <2>1. \A a \in Actors : call[a].ctx = "bh" => call[a].cpu \in CPUs /\ call[a].cpu # c
    BY <1>1, Types DEF IInv, Shape, CallShape
  <2> QED BY <1>1, <1>3, <2>1 DEF IInv, Shape, CallShape
<1>8. HotShape'
  <2>1. \A d \in CPUs : ksd'[d].stop = ksd[d].stop
    BY <1>3
  <2> QED BY <1>1, <2>1, Types DEF IInv, Shape, HotShape
<1>9. ListIsRaised'
  <2>1. \A d \in CPUs : pend'[d] \cup soft'[d].todo = pend[d] \cup soft[d].todo
    BY <1>1, <1>3
  <2> QED BY <1>1, <2>1 DEF IInv, Raised, ListIsRaised
<1>10. RaisedIsPromised'
  <2>1. \A d \in CPUs : d # c => (in_interrupt(d)' <=> in_interrupt(d))
    BY <1>1, <1>3 DEF in_interrupt, On
  <2> QED BY <1>1, <1>3, <2>1, Types DEF IInv, Raised, RaisedIsPromised
<1>11. Owned'
  BY <1>1, <1>3, OwnedSame DEF IInv
<1> QED BY <1>4, <1>5, <1>6, <1>7, <1>8, <1>9, <1>10, <1>11 DEF IInv, Shape, Raised

------------------------------------------------------------------------------
\* A tasklet is on the list of a CPU for a softirq.
LEMMA OnVec ==
    ASSUME NEW t, NEW c \in CPUs, NEW nr \in Softirqs
    PROVE  <<c, nr>> \in VecOf(t) <=> t \in Members(vec[c][nr])
BY DEF VecOf

\* __tasklet_schedule() adds the tasklet to one list.
LEMMA AddEffect ==
    ASSUME Shape, NEW c \in CPUs, NEW nr \in Softirqs, NEW t \in Tasklets,
           add_and_raise(c, nr, t), <<c, nr>> \notin VecOf(t)
    PROVE  /\ vec' \in [CPUs -> [Softirqs -> Seq(Tasklets)]]
           /\ pend' \in [CPUs -> SUBSET Softirqs]
           /\ \A d \in CPUs, mr \in Softirqs : NoDup(vec'[d][mr])
           /\ \A d \in CPUs, mr \in Softirqs :
                 vec'[d][mr] = vec[d][mr] \/ (d = c /\ mr = nr)
           /\ \A d \in CPUs : pend[d] \subseteq pend'[d] /\ (d # c => pend'[d] = pend[d])
           /\ nr \in pend'[c]
           /\ VecOf(t)' = VecOf(t) \cup {<<c, nr>>}
           /\ \A u \in Tasklets : u # t => VecOf(u)' = VecOf(u)
<1> DEFINE q == list_add_tail(vec[c][nr], t)
<1>1. vec \in [CPUs -> [Softirqs -> Seq(Tasklets)]] /\ pend \in [CPUs -> SUBSET Softirqs]
  BY Types
<1>2. q \in Seq(Tasklets) /\ Members(q) = Members(vec[c][nr]) \cup {t} /\ NoDup(q)
  <2>1. vec[c][nr] \in Seq(Tasklets) /\ NoDup(vec[c][nr]) /\ t \notin Members(vec[c][nr])
    BY <1>1, OnVec DEF Shape, Lists
  <2> QED BY <2>1, AddTailProperties
<1>3. /\ vec' = [vec EXCEPT ![c] = [vec[c] EXCEPT ![nr] = q]]
      /\ pend' = [pend EXCEPT ![c] = @ \cup {nr}]
  BY DEF add_and_raise
<1> HIDE DEF q
<1>4. [vec[c] EXCEPT ![nr] = q] \in [Softirqs -> Seq(Tasklets)]
  BY <1>1, <1>2
<1>5. vec' \in [CPUs -> [Softirqs -> Seq(Tasklets)]]
  BY <1>1, <1>3, <1>4
<1>6. /\ \A d \in CPUs, mr \in Softirqs : vec'[d][mr] = vec[d][mr] \/ (d = c /\ mr = nr)
      /\ vec'[c][nr] = q
  BY <1>1, <1>3
<1>7. \A d \in CPUs, mr \in Softirqs : NoDup(vec'[d][mr])
  BY <1>2, <1>6 DEF Shape, Lists
<1>8. /\ pend' \in [CPUs -> SUBSET Softirqs]
      /\ \A d \in CPUs : pend[d] \subseteq pend'[d] /\ (d # c => pend'[d] = pend[d])
      /\ nr \in pend'[c]
  BY <1>1, <1>3
<1>9. ASSUME NEW u \in Tasklets
      PROVE  \A d \in CPUs, mr \in Softirqs :
                <<d, mr>> \in VecOf(u)' <=> <<d, mr>> \in VecOf(u) \/ (u = t /\ d = c /\ mr = nr)
  <2> TAKE d \in CPUs, mr \in Softirqs
  <2>1. <<d, mr>> \in VecOf(u) <=> u \in Members(vec[d][mr])
    BY OnVec
  <2>2. <<d, mr>> \in VecOf(u)' <=> u \in Members(vec'[d][mr])
    BY DEF VecOf
  <2>3. CASE d = c /\ mr = nr
    BY <1>2, <1>6, <2>1, <2>2, <2>3
  <2>4. CASE ~(d = c /\ mr = nr)
    BY <1>6, <2>1, <2>2, <2>4
  <2> QED BY <2>3, <2>4
<1>10. \A u : VecOf(u) \subseteq CPUs \X Softirqs /\ VecOf(u)' \subseteq CPUs \X Softirqs
  BY DEF VecOf
<1>11. VecOf(t)' = VecOf(t) \cup {<<c, nr>>}
  <2> HIDE DEF VecOf
  <2>1. \A x \in CPUs \X Softirqs : x \in VecOf(t)' <=> x \in VecOf(t) \/ x = <<c, nr>>
    BY <1>9
  <2> QED BY <1>10, <2>1
<1>12. \A u \in Tasklets : u # t => VecOf(u)' = VecOf(u)
  <2> TAKE u \in Tasklets
  <2> HAVE u # t
  <2>1. \A x \in CPUs \X Softirqs : x \in VecOf(u)' <=> x \in VecOf(u)
    BY <1>9
  <2> QED BY <1>10, <2>1
<1> QED BY <1>5, <1>6, <1>7, <1>8, <1>11, <1>12

\* A tasklet is added on a CPU where it will be seen: softirqs are looked at
\* later there, or ksoftirqd has been woken.
LEMMA AddRaised ==
    ASSUME IInv, NEW c \in hot.online, NEW nr \in Softirqs, NEW t \in Tasklets,
           add_and_raise(c, nr, t), <<c, nr>> \notin VecOf(t),
           sched' \subseteq Tasklets, UNCHANGED <<runbit, count, hot>>,
           soft' \in [CPUs -> SoftRec], call' \in [Actors -> Calls], ksd' \in [CPUs -> KsdRec],
           \A d \in CPUs : \/ soft'[d] = soft[d]
                           \/ /\ soft[d].at # "none" /\ soft'[d].at = "list"
                              /\ soft'[d].list = soft[d].list /\ soft'[d].todo = soft[d].todo
                              /\ soft'[d].nr = soft[d].nr,
           \A a \in Actors : \/ call'[a] = call[a]
                             \/ /\ call'[a].ctx = call[a].ctx /\ call'[a].cpu = call[a].cpu
                                /\ call'[a].pc = "idle",
           \A d \in CPUs : /\ ksd'[d].at = ksd[d].at /\ ksd'[d].stop = ksd[d].stop
                           /\ ksd[d].running => ksd'[d].running,
           in_interrupt(c) \/ ksd'[c].running
    PROVE  Shape' /\ Raised'
<1>1. c \in CPUs /\ hot.online \subseteq CPUs
  BY Types DEF IInv
<1>2. /\ vec' \in [CPUs -> [Softirqs -> Seq(Tasklets)]]
      /\ pend' \in [CPUs -> SUBSET Softirqs]
      /\ \A d \in CPUs, mr \in Softirqs : NoDup(vec'[d][mr])
      /\ \A d \in CPUs, mr \in Softirqs :
            vec'[d][mr] = vec[d][mr] \/ (d = c /\ mr = nr)
      /\ \A d \in CPUs : pend[d] \subseteq pend'[d] /\ (d # c => pend'[d] = pend[d])
      /\ nr \in pend'[c]
  BY <1>1, AddEffect DEF IInv
<1>3. TypeOK'
  BY <1>2 DEF IInv, Shape, TypeOK
<1>4. Lists'
  BY <1>2 DEF IInv, Shape, Lists
<1>5. SoftShape'
  BY DEF IInv, Shape, SoftShape
<1>6. \A d \in CPUs : soft'[d].at = "none" <=> soft[d].at = "none"
  OBVIOUS
<1>7. CallShape'
  <2>1. \A a \in Actors : /\ call'[a].ctx = call[a].ctx /\ call'[a].cpu = call[a].cpu
                          /\ call'[a].pc # "idle" => call'[a] = call[a]
    OBVIOUS
  <2>2. \A a \in Actors : call[a].ctx = "bh" => call[a].cpu \in CPUs
    BY <1>1 DEF IInv, Shape, CallShape
  <2> QED BY <1>6, <2>1, <2>2 DEF IInv, Shape, CallShape
<1>8. HotShape'
  <2>1. hot.at = "prepared" => hot.cpu \in CPUs /\ hot.cpu # c
    BY DEF IInv, Shape, HotShape
  <2>2. hot.at = "prepared" => \A mr \in Softirqs : vec'[hot.cpu][mr] = vec[hot.cpu][mr]
    BY <1>2, <2>1
  <2>3. hot.at = "prepared" => /\ ~ksd'[hot.cpu].stop
                               /\ \A mr \in Softirqs : vec'[hot.cpu][mr] = <<>>
    BY <2>1, <2>2 DEF IInv, Shape, HotShape
  <2>4. \A d \in hot.online : ~ksd'[d].stop
    BY <1>1 DEF IInv, Shape, HotShape
  <2> QED BY <2>3, <2>4 DEF IInv, Shape, HotShape
<1>9. ListIsRaised'
  <2>1. \A d \in CPUs : pend[d] \cup soft[d].todo \subseteq pend'[d] \cup soft'[d].todo
    BY <1>2
  <2>2. ASSUME NEW d \in CPUs, NEW mr \in Softirqs, vec'[d][mr] # <<>>
        PROVE  \/ d \in hot.online /\ mr \in pend'[d] \cup soft'[d].todo
               \/ d \notin hot.online /\ hot.cpu = d
    <3>1. CASE d = c /\ mr = nr
      BY <1>2, <3>1
    <3>2. CASE ~(d = c /\ mr = nr)
      <4>1. vec[d][mr] # <<>>
        BY <1>2, <2>2, <3>2
      <4>2. \/ d \in hot.online /\ mr \in pend[d] \cup soft[d].todo
            \/ d \notin hot.online /\ hot.cpu = d
        BY <4>1 DEF IInv, Raised, ListIsRaised
      <4> QED BY <2>1, <4>2
    <3> QED BY <3>1, <3>2
  <2> QED BY <2>2 DEF ListIsRaised
<1>10. RaisedIsPromised'
  <2>1. \A d \in CPUs : in_interrupt(d)' <=> in_interrupt(d)
    <3>1. \A a \in Actors : call'[a].ctx = call[a].ctx /\ call'[a].cpu = call[a].cpu
      OBVIOUS
    <3> QED BY <1>6, <3>1 DEF in_interrupt, On
  <2>2. ASSUME NEW d \in hot.online, pend'[d] # {}
        PROVE  \/ in_interrupt(d)'
               \/ ksd'[d].running \/ ksd'[d].at \in {"check", "set", "loop"}
               \/ hot.at = "online" /\ hot.cpu = d
    <3>1. d \in CPUs
      BY <1>1
    <3>2. CASE d = c
      BY <2>1, <3>1, <3>2
    <3>3. CASE d # c
      <4>1. pend[d] # {}
        BY <1>2, <2>2, <3>1, <3>3
      <4>2. \/ in_interrupt(d)
            \/ ksd[d].running \/ ksd[d].at \in {"check", "set", "loop"}
            \/ hot.at = "online" /\ hot.cpu = d
        BY <4>1 DEF IInv, Raised, RaisedIsPromised
      <4> QED BY <2>1, <3>1, <4>2
    <3> QED BY <3>2, <3>3
  <2> QED BY <2>2 DEF RaisedIsPromised
<1> QED BY <1>3, <1>4, <1>5, <1>7, <1>8, <1>9, <1>10 DEF Shape, Raised

\* The tasklet is now on that list, and nobody has it besides.
LEMMA AddHolder ==
    ASSUME IInv, NEW c \in CPUs, NEW nr \in Softirqs, NEW t \in Tasklets,
           add_and_raise(c, nr, t), t \in sched',
           VecOf(t) = {}, ListOf(t)' = {}, CurOf(t)' = {}, CallOf(t)' = {},
           \A u \in Tasklets : u # t => /\ u \in sched' <=> u \in sched
                                        /\ ListOf(u)' = ListOf(u) /\ CurOf(u)' = CurOf(u)
                                        /\ CallOf(u)' = CallOf(u)
    PROVE  OneHolder'
<1>1. VecOf(t)' = {<<c, nr>>} /\ \A u \in Tasklets : u # t => VecOf(u)' = VecOf(u)
  <2>1. <<c, nr>> \notin VecOf(t) /\ Shape
    BY DEF IInv
  <2>2. VecOf(t)' = VecOf(t) \cup {<<c, nr>>}
    BY <2>1, AddEffect
  <2>3. \A u \in Tasklets : u # t => VecOf(u)' = VecOf(u)
    BY <2>1, AddEffect DEF VecOf
  <2> QED BY <2>2, <2>3
<1>2. Alone(VecOf(t)', ListOf(t)', CurOf(t)', CallOf(t)')
  BY <1>1 DEF Alone
<1> SUFFICES ASSUME NEW u \in Tasklets
             PROVE  \/ /\ u \notin sched'
                       /\ VecOf(u)' = {} /\ ListOf(u)' = {} /\ CurOf(u)' = {} /\ CallOf(u)' = {}
                    \/ /\ u \in sched'
                       /\ \/ Alone(VecOf(u)', ListOf(u)', CurOf(u)', CallOf(u)')
                          \/ Alone(ListOf(u)', VecOf(u)', CurOf(u)', CallOf(u)')
                          \/ Alone(CurOf(u)', VecOf(u)', ListOf(u)', CallOf(u)')
                          \/ Alone(CallOf(u)', VecOf(u)', ListOf(u)', CurOf(u)')
  BY DEF OneHolder, Alone
<1>3. CASE u = t
  BY <1>2, <1>3
<1>4. CASE u # t
  <2>1. /\ u \in sched' <=> u \in sched
        /\ VecOf(u)' = VecOf(u) /\ ListOf(u)' = ListOf(u) /\ CurOf(u)' = CurOf(u)
        /\ CallOf(u)' = CallOf(u)
    BY <1>1, <1>4
  <2> QED BY <2>1 DEF IInv, Owned, OneHolder
<1> QED BY <1>3, <1>4

\* A tasklet whose SCHED bit is taken now is with nobody else.
LEMMA Unowned ==
    ASSUME IInv, NEW t \in Tasklets, t \notin sched
    PROVE  VecOf(t) = {} /\ ListOf(t) = {} /\ CurOf(t) = {} /\ CallOf(t) = {}
BY DEF IInv, Owned, OneHolder, Alone

\* tasklet_schedule() where the CPU cannot be left: an interrupt, a section
\* with softirqs off, or the function of a tasklet.
LEMMA PinnedStep ==
    ASSUME IInv, NEW c \in hot.online, NEW nr \in Softirqs, NEW t \in Tasklets,
           in_interrupt(c), t \notin sched, sched' = sched \cup {t},
           add_and_raise(c, nr, t), UNCHANGED <<runbit, count, soft, ksd, call, hot>>
    PROVE  IInv'
<1>1. c \in CPUs
  BY Types DEF IInv
<1>2. VecOf(t) = {} /\ ListOf(t) = {} /\ CurOf(t) = {} /\ CallOf(t) = {}
  BY Unowned
<1>3. Shape' /\ Raised'
  BY <1>2, AddRaised, Types DEF IInv
<1>4. \A u : ListOf(u)' = ListOf(u) /\ CurOf(u)' = CurOf(u) /\ CallOf(u)' = CallOf(u)
  BY DEF ListOf, CurOf, CallOf
<1>5. OneHolder'
  BY <1>1, <1>2, <1>4, AddHolder
<1>6. Counted'
  BY DEF IInv, Owned, Counted, Disablers
<1>7. Owned'
  BY <1>5, <1>6, CallOwned DEF IInv
<1> QED BY <1>3, <1>7 DEF IInv

\* A task inserts the tasklet whose SCHED bit it has taken.
LEMMA InsertStep ==
    ASSUME IInv, NEW a \in Actors, NEW c \in CPUs, schedule_insert(a, c)
    PROVE  IInv'
<1>1. PICK t, nr : t = call[a].t /\ nr = call[a].nr
  OBVIOUS
<1>2. t \in Tasklets /\ nr \in Softirqs /\ c \in hot.online
  BY <1>1 DEF IInv, Shape, CallShape, schedule_insert, Free
<1>3. a \in CallOf(t)
  BY <1>1 DEF CallOf, schedule_insert
<1>4. t \in sched /\ VecOf(t) = {} /\ ListOf(t) = {} /\ CurOf(t) = {} /\ CallOf(t) = {a}
  BY <1>2, <1>3 DEF IInv, Owned, OneHolder, Alone
<1>5. /\ add_and_raise(c, nr, t) /\ ksd' = [ksd EXCEPT ![c].running = TRUE]
      /\ UNCHANGED <<sched, runbit, count, soft, hot>>
  BY <1>1 DEF schedule_insert, wakeup_softirqd
<1>6. To(a, "idle", NULL, 99)
  BY CallTo DEF schedule_insert, Back, IInv
<1>7. Ksds(c, ksd[c].at, TRUE, ksd[c].stop)
  BY <1>5, KsdGoes DEF IInv, wakeup_softirqd
<1>8. Shape' /\ Raised'
  <2>1. sched' \subseteq Tasklets /\ soft' \in [CPUs -> SoftRec]
    BY <1>5, Types DEF IInv
  <2>2. call' \in [Actors -> Calls] /\ ksd' \in [CPUs -> KsdRec]
    BY <1>6, <1>7 DEF To, Ksds
  <2>3. \A b \in Actors : \/ call'[b] = call[b]
                          \/ /\ call'[b].ctx = call[b].ctx /\ call'[b].cpu = call[b].cpu
                             /\ call'[b].pc = "idle"
    BY <1>6 DEF To
  <2>4. \A d \in CPUs : /\ ksd'[d].at = ksd[d].at /\ ksd'[d].stop = ksd[d].stop
                        /\ ksd[d].running => ksd'[d].running
    BY <1>7 DEF Ksds
  <2>5. ksd'[c].running
    BY <1>7 DEF Ksds
  <2> QED BY <1>2, <1>4, <1>5, <2>1, <2>2, <2>3, <2>4, <2>5, AddRaised
<1>9. \A u \in Tasklets : u # t => a \notin CallOf(u)
  BY <1>1 DEF CallOf
<1>10. \A u : CallOf(u)' = CallOf(u) \ {a}
  BY <1>6 DEF CallOf, To
<1>11. OneHolder'
  <2>1. \A u : ListOf(u)' = ListOf(u) /\ CurOf(u)' = CurOf(u)
    BY <1>5 DEF ListOf, CurOf
  <2>2. CallOf(t)' = {}
    BY <1>4, <1>10
  <2>3. \A u \in Tasklets : u # t => CallOf(u)' = CallOf(u)
    BY <1>9, <1>10
  <2> QED BY <1>2, <1>4, <1>5, <2>1, <2>2, <2>3, AddHolder
<1>12. Counted'
  <2>1. \A u : Disablers(u)' = Disablers(u)
    BY <1>6 DEF Disablers, To, schedule_insert
  <2> QED BY <1>5, <2>1 DEF IInv, Owned, Counted
<1>13. \A b \in Actors : call'[b].pc \in {"disabled", "kill_clear"} =>
          call'[b].pc = call[b].pc /\ call'[b].t = call[b].t
  BY <1>6 DEF To
<1>14. Owned'
  BY <1>5, <1>11, <1>12, <1>13, CallOwned DEF IInv
<1> QED BY <1>8, <1>14 DEF IInv

\* A tasklet that could not be run goes back on the list of its CPU.
LEMMA RequeueStep ==
    ASSUME IInv, NEW c \in CPUs, action_requeue(c)
    PROVE  IInv'
<1>1. PICK t, nr : t = soft[c].cur /\ nr = soft[c].nr
  OBVIOUS
<1>2. soft[c].at = "requeue"
  BY DEF action_requeue, SoftAt
<1>3. t \in Tasklets /\ nr \in Softirqs /\ c \in hot.online
  BY <1>1, <1>2 DEF IInv, Shape, SoftShape
<1>4. c \in CurOf(t)
  BY <1>1, <1>2 DEF CurOf
<1>5. t \in sched /\ VecOf(t) = {} /\ ListOf(t) = {} /\ CurOf(t) = {c} /\ CallOf(t) = {}
  BY <1>3, <1>4 DEF IInv, Owned, OneHolder, Alone
<1>6. add_and_raise(c, nr, t) /\ UNCHANGED <<sched, runbit, count, ksd, call, hot>>
  BY <1>1 DEF action_requeue
<1>7. Softs(c, "list", soft[c].list, NULL)
  BY SoftGoes DEF action_requeue, IInv
<1>8. Shape' /\ Raised'
  <2>1. sched' \subseteq Tasklets /\ ksd' \in [CPUs -> KsdRec] /\ call' \in [Actors -> Calls]
    BY <1>6, Types DEF IInv
  <2>2. soft' \in [CPUs -> SoftRec]
    BY <1>7 DEF Softs
  <2>3. \A d \in CPUs : \/ soft'[d] = soft[d]
                        \/ /\ soft[d].at # "none" /\ soft'[d].at = "list"
                           /\ soft'[d].list = soft[d].list /\ soft'[d].todo = soft[d].todo
                           /\ soft'[d].nr = soft[d].nr
    BY <1>2, <1>7 DEF Softs
  <2>4. in_interrupt(c)
    BY <1>2 DEF in_interrupt
  <2> QED BY <1>3, <1>5, <1>6, <2>1, <2>2, <2>3, <2>4, AddRaised
<1>9. \A u \in Tasklets : CurOf(u)' = CurOf(u) \ {c}
  BY <1>7 DEF CurOf, Softs
<1>10. OneHolder'
  <2>1. \A u : ListOf(u)' = ListOf(u) /\ CallOf(u)' = CallOf(u)
    BY <1>6, <1>7 DEF ListOf, CallOf, Softs
  <2>2. \A u \in Tasklets : u # t => CurOf(u)' = CurOf(u)
    <3>1. \A u : u # t => c \notin CurOf(u)
      BY <1>1 DEF CurOf
    <3> QED BY <1>9, <3>1
  <2>3. CurOf(t)' = {}
    BY <1>3, <1>5, <1>9
  <2> QED BY <1>3, <1>5, <1>6, <2>1, <2>2, <2>3, AddHolder
<1>11. OneRunner'
  <2>1. \A u \in Tasklets : c \in RunOwners(u)' <=> c \in RunOwners(u)
    BY <1>2, <1>7 DEF RunOwners, Softs
  <2> QED BY <1>6, <1>7, <2>1, SoftRunner DEF Softs, IInv, Owned
<1>12. \A u \in Tasklets : c \notin InFunc(u)'
  BY <1>7 DEF InFunc, Softs
<1>13. Counted' /\ DisabledIsQuiet' /\ KillWaited'
  BY <1>6, <1>7, <1>12, SoftQuiet DEF Softs
<1> QED BY <1>8, <1>10, <1>11, <1>13 DEF IInv, Owned

------------------------------------------------------------------------------
\* tasklet_action() takes the list of its CPU over.
LEMMA TakeListEffect ==
    ASSUME Shape, NEW c \in CPUs, softirq_action(c)
    PROVE  \E nr \in soft[c].todo :
              /\ soft[c].at = "list" /\ soft[c].list = <<>> /\ nr \in Softirqs
              /\ soft' \in [CPUs -> SoftRec]
              /\ \A d \in CPUs : d # c => soft'[d] = soft[d]
              /\ soft'[c].at = "list" /\ soft'[c].cur = soft[c].cur
              /\ soft'[c].todo = soft[c].todo \ {nr} /\ soft'[c].nr = nr
              /\ soft'[c].list = vec[c][nr]
              /\ vec' \in [CPUs -> [Softirqs -> Seq(Tasklets)]]
              /\ vec'[c][nr] = <<>>
              /\ \A d \in CPUs, mr \in Softirqs :
                    vec'[d][mr] = vec[d][mr] \/ (d = c /\ mr = nr)
<1>1. PICK nr : nr = CHOOSE n \in soft[c].todo : \A m \in soft[c].todo : n <= m
  OBVIOUS
<1>2. soft \in [CPUs -> SoftRec] /\ vec \in [CPUs -> [Softirqs -> Seq(Tasklets)]]
  BY Types
<1>3. soft[c].todo \in SUBSET {0, 5} /\ soft[c].todo \subseteq Softirqs /\ soft[c].todo # {}
  BY <1>2, TaskletAssumption DEF SoftRec, softirq_action
<1>4. nr \in soft[c].todo
  <2>1. \E n \in soft[c].todo : \A m \in soft[c].todo : n <= m
    BY <1>3
  <2> QED BY <1>1, <2>1
<1>5. nr \in Softirqs /\ vec[c][nr] \in Seq(Tasklets)
  BY <1>2, <1>3, <1>4
<1>6. /\ soft' = [soft EXCEPT ![c].todo = @ \ {nr}, ![c].nr = nr, ![c].list = vec[c][nr]]
      /\ vec' = [vec EXCEPT ![c] = [vec[c] EXCEPT ![nr] = <<>>]]
  BY <1>1 DEF softirq_action
<1>7. soft[c].at = "list" /\ soft[c].list = <<>>
  BY DEF softirq_action, SoftDone, SoftAt
<1> DEFINE r1 == [soft[c] EXCEPT !.todo = @ \ {nr}]
           r2 == [r1 EXCEPT !.nr = nr]
           r  == [r2 EXCEPT !.list = vec[c][nr]]
<1>8. soft'[c] = r /\ \A d \in CPUs : d # c => soft'[d] = soft[d]
  BY <1>2, <1>6
<1>9. r1 \in SoftRec
  <2>1. soft[c] \in SoftRec /\ soft[c].todo \ {nr} \in SUBSET Softirqs
    BY <1>2, <1>3
  <2> QED BY <2>1 DEF SoftRec
<1>10. r2 \in SoftRec
  <2> HIDE DEF r1
  <2> QED BY <1>5, <1>9 DEF SoftRec
<1>11. r \in SoftRec
  <2> HIDE DEF r2
  <2> QED BY <1>5, <1>10 DEF SoftRec
<1>12. /\ r.at = soft[c].at /\ r.cur = soft[c].cur /\ r.todo = soft[c].todo \ {nr}
       /\ r.nr = nr /\ r.list = vec[c][nr]
  <2>1. soft[c] \in SoftRec
    BY <1>2
  <2>2. r1.todo = soft[c].todo \ {nr} /\ r1.at = soft[c].at /\ r1.cur = soft[c].cur
    BY <2>1 DEF SoftRec
  <2> HIDE DEF r1
  <2>3. r2.todo = r1.todo /\ r2.at = r1.at /\ r2.cur = r1.cur /\ r2.nr = nr
    BY <1>9 DEF SoftRec
  <2> HIDE DEF r2
  <2>4. r.todo = r2.todo /\ r.at = r2.at /\ r.cur = r2.cur /\ r.nr = r2.nr /\ r.list = vec[c][nr]
    BY <1>10 DEF SoftRec
  <2> QED BY <2>2, <2>3, <2>4
<1> HIDE DEF r
<1>13. soft' \in [CPUs -> SoftRec]
  BY <1>2, <1>6, <1>8, <1>11
<1>14. [vec[c] EXCEPT ![nr] = <<>>] \in [Softirqs -> Seq(Tasklets)]
  BY <1>2, <1>5
<1>15. /\ vec' \in [CPUs -> [Softirqs -> Seq(Tasklets)]] /\ vec'[c][nr] = <<>>
       /\ \A d \in CPUs, mr \in Softirqs : vec'[d][mr] = vec[d][mr] \/ (d = c /\ mr = nr)
  BY <1>2, <1>5, <1>6, <1>14
<1> QED BY <1>4, <1>5, <1>7, <1>8, <1>12, <1>13, <1>15

LEMMA TakeListStep ==
    ASSUME IInv, NEW c \in CPUs, softirq_action(c)
    PROVE  IInv'
<1>1. PICK nr \in soft[c].todo :
              /\ soft[c].at = "list" /\ soft[c].list = <<>> /\ nr \in Softirqs
              /\ soft' \in [CPUs -> SoftRec]
              /\ \A d \in CPUs : d # c => soft'[d] = soft[d]
              /\ soft'[c].at = "list" /\ soft'[c].cur = soft[c].cur
              /\ soft'[c].todo = soft[c].todo \ {nr} /\ soft'[c].nr = nr
              /\ soft'[c].list = vec[c][nr]
              /\ vec' \in [CPUs -> [Softirqs -> Seq(Tasklets)]]
              /\ vec'[c][nr] = <<>>
              /\ \A d \in CPUs, mr \in Softirqs :
                    vec'[d][mr] = vec[d][mr] \/ (d = c /\ mr = nr)
  BY TakeListEffect DEF IInv
<1>2. UNCHANGED <<sched, runbit, count, pend, ksd, call, hot>>
  BY DEF softirq_action
<1>3. \A d \in CPUs : soft'[d].at = soft[d].at /\ soft'[d].cur = soft[d].cur
  BY <1>1
<1>4. c \in hot.online
  BY <1>1 DEF IInv, Shape, SoftShape
<1>5. \A q : q = <<>> => NoDup(q) /\ Members(q) = {}
  BY DEF NoDup, Members
<1>6. TypeOK'
  BY <1>1, <1>2 DEF IInv, Shape, TypeOK
<1>7. Lists'
  <2>1. \A d \in CPUs, mr \in Softirqs : NoDup(vec[d][mr])
    BY DEF IInv, Shape, Lists
  <2>2. \A d \in CPUs, mr \in Softirqs : NoDup(vec'[d][mr])
    BY <1>1, <1>5, <2>1
  <2>3. \A d \in CPUs : NoDup(soft'[d].list)
    BY <1>1, <2>1 DEF IInv, Shape, Lists
  <2> QED BY <2>2, <2>3 DEF Lists
<1>8. SoftShape'
  BY <1>1, <1>2, <1>4 DEF IInv, Shape, SoftShape
<1>9. CallShape'
  <2>1. \A a \in Actors : call[a].ctx = "bh" => call[a].cpu \in CPUs
    BY Types DEF IInv, Shape, CallShape
  <2> QED BY <1>2, <1>3, <2>1 DEF IInv, Shape, CallShape
<1>10. HotShape'
  <2>1. hot.at = "prepared" => hot.cpu \in CPUs /\ hot.cpu # c
    BY <1>4 DEF IInv, Shape, HotShape
  <2>2. hot.at = "prepared" => \A mr \in Softirqs : vec'[hot.cpu][mr] = <<>>
    BY <1>1, <2>1 DEF IInv, Shape, HotShape
  <2> QED BY <1>2, <2>2 DEF IInv, Shape, HotShape
<1>11. ListIsRaised'
  <2>1. ASSUME NEW d \in CPUs, NEW mr \in Softirqs, vec'[d][mr] # <<>>
        PROVE  \/ d \in hot.online /\ mr \in pend[d] \cup soft'[d].todo
               \/ d \notin hot.online /\ hot.cpu = d
    <3>1. ~(d = c /\ mr = nr) /\ vec[d][mr] # <<>>
      BY <1>1, <2>1
    <3>2. \/ d \in hot.online /\ mr \in pend[d] \cup soft[d].todo
          \/ d \notin hot.online /\ hot.cpu = d
      BY <3>1 DEF IInv, Raised, ListIsRaised
    <3> QED BY <1>1, <3>1, <3>2
  <2> QED BY <1>2, <2>1 DEF ListIsRaised
<1>12. RaisedIsPromised'
  <2>1. \A d \in CPUs : in_interrupt(d)' <=> in_interrupt(d)
    BY <1>2, <1>3 DEF in_interrupt, On
  <2> QED BY <1>2, <2>1, Types DEF IInv, Raised, RaisedIsPromised
<1>13. ASSUME NEW t \in Tasklets
       PROVE  /\ VecOf(t)' = VecOf(t) \ {<<c, nr>>}
              /\ ListOf(t)' = IF <<c, nr>> \in VecOf(t) THEN ListOf(t) \cup {c} ELSE ListOf(t)
              /\ CurOf(t)' = CurOf(t) /\ CallOf(t)' = CallOf(t)
  <2>1. VecOf(t) \subseteq CPUs \X Softirqs /\ VecOf(t)' \subseteq CPUs \X Softirqs
    BY DEF VecOf
  <2>2. \A d \in CPUs, mr \in Softirqs :
           <<d, mr>> \in VecOf(t)' <=> <<d, mr>> \in VecOf(t) /\ ~(d = c /\ mr = nr)
    <3> TAKE d \in CPUs, mr \in Softirqs
    <3>1. <<d, mr>> \in VecOf(t) <=> t \in Members(vec[d][mr])
      BY OnVec
    <3>2. <<d, mr>> \in VecOf(t)' <=> t \in Members(vec'[d][mr])
      BY DEF VecOf
    <3>3. CASE d = c /\ mr = nr
      BY <1>1, <1>5, <3>2, <3>3
    <3>4. CASE ~(d = c /\ mr = nr)
      BY <1>1, <3>1, <3>2, <3>4
    <3> QED BY <3>3, <3>4
  <2>3. VecOf(t)' = VecOf(t) \ {<<c, nr>>}
    <3>1. \A x \in CPUs \X Softirqs : x \in VecOf(t)' <=> x \in VecOf(t) /\ x # <<c, nr>>
      BY <2>2
    <3> QED BY <2>1, <3>1
  <2>4. \A d \in CPUs : d # c => (d \in ListOf(t)' <=> d \in ListOf(t))
    BY <1>1 DEF ListOf
  <2>5. c \notin ListOf(t)
    BY <1>1, <1>5 DEF ListOf
  <2>6. c \in ListOf(t)' <=> <<c, nr>> \in VecOf(t)
    <3>1. <<c, nr>> \in VecOf(t) <=> t \in Members(vec[c][nr])
      BY <1>1, OnVec
    <3> QED BY <1>1, <3>1 DEF ListOf
  <2>7. ListOf(t) \subseteq CPUs /\ ListOf(t)' \subseteq CPUs
    BY DEF ListOf
  <2>8. ListOf(t)' = IF <<c, nr>> \in VecOf(t) THEN ListOf(t) \cup {c} ELSE ListOf(t)
    <3>1. CASE <<c, nr>> \in VecOf(t)
      BY <2>4, <2>6, <2>7, <3>1
    <3>2. CASE <<c, nr>> \notin VecOf(t)
      BY <2>4, <2>5, <2>6, <2>7, <3>2
    <3> QED BY <3>1, <3>2
  <2>9. CurOf(t)' = CurOf(t) /\ CallOf(t)' = CallOf(t)
    BY <1>2, <1>3 DEF CurOf, CallOf
  <2> QED BY <2>3, <2>8, <2>9
<1>14. OneHolder'
  <2> SUFFICES ASSUME NEW t \in Tasklets
               PROVE  \/ /\ t \notin sched'
                         /\ VecOf(t)' = {} /\ ListOf(t)' = {} /\ CurOf(t)' = {} /\ CallOf(t)' = {}
                      \/ /\ t \in sched'
                         /\ \/ Alone(VecOf(t)', ListOf(t)', CurOf(t)', CallOf(t)')
                            \/ Alone(ListOf(t)', VecOf(t)', CurOf(t)', CallOf(t)')
                            \/ Alone(CurOf(t)', VecOf(t)', ListOf(t)', CallOf(t)')
                            \/ Alone(CallOf(t)', VecOf(t)', ListOf(t)', CurOf(t)')
    BY DEF OneHolder, Alone
  <2>1. CASE <<c, nr>> \in VecOf(t)
    <3>1. /\ t \in sched /\ VecOf(t) = {<<c, nr>>}
          /\ ListOf(t) = {} /\ CurOf(t) = {} /\ CallOf(t) = {}
      BY <2>1 DEF IInv, Owned, OneHolder, Alone
    <3>2. VecOf(t)' = {} /\ ListOf(t)' = {c} /\ CurOf(t)' = {} /\ CallOf(t)' = {}
      BY <1>13, <2>1, <3>1
    <3> QED BY <1>2, <3>1, <3>2 DEF Alone
  <2>2. CASE <<c, nr>> \notin VecOf(t)
    <3>1. /\ VecOf(t)' = VecOf(t) /\ ListOf(t)' = ListOf(t) /\ CurOf(t)' = CurOf(t)
          /\ CallOf(t)' = CallOf(t)
      BY <1>13, <2>2
    <3> QED BY <1>2, <3>1 DEF IInv, Owned, OneHolder
  <2> QED BY <2>1, <2>2
<1>15. \A t : RunOwners(t)' = RunOwners(t) /\ InFunc(t)' = InFunc(t)
  BY <1>3 DEF RunOwners, InFunc
<1>16. OneRunner'
  BY <1>2, <1>15 DEF IInv, Owned, OneRunner
<1>17. Counted' /\ DisabledIsQuiet' /\ KillWaited'
  BY <1>2, <1>15 DEF IInv, Owned, Counted, Disablers, DisabledIsQuiet, KillWaited
<1> QED BY <1>6, <1>7, <1>8, <1>9, <1>10, <1>11, <1>12, <1>14, <1>16, <1>17
        DEF IInv, Shape, Raised, Owned

------------------------------------------------------------------------------
\* The lists of a dead CPU h, joined to those of CPU d.
LEMMA TakeoverEffect ==
    ASSUME IInv, NEW d \in CPUs, NEW h \in CPUs, d # h,
           vec' = [vec EXCEPT ![d] = [nr \in Softirqs |-> @[nr] \o vec[h][nr]],
                              ![h] = [nr \in Softirqs |-> <<>>]]
    PROVE  /\ vec' \in [CPUs -> [Softirqs -> Seq(Tasklets)]]
           /\ \A e \in CPUs, nr \in Softirqs :
                 /\ NoDup(vec'[e][nr])
                 /\ e = h => vec'[e][nr] = <<>>
                 /\ e # d /\ e # h => vec'[e][nr] = vec[e][nr]
                 /\ Members(vec'[e][nr]) = IF e = h THEN {}
                                           ELSE IF e = d
                                                THEN Members(vec[d][nr]) \cup Members(vec[h][nr])
                                                ELSE Members(vec[e][nr])
<1>1. vec \in [CPUs -> [Softirqs -> Seq(Tasklets)]]
  BY Types DEF IInv
<1>2. ASSUME NEW nr \in Softirqs
      PROVE  /\ vec[d][nr] \o vec[h][nr] \in Seq(Tasklets)
             /\ Members(vec[d][nr] \o vec[h][nr]) = Members(vec[d][nr]) \cup Members(vec[h][nr])
             /\ NoDup(vec[d][nr] \o vec[h][nr])
  <2>1. vec[d][nr] \in Seq(Tasklets) /\ vec[h][nr] \in Seq(Tasklets)
    BY <1>1
  <2>2. NoDup(vec[d][nr]) /\ NoDup(vec[h][nr])
    BY DEF IInv, Shape, Lists
  <2>3. \A t \in Tasklets : ~(t \in Members(vec[d][nr]) /\ t \in Members(vec[h][nr]))
    <3> SUFFICES ASSUME NEW t \in Tasklets, t \in Members(vec[d][nr]), t \in Members(vec[h][nr])
                 PROVE  FALSE
      OBVIOUS
    <3>1. <<d, nr>> \in VecOf(t) /\ <<h, nr>> \in VecOf(t)
      BY OnVec
    <3>2. <<d, nr>> # <<h, nr>>
      OBVIOUS
    <3> QED BY <3>1, <3>2 DEF IInv, Owned, OneHolder, Alone
  <2> QED BY <2>1, <2>2, <2>3, JoinedProperties
<1>3. \A q : q = <<>> => NoDup(q) /\ Members(q) = {} /\ q \in Seq(Tasklets)
  BY DEF NoDup, Members
<1>4. /\ \A nr \in Softirqs : vec'[d][nr] = vec[d][nr] \o vec[h][nr]
      /\ \A nr \in Softirqs : vec'[h][nr] = <<>>
      /\ \A e \in CPUs : e # d /\ e # h => vec'[e] = vec[e]
  BY <1>1
<1>5. /\ vec'[d] \in [Softirqs -> Seq(Tasklets)]
      /\ vec'[h] \in [Softirqs -> Seq(Tasklets)]
  <2>1. vec'[d] = [nr \in Softirqs |-> vec[d][nr] \o vec[h][nr]]
    BY <1>1
  <2>2. vec'[h] = [nr \in Softirqs |-> <<>>]
    BY <1>1
  <2>3. \A nr \in Softirqs : vec[d][nr] \o vec[h][nr] \in Seq(Tasklets)
    BY <1>2
  <2>4. <<>> \in Seq(Tasklets)
    OBVIOUS
  <2>5. vec'[d] \in [Softirqs -> Seq(Tasklets)]
    BY <2>1, <2>3
  <2> QED BY <2>2, <2>4, <2>5
<1>6. vec' \in [CPUs -> [Softirqs -> Seq(Tasklets)]]
  BY <1>1, <1>4, <1>5
<1>7. ASSUME NEW e \in CPUs, NEW nr \in Softirqs
      PROVE  /\ NoDup(vec'[e][nr])
             /\ e = h => vec'[e][nr] = <<>>
             /\ e # d /\ e # h => vec'[e][nr] = vec[e][nr]
             /\ Members(vec'[e][nr]) = IF e = h THEN {}
                                       ELSE IF e = d
                                            THEN Members(vec[d][nr]) \cup Members(vec[h][nr])
                                            ELSE Members(vec[e][nr])
  <2>1. CASE e = h
    BY <1>3, <1>4, <2>1
  <2>2. CASE e = d
    BY <1>2, <1>4, <2>2
  <2>3. CASE e # d /\ e # h
    <3>1. NoDup(vec[e][nr])
      BY DEF IInv, Shape, Lists
    <3>2. vec'[e][nr] = vec[e][nr]
      BY <1>4, <2>3
    <3> QED BY <2>3, <3>1, <3>2
  <2> QED BY <2>1, <2>2, <2>3
<1> QED BY <1>6, <1>7

\* takeover_tasklets() moves the tasklets of the dead CPU and forgets none.
LEMMA TakeoverStep ==
    ASSUME IInv, NEW d \in CPUs, takeover_tasklets(d)
    PROVE  IInv'
<1>1. PICK h : h = hot.cpu
  OBVIOUS
<1>2. hot.at = "stopping" /\ h \in CPUs \ hot.online /\ d \in hot.online /\ d # h
  BY <1>1 DEF takeover_tasklets, Free, IInv, Shape, HotShape
<1>3. /\ UNCHANGED <<sched, runbit, count, soft, call>>
      /\ pend' = [pend EXCEPT ![d] = Softirqs]
      /\ hot' = [hot EXCEPT !.cpu = 0, !.at = "idle"]
  BY DEF takeover_tasklets
<1>4. /\ vec' \in [CPUs -> [Softirqs -> Seq(Tasklets)]]
      /\ \A e \in CPUs, nr \in Softirqs :
            /\ NoDup(vec'[e][nr])
            /\ e = h => vec'[e][nr] = <<>>
            /\ e # d /\ e # h => vec'[e][nr] = vec[e][nr]
            /\ Members(vec'[e][nr]) = IF e = h THEN {}
                                      ELSE IF e = d
                                           THEN Members(vec[d][nr]) \cup Members(vec[h][nr])
                                           ELSE Members(vec[e][nr])
  <2>1. vec' = [vec EXCEPT ![d] = [nr \in Softirqs |-> @[nr] \o vec[h][nr]],
                           ![h] = [nr \in Softirqs |-> <<>>]]
    BY <1>1 DEF takeover_tasklets
  <2>2. h \in CPUs /\ d # h
    BY <1>2
  <2> QED BY <2>1, <2>2, TakeoverEffect
<1>5. Ksds(d, ksd[d].at, TRUE, ksd[d].stop)
  BY KsdGoes DEF takeover_tasklets, IInv
<1>6. /\ hot' \in HotRec /\ hot'.online = hot.online /\ hot'.cpu = 0 /\ hot'.at = "idle"
      /\ hot.online \subseteq CPUs
  <2>1. hot \in HotRec /\ 0 \in 0..NCPU /\ hot.online \subseteq CPUs
    BY Types, TaskletAssumption DEF IInv
  <2> QED BY <1>3, <2>1 DEF HotRec
<1>7. /\ pend' \in [CPUs -> SUBSET Softirqs] /\ pend'[d] = Softirqs
      /\ \A e \in CPUs : e # d => pend'[e] = pend[e]
  BY <1>3, Types DEF IInv
<1>8. TypeOK'
  BY <1>3, <1>4, <1>5, <1>6, <1>7 DEF IInv, Shape, TypeOK, Ksds
<1>9. Lists'
  BY <1>3, <1>4 DEF IInv, Shape, Lists
<1>10. SoftShape' /\ CallShape'
  BY <1>3, <1>6 DEF IInv, Shape, SoftShape, CallShape
<1>11. HotShape'
  BY <1>5, <1>6 DEF IInv, Shape, HotShape, Ksds
<1>12. ListIsRaised'
  <2>1. ASSUME NEW e \in CPUs, NEW nr \in Softirqs, vec'[e][nr] # <<>>
        PROVE  e \in hot.online /\ nr \in pend'[e] \cup soft[e].todo
    <3>1. e # h
      BY <1>4, <2>1
    <3>2. CASE e = d
      BY <1>2, <1>7, <3>2
    <3>3. CASE e # d
      <4>1. vec[e][nr] # <<>>
        BY <1>4, <2>1, <3>1, <3>3
      <4>2. e \in hot.online /\ nr \in pend[e] \cup soft[e].todo
        BY <1>1, <3>1, <4>1 DEF IInv, Raised, ListIsRaised
      <4> QED BY <1>7, <3>3, <4>2
    <3> QED BY <3>2, <3>3
  <2> QED BY <1>3, <1>6, <2>1 DEF ListIsRaised
<1>13. RaisedIsPromised'
  <2>1. \A e \in CPUs : in_interrupt(e)' <=> in_interrupt(e)
    BY <1>3 DEF in_interrupt, On
  <2>2. ASSUME NEW e \in hot.online, pend'[e] # {}
        PROVE  \/ in_interrupt(e)'
               \/ ksd'[e].running \/ ksd'[e].at \in {"check", "set", "loop"}
    <3>1. e \in CPUs
      BY <1>6
    <3>2. CASE e = d
      BY <1>5, <3>2 DEF Ksds
    <3>3. CASE e # d
      <4>1. pend[e] # {} /\ ksd'[e] = ksd[e]
        BY <1>5, <1>7, <2>2, <3>1, <3>3 DEF Ksds
      <4>2. in_interrupt(e) \/ ksd[e].running \/ ksd[e].at \in {"check", "set", "loop"}
        BY <1>2, <4>1 DEF IInv, Raised, RaisedIsPromised
      <4> QED BY <2>1, <3>1, <4>1, <4>2
    <3> QED BY <3>2, <3>3
  <2> QED BY <1>6, <2>2 DEF RaisedIsPromised
<1>14. ASSUME NEW t \in Tasklets
       PROVE  /\ VecOf(t) = {} => VecOf(t)' = {}
              /\ (\E x : VecOf(t) = {x}) => (\E x : VecOf(t)' = {x})
  <2>1. \A e \in CPUs, nr \in Softirqs :
           <<e, nr>> \in VecOf(t)' <=> /\ e # h
                                       /\ \/ <<e, nr>> \in VecOf(t)
                                          \/ e = d /\ <<h, nr>> \in VecOf(t)
    <3> TAKE e \in CPUs, nr \in Softirqs
    <3>1. /\ <<e, nr>> \in VecOf(t) <=> t \in Members(vec[e][nr])
          /\ <<h, nr>> \in VecOf(t) <=> t \in Members(vec[h][nr])
      BY <1>2, OnVec
    <3>2. <<e, nr>> \in VecOf(t)' <=> t \in Members(vec'[e][nr])
      BY DEF VecOf
    <3> QED BY <1>4, <3>1, <3>2
  <2>2. VecOf(t) \subseteq CPUs \X Softirqs /\ VecOf(t)' \subseteq CPUs \X Softirqs
    BY DEF VecOf
  <2>3. ASSUME VecOf(t) = {}
        PROVE  VecOf(t)' = {}
    BY <2>1, <2>2, <2>3
  <2>4. ASSUME NEW x, VecOf(t) = {x}
        PROVE  \E y : VecOf(t)' = {y}
    <3>1. PICK e \in CPUs, nr \in Softirqs : x = <<e, nr>>
      BY <2>2, <2>4
    <3>2. CASE e = h
      <4>1. \A y \in CPUs \X Softirqs : y \in VecOf(t)' <=> y = <<d, nr>>
        BY <1>2, <2>1, <2>4, <3>1, <3>2
      <4>2. VecOf(t)' = {<<d, nr>>}
        BY <2>2, <4>1
      <4> QED BY <4>2
    <3>3. CASE e # h
      <4>1. \A y \in CPUs \X Softirqs : y \in VecOf(t)' <=> y = x
        BY <2>1, <2>4, <3>1, <3>3
      <4>2. VecOf(t)' = {x}
        BY <2>2, <2>4, <4>1
      <4> QED BY <4>2
    <3> QED BY <3>2, <3>3
  <2> QED BY <2>3, <2>4
<1>15. \A t : /\ ListOf(t)' = ListOf(t) /\ CurOf(t)' = CurOf(t) /\ CallOf(t)' = CallOf(t)
              /\ Disablers(t)' = Disablers(t)
  BY <1>3 DEF ListOf, CurOf, CallOf, Disablers
<1>16. OneHolder'
  <2> SUFFICES ASSUME NEW t \in Tasklets
               PROVE  \/ /\ t \notin sched'
                         /\ VecOf(t)' = {} /\ ListOf(t)' = {} /\ CurOf(t)' = {} /\ CallOf(t)' = {}
                      \/ /\ t \in sched'
                         /\ \/ Alone(VecOf(t)', ListOf(t)', CurOf(t)', CallOf(t)')
                            \/ Alone(ListOf(t)', VecOf(t)', CurOf(t)', CallOf(t)')
                            \/ Alone(CurOf(t)', VecOf(t)', ListOf(t)', CallOf(t)')
                            \/ Alone(CallOf(t)', VecOf(t)', ListOf(t)', CurOf(t)')
    BY DEF OneHolder, Alone
  <2>1. /\ ListOf(t)' = ListOf(t) /\ CurOf(t)' = CurOf(t) /\ CallOf(t)' = CallOf(t)
        /\ sched' = sched
    BY <1>3, <1>15
  <2> QED BY <1>14, <2>1 DEF IInv, Owned, OneHolder, Alone
<1>17. Counted'
  BY <1>3, <1>15 DEF IInv, Owned, Counted
<1>18. Owned'
  BY <1>3, <1>16, <1>17, CallOwned DEF IInv
<1> QED BY <1>8, <1>9, <1>10, <1>11, <1>12, <1>13, <1>18 DEF IInv, Shape, Raised

------------------------------------------------------------------------------
LEMMA InitIInv == Init => IInv
<1> SUFFICES ASSUME Init PROVE IInv
  OBVIOUS
<1>1. /\ NoSoft \in SoftRec /\ NoSoft.at = "none" /\ NoSoft.list = <<>> /\ NoSoft.todo = {}
  BY TaskletAssumption DEF NoSoft, SoftRec
<1>2. Idle \in Calls /\ Idle.pc = "idle" /\ Idle.ctx = "none"
  BY TaskletAssumption DEF Idle, Calls
<1>3. /\ sched = {} /\ runbit = {} /\ count = [t \in Tasklets |-> 0]
      /\ vec = [c \in CPUs |-> [nr \in Softirqs |-> <<>>]]
      /\ pend = [c \in CPUs |-> {}]
      /\ soft = [c \in CPUs |-> NoSoft]
      /\ ksd = [c \in CPUs |-> [at |-> "check", running |-> FALSE, stop |-> FALSE]]
      /\ call = [a \in Actors |-> Idle]
      /\ hot = [online |-> CPUs, cpu |-> 0, at |-> "idle"]
  BY DEF Init
<1>4. \A c \in CPUs : soft[c] = NoSoft /\ pend[c] = {} /\ ~ksd[c].stop
  BY <1>3
<1>5. \A c \in CPUs, nr \in Softirqs : vec[c][nr] = <<>>
  BY <1>3
<1>6. \A a \in Actors : call[a] = Idle
  BY <1>3
<1>7. \A q : q = <<>> => NoDup(q) /\ Members(q) = {}
  BY DEF NoDup, Members
<1>8. \A t \in Tasklets : Disablers(t) = {}
  BY <1>2, <1>6 DEF Disablers
<1>9. Cardinality({}) = 0
  BY FS_EmptySet
<1>10. TypeOK
  <2>1. 0 \in 0..Cardinality(Actors)
    BY <1>9, CountRange
  <2>2. count \in [Tasklets -> 0..Cardinality(Actors)]
    BY <1>3, <2>1
  <2>3. vec \in [CPUs -> [Softirqs -> Seq(Tasklets)]]
    <3>1. [nr \in Softirqs |-> <<>>] \in [Softirqs -> Seq(Tasklets)]
      OBVIOUS
    <3> QED BY <1>3, <3>1
  <2>4. ksd \in [CPUs -> KsdRec]
    BY <1>3 DEF KsdRec
  <2>5. hot \in HotRec
    <3>1. 0 \in 0..NCPU
      BY TaskletAssumption
    <3> QED BY <1>3, <3>1 DEF HotRec
  <2>6. soft \in [CPUs -> SoftRec] /\ call \in [Actors -> Calls]
    BY <1>1, <1>2, <1>3
  <2>7. pend \in [CPUs -> SUBSET Softirqs]
    BY <1>3
  <2> QED BY <1>3, <2>2, <2>3, <2>4, <2>5, <2>6, <2>7 DEF TypeOK
<1>11. Lists
  BY <1>1, <1>4, <1>5, <1>7 DEF Lists
<1>12. SoftShape
  BY <1>1, <1>4 DEF SoftShape
<1>13. CallShape
  BY <1>2, <1>6 DEF CallShape
<1>14. HotShape
  BY <1>3, <1>4 DEF HotShape
<1>15. Raised
  BY <1>3, <1>4, <1>5 DEF Raised, ListIsRaised, RaisedIsPromised
<1>16. OneHolder
  <2>1. ASSUME NEW t \in Tasklets
        PROVE  VecOf(t) = {} /\ ListOf(t) = {} /\ CurOf(t) = {} /\ CallOf(t) = {}
    <3>1. VecOf(t) = {}
      BY <1>5, <1>7 DEF VecOf
    <3>2. ListOf(t) = {} /\ CurOf(t) = {}
      BY <1>1, <1>4, <1>7 DEF ListOf, CurOf
    <3>3. CallOf(t) = {}
      BY <1>2, <1>6 DEF CallOf
    <3> QED BY <3>1, <3>2, <3>3
  <2> QED BY <1>3, <2>1 DEF OneHolder
<1>17. OneRunner
  BY <1>1, <1>3, <1>4 DEF OneRunner, RunOwners
<1>18. Counted
  BY <1>3, <1>8, <1>9 DEF Counted
<1>19. DisabledIsQuiet /\ KillWaited
  BY <1>2, <1>6 DEF DisabledIsQuiet, KillWaited
<1> QED BY <1>10, <1>11, <1>12, <1>13, <1>14, <1>15, <1>16, <1>17, <1>18, <1>19
        DEF IInv, Shape, Owned

LEMMA NextIInv == IInv /\ [Next]_vars => IInv'
<1> SUFFICES ASSUME IInv, [Next]_vars PROVE IInv'
  OBVIOUS
<1>1. ASSUME NEW a \in Actors, ActorStep(a)
      PROVE  IInv'
  <2>1. CASE irq_exit(a) \/ local_bh_enable(a)
    BY <2>1, ExitStep
  <2>2. CASE \E c \in CPUs : schedule_insert(a, c)
    BY <2>2, InsertStep
  <2>3. CASE \/ disable_wait(a) \/ tasklet_enable(a)
             \/ kill_test_and_set(a) \/ kill_wait(a) \/ kill_clear(a)
    BY <2>3, CallStep
  <2> QED BY <1>1, <2>1, <2>2, <2>3 DEF ActorStep
<1>2. ASSUME NEW a \in Actors, ActorCall(a)
      PROVE  IInv'
  <2>1. CASE \E c \in CPUs : irq_enter(a, c) \/ local_bh_disable(a, c)
    BY <2>1, EnterStep
  <2>2. CASE \/ \E t \in Tasklets, nr \in Softirqs : tasklet_schedule(a, t, nr)
             \/ \E t \in Tasklets : tasklet_disable(a, t) \/ tasklet_kill(a, t)
    BY <2>2, CallStep
  <2>3. ASSUME NEW t \in Tasklets, NEW nr \in Softirqs, tasklet_schedule_pinned(a, t, nr)
        PROVE  IInv'
    <3>1. PICK c : c = call[a].cpu
      OBVIOUS
    <3>2. call[a] \in Calls /\ call[a].ctx \in {"irq", "bh"}
      BY <2>3, Types DEF IInv, Calls, tasklet_schedule_pinned
    <3>3. c \in hot.online /\ in_interrupt(c)
      BY <3>1, <3>2 DEF IInv, Shape, CallShape, in_interrupt, On
    <3>4. add_and_raise(c, nr, t)
      BY <2>3, <3>1 DEF tasklet_schedule_pinned
    <3>5. /\ t \notin sched /\ sched' = sched \cup {t}
          /\ UNCHANGED <<runbit, count, soft, ksd, call, hot>>
      BY <2>3 DEF tasklet_schedule_pinned
    <3> QED BY <3>3, <3>4, <3>5, PinnedStep
  <2> QED BY <1>2, <2>1, <2>2, <2>3 DEF ActorCall
<1>3. ASSUME NEW c \in CPUs, SoftStep(c)
      PROVE  IInv'
  <2>1. CASE softirq_action(c)
    BY <2>1, TakeListStep
  <2>2. CASE softirq_round(c)
    BY <2>2, RoundStep
  <2>3. CASE \/ tasklet_trylock(c) \/ action_count(c) \/ action_clear(c)
             \/ func_return(c) \/ action_unlock(c)
    BY <2>3, TaskletActionStep
  <2>4. CASE action_requeue(c)
    BY <2>4, RequeueStep
  <2> QED BY <1>3, <2>1, <2>2, <2>3, <2>4 DEF SoftStep
<1>4. ASSUME NEW c \in CPUs, FuncCall(c)
      PROVE  IInv'
  <2>1. PICK t \in Tasklets, nr \in Softirqs : func_schedule(c, t, nr)
    BY <1>4 DEF FuncCall
  <2>2. soft[c].at = "func"
    BY <2>1 DEF func_schedule, SoftAt
  <2>3. c \in hot.online /\ in_interrupt(c)
    BY <2>2 DEF IInv, Shape, SoftShape, in_interrupt
  <2> QED BY <2>1, <2>3, PinnedStep DEF func_schedule
<1>5. ASSUME NEW c \in CPUs, KsdStep(c)
      PROVE  IInv'
  BY <1>5, KsdStepOK
<1>6. CASE HotStep
  <2>1. CASE \E d \in CPUs : takeover_tasklets(d)
    BY <2>1, TakeoverStep
  <2> QED BY <1>6, <2>1, HotplugStep DEF HotStep
<1>7. CASE HotCall
  BY <1>7, HotplugStep
<1>8. CASE UNCHANGED vars
  <2>1. UNCHANGED <<sched, runbit, count, vec, pend, soft, ksd, call, hot>>
    BY <1>8 DEF vars
  <2>2. Shape'
    BY <2>1 DEF IInv, Shape, TypeOK, Lists, SoftShape, CallShape, HotShape
  <2>3. Raised'
    BY <2>1, RaisedSame, Types DEF IInv
  <2>4. Owned'
    BY <2>1, OwnedSame DEF IInv
  <2> QED BY <2>2, <2>3, <2>4 DEF IInv
<1> QED BY <1>1, <1>2, <1>3, <1>4, <1>5, <1>6, <1>7, <1>8 DEF Next, Settle

\* The invariant holds for any number of CPUs, tasklets, tasks and interrupts.
THEOREM TaskletInvariant == Spec => []IInv
<1>1. Init => IInv
  BY InitIInv
<1>2. IInv /\ [Next]_vars => IInv'
  BY NextIInv
<1> QED BY <1>1, <1>2, PTL DEF Spec

\* A tasklet on a list has its softirq raised there, and a raised softirq has
\* somebody who will look at it, through every restart of __do_softirq() and
\* every unplugging of a CPU.
THEOREM TaskletConsistent == Spec => []Consistent
<1>1. IInv => Consistent
  BY DEF IInv, Shape, Raised, Consistent
<1> QED BY <1>1, TaskletInvariant, PTL

\* After tasklet_disable() the function runs nowhere until tasklet_enable().
THEOREM TaskletDisabledIsQuiet == Spec => []DisabledIsQuiet
<1>1. IInv => DisabledIsQuiet
  BY DEF IInv, Owned
<1> QED BY <1>1, TaskletInvariant, PTL

------------------------------------------------------------------------------
\* The owners of the SCHED bit of t by kind, with their place in a list.
VecOwners(t)  == {<<"vec", o[1], o[2], o[3]>> : o \in
    {p \in CPUs \X Softirqs \X (1..Cardinality(Tasklets)) :
        p[3] <= Len(vec[p[1]][p[2]]) /\ vec[p[1]][p[2]][p[3]] = t}}
ListOwners(t) == {<<"list", o[1], o[2]>> : o \in
    {p \in CPUs \X (1..Cardinality(Tasklets)) :
        p[2] <= Len(soft[p[1]].list) /\ soft[p[1]].list[p[2]] = t}}
CurOwners(t)  == {<<"cur", c>> : c \in CurOf(t)}
CallOwners(t) == {<<"call", a>> : a \in CallOf(t)}

LEMMA OwnersByKind ==
    ASSUME NEW t
    PROVE  SchedOwners(t) = VecOwners(t) \cup ListOwners(t) \cup CurOwners(t) \cup CallOwners(t)
BY DEF SchedOwners, VecOwners, ListOwners, CurOwners, CallOwners, CurOf, CallOf

\* A tasklet has one place in a list that it is on.
LEMMA OnePlace ==
    ASSUME NEW q \in Seq(Tasklets), NoDup(q), NEW t
    PROVE  /\ t \in Members(q) =>
                 \E i \in 1..Cardinality(Tasklets) :
                    /\ i <= Len(q) /\ q[i] = t
                    /\ \A j \in 1..Cardinality(Tasklets) : j <= Len(q) /\ q[j] = t => j = i
           /\ t \notin Members(q) =>
                 \A j \in 1..Cardinality(Tasklets) : ~(j <= Len(q) /\ q[j] = t)
<1>1. Len(q) <= Cardinality(Tasklets) /\ Len(q) \in Nat /\ Cardinality(Tasklets) \in Nat
  BY DistinctLength, TaskletAssumption, FS_CardinalityType
<1>2. \A j \in 1..Cardinality(Tasklets) : j <= Len(q) => j \in 1..Len(q)
  BY <1>1
<1>3. \A j \in 1..Len(q) : j \in 1..Cardinality(Tasklets) /\ j <= Len(q)
  BY <1>1
<1>4. ASSUME t \in Members(q)
      PROVE  \E i \in 1..Cardinality(Tasklets) :
                /\ i <= Len(q) /\ q[i] = t
                /\ \A j \in 1..Cardinality(Tasklets) : j <= Len(q) /\ q[j] = t => j = i
  <2>1. PICK i \in 1..Len(q) : q[i] = t
    BY <1>4 DEF Members
  <2> QED BY <1>2, <1>3, <2>1 DEF NoDup
<1>5. ASSUME t \notin Members(q)
      PROVE  \A j \in 1..Cardinality(Tasklets) : ~(j <= Len(q) /\ q[j] = t)
  BY <1>2, <1>5 DEF Members
<1> QED BY <1>4, <1>5

LEMMA VecOwner ==
    ASSUME IInv, NEW t \in Tasklets
    PROVE  /\ VecOf(t) = {} => VecOwners(t) = {}
           /\ (\E x : VecOf(t) = {x}) => (\E y : VecOwners(t) = {y})
<1> DEFINE N == 1..Cardinality(Tasklets)
           At(c, nr, i) == i <= Len(vec[c][nr]) /\ vec[c][nr][i] = t
<1>1. \A c \in CPUs, nr \in Softirqs : vec[c][nr] \in Seq(Tasklets) /\ NoDup(vec[c][nr])
  BY Types DEF IInv, Shape, Lists
<1>2. \A c \in CPUs, nr \in Softirqs, i \in N : At(c, nr, i) => <<c, nr>> \in VecOf(t)
  <2> TAKE c \in CPUs, nr \in Softirqs, i \in N
  <2> HAVE At(c, nr, i)
  <2>1. t \in Members(vec[c][nr])
    BY <1>1, OnePlace
  <2> QED BY <2>1, OnVec
<1>3. VecOwners(t) = {<<"vec", o[1], o[2], o[3]>> : o \in
                         {p \in CPUs \X Softirqs \X N : At(p[1], p[2], p[3])}}
  BY DEF VecOwners
<1> HIDE DEF N, At
<1>4. /\ \A y \in VecOwners(t) : \E c \in CPUs, nr \in Softirqs, i \in N :
                                    At(c, nr, i) /\ y = <<"vec", c, nr, i>>
      /\ \A c \in CPUs, nr \in Softirqs, i \in N :
            At(c, nr, i) => <<"vec", c, nr, i>> \in VecOwners(t)
  <2> DEFINE S == {p \in CPUs \X Softirqs \X N : At(p[1], p[2], p[3])}
  <2>1. ASSUME NEW y \in VecOwners(t)
        PROVE  \E c \in CPUs, nr \in Softirqs, i \in N : At(c, nr, i) /\ y = <<"vec", c, nr, i>>
    <3>1. PICK o \in S : y = <<"vec", o[1], o[2], o[3]>>
      BY <1>3
    <3>2. o[1] \in CPUs /\ o[2] \in Softirqs /\ o[3] \in N /\ At(o[1], o[2], o[3])
      OBVIOUS
    <3> QED BY <3>1, <3>2
  <2>2. ASSUME NEW c \in CPUs, NEW nr \in Softirqs, NEW i \in N, At(c, nr, i)
        PROVE  <<"vec", c, nr, i>> \in VecOwners(t)
    <3>1. PICK o : o = <<c, nr, i>>
      OBVIOUS
    <3>2. o[1] = c /\ o[2] = nr /\ o[3] = i /\ o \in CPUs \X Softirqs \X N
      BY <3>1
    <3>3. o \in S
      BY <2>2, <3>2
    <3>4. <<"vec", o[1], o[2], o[3]>> \in VecOwners(t)
      BY <1>3, <3>3
    <3> QED BY <3>2, <3>4
  <2> QED BY <2>1, <2>2
<1>5. ASSUME VecOf(t) = {}
      PROVE  VecOwners(t) = {}
  BY <1>2, <1>4, <1>5
<1>6. ASSUME NEW x, VecOf(t) = {x}
      PROVE  \E y : VecOwners(t) = {y}
  <2>1. PICK c \in CPUs, nr \in Softirqs : x = <<c, nr>>
    BY <1>6 DEF VecOf
  <2>2. t \in Members(vec[c][nr])
    BY <1>6, <2>1, OnVec
  <2>3. PICK i \in N : At(c, nr, i) /\ \A j \in N : At(c, nr, j) => j = i
    BY <1>1, <2>2, OnePlace DEF N, At
  <2>4. \A d \in CPUs, mr \in Softirqs, j \in N : At(d, mr, j) => d = c /\ mr = nr /\ j = i
    <3> TAKE d \in CPUs, mr \in Softirqs, j \in N
    <3> HAVE At(d, mr, j)
    <3>1. <<d, mr>> = <<c, nr>>
      BY <1>2, <1>6, <2>1
    <3>2. d = c /\ mr = nr
      BY <3>1
    <3> QED BY <2>3, <3>2
  <2>5. \A y \in VecOwners(t) : y = <<"vec", c, nr, i>>
    BY <1>4, <2>4
  <2>6. <<"vec", c, nr, i>> \in VecOwners(t)
    BY <1>4, <2>3
  <2>7. VecOwners(t) = {<<"vec", c, nr, i>>}
    BY <2>5, <2>6
  <2> QED BY <2>7
<1> QED BY <1>5, <1>6

LEMMA ListOwner ==
    ASSUME IInv, NEW t \in Tasklets
    PROVE  /\ ListOf(t) = {} => ListOwners(t) = {}
           /\ (\E x : ListOf(t) = {x}) => (\E y : ListOwners(t) = {y})
<1> DEFINE N == 1..Cardinality(Tasklets)
           At(c, i) == i <= Len(soft[c].list) /\ soft[c].list[i] = t
<1>1. \A c \in CPUs : soft[c].list \in Seq(Tasklets) /\ NoDup(soft[c].list)
  BY Types DEF IInv, Shape, Lists, SoftRec
<1>2. \A c \in CPUs, i \in N : At(c, i) => c \in ListOf(t)
  <2> TAKE c \in CPUs, i \in N
  <2> HAVE At(c, i)
  <2>1. t \in Members(soft[c].list)
    BY <1>1, OnePlace
  <2> QED BY <2>1 DEF ListOf
<1>3. ListOwners(t) = {<<"list", o[1], o[2]>> : o \in {p \in CPUs \X N : At(p[1], p[2])}}
  BY DEF ListOwners
<1> HIDE DEF N, At
<1>4. /\ \A y \in ListOwners(t) : \E c \in CPUs, i \in N : At(c, i) /\ y = <<"list", c, i>>
      /\ \A c \in CPUs, i \in N : At(c, i) => <<"list", c, i>> \in ListOwners(t)
  <2> DEFINE S == {p \in CPUs \X N : At(p[1], p[2])}
  <2>1. ASSUME NEW y \in ListOwners(t)
        PROVE  \E c \in CPUs, i \in N : At(c, i) /\ y = <<"list", c, i>>
    <3>1. PICK o \in S : y = <<"list", o[1], o[2]>>
      BY <1>3
    <3>2. o[1] \in CPUs /\ o[2] \in N /\ At(o[1], o[2])
      OBVIOUS
    <3> QED BY <3>1, <3>2
  <2>2. ASSUME NEW c \in CPUs, NEW i \in N, At(c, i)
        PROVE  <<"list", c, i>> \in ListOwners(t)
    <3>1. PICK o : o = <<c, i>>
      OBVIOUS
    <3>2. o[1] = c /\ o[2] = i /\ o \in CPUs \X N
      BY <3>1
    <3>3. o \in S
      BY <2>2, <3>2
    <3>4. <<"list", o[1], o[2]>> \in ListOwners(t)
      BY <1>3, <3>3
    <3> QED BY <3>2, <3>4
  <2> QED BY <2>1, <2>2
<1>5. ASSUME ListOf(t) = {}
      PROVE  ListOwners(t) = {}
  BY <1>2, <1>4, <1>5
<1>6. ASSUME NEW c, ListOf(t) = {c}
      PROVE  \E y : ListOwners(t) = {y}
  <2>1. c \in CPUs /\ t \in Members(soft[c].list)
    BY <1>6 DEF ListOf
  <2>2. PICK i \in N : At(c, i) /\ \A j \in N : At(c, j) => j = i
    BY <1>1, <2>1, OnePlace DEF N, At
  <2>3. \A d \in CPUs, j \in N : At(d, j) => d = c /\ j = i
    BY <1>2, <1>6, <2>2
  <2>4. \A y \in ListOwners(t) : y = <<"list", c, i>>
    BY <1>4, <2>3
  <2>5. <<"list", c, i>> \in ListOwners(t)
    BY <1>4, <2>1, <2>2
  <2>6. ListOwners(t) = {<<"list", c, i>>}
    BY <2>4, <2>5
  <2> QED BY <2>6
<1> QED BY <1>5, <1>6

\* The owners of both bits, as sets.
LEMMA OneOwner ==
    ASSUME IInv, NEW t \in Tasklets
    PROVE  /\ t \notin sched => SchedOwners(t) = {}
           /\ t \in sched => \E y : SchedOwners(t) = {y}
           /\ \A a : CallOf(t) = {a} => SchedOwners(t) = {<<"call", a>>}
<1>1. /\ CurOf(t) = {} => CurOwners(t) = {}
      /\ \A c : CurOf(t) = {c} => CurOwners(t) = {<<"cur", c>>}
  BY DEF CurOwners
<1>2. /\ CallOf(t) = {} => CallOwners(t) = {}
      /\ \A a : CallOf(t) = {a} => CallOwners(t) = {<<"call", a>>}
  BY DEF CallOwners
<1>3. ASSUME t \notin sched
      PROVE  SchedOwners(t) = {}
  BY <1>1, <1>2, <1>3, Unowned, VecOwner, ListOwner, OwnersByKind
<1>4. ASSUME t \in sched
      PROVE  \/ Alone(VecOf(t), ListOf(t), CurOf(t), CallOf(t))
             \/ Alone(ListOf(t), VecOf(t), CurOf(t), CallOf(t))
             \/ Alone(CurOf(t), VecOf(t), ListOf(t), CallOf(t))
             \/ Alone(CallOf(t), VecOf(t), ListOf(t), CurOf(t))
  BY <1>4 DEF IInv, Owned, OneHolder
<1>5. ASSUME t \in sched
      PROVE  \E y : SchedOwners(t) = {y}
  <2>1. CASE Alone(VecOf(t), ListOf(t), CurOf(t), CallOf(t))
    <3>1. PICK y : VecOwners(t) = {y}
      BY <2>1, VecOwner DEF Alone
    <3>2. ListOwners(t) = {} /\ CurOwners(t) = {} /\ CallOwners(t) = {}
      BY <1>1, <1>2, <2>1, ListOwner DEF Alone
    <3> QED BY <3>1, <3>2, OwnersByKind
  <2>2. CASE Alone(ListOf(t), VecOf(t), CurOf(t), CallOf(t))
    <3>1. PICK y : ListOwners(t) = {y}
      BY <2>2, ListOwner DEF Alone
    <3>2. VecOwners(t) = {} /\ CurOwners(t) = {} /\ CallOwners(t) = {}
      BY <1>1, <1>2, <2>2, VecOwner DEF Alone
    <3> QED BY <3>1, <3>2, OwnersByKind
  <2>3. CASE Alone(CurOf(t), VecOf(t), ListOf(t), CallOf(t))
    <3>1. PICK y : CurOwners(t) = {y}
      BY <1>1, <2>3 DEF Alone
    <3>2. VecOwners(t) = {} /\ ListOwners(t) = {} /\ CallOwners(t) = {}
      BY <1>2, <2>3, VecOwner, ListOwner DEF Alone
    <3> QED BY <3>1, <3>2, OwnersByKind
  <2>4. CASE Alone(CallOf(t), VecOf(t), ListOf(t), CurOf(t))
    <3>1. PICK y : CallOwners(t) = {y}
      BY <1>2, <2>4 DEF Alone
    <3>2. VecOwners(t) = {} /\ ListOwners(t) = {} /\ CurOwners(t) = {}
      BY <1>1, <2>4, VecOwner, ListOwner DEF Alone
    <3> QED BY <3>1, <3>2, OwnersByKind
  <2> QED BY <1>4, <1>5, <2>1, <2>2, <2>3, <2>4
<1>6. ASSUME NEW a, CallOf(t) = {a}
      PROVE  SchedOwners(t) = {<<"call", a>>}
  <2>1. VecOf(t) = {} /\ ListOf(t) = {} /\ CurOf(t) = {}
    BY <1>6 DEF IInv, Owned, OneHolder, Alone
  <2>2. VecOwners(t) = {} /\ ListOwners(t) = {} /\ CurOwners(t) = {}
    BY <1>1, <2>1, VecOwner, ListOwner
  <2> QED BY <1>2, <1>6, <2>2, OwnersByKind
<1> QED BY <1>3, <1>5, <1>6

\* TASKLET_STATE_SCHED and TASKLET_STATE_RUN each have exactly one owner when
\* they are set and none when they are clear: no tasklet is on two lists, and
\* no function runs on two CPUs at once.
THEOREM TaskletBitsHaveOneOwner == Spec => []BitsHaveOneOwner
<1>1. ASSUME IInv
      PROVE  BitsHaveOneOwner
  <2> SUFFICES ASSUME NEW t \in Tasklets
               PROVE  /\ Cardinality(SchedOwners(t)) = IF t \in sched THEN 1 ELSE 0
                      /\ Cardinality(RunOwners(t)) = IF t \in runbit THEN 1 ELSE 0
    BY DEF BitsHaveOneOwner
  <2>1. /\ Cardinality({}) = 0
        /\ \A x : Cardinality({x}) = 1
    BY FS_EmptySet, FS_Singleton
  <2>2. Cardinality(SchedOwners(t)) = IF t \in sched THEN 1 ELSE 0
    BY <1>1, <2>1, OneOwner
  <2>3. Cardinality(RunOwners(t)) = IF t \in runbit THEN 1 ELSE 0
    BY <1>1, <2>1 DEF IInv, Owned, OneRunner
  <2> QED BY <2>2, <2>3
<1> QED BY <1>1, TaskletInvariant, PTL

\* When tasklet_kill() lets go of a tasklet it is on no list, nobody is about
\* to put it on one, and its function runs nowhere.
THEOREM TaskletKilledIsQuiet == Spec => []KilledIsQuiet
<1>1. ASSUME IInv
      PROVE  KilledIsQuiet
  <2> SUFFICES ASSUME NEW a \in Actors, call[a].pc = "kill_clear"
               PROVE  SchedOwners(call[a].t) = {<<"call", a>>} /\ InFunc(call[a].t) = {}
    BY DEF KilledIsQuiet
  <2>1. PICK t : t = call[a].t
    OBVIOUS
  <2>2. t \in Tasklets /\ a \in CallOf(t)
    BY <1>1, <2>1 DEF IInv, Shape, CallShape, CallOf
  <2>3. CallOf(t) = {a}
    BY <1>1, <2>2 DEF IInv, Owned, OneHolder, Alone
  <2>4. SchedOwners(t) = {<<"call", a>>}
    BY <1>1, <2>2, <2>3, OneOwner
  <2>5. InFunc(t) = {}
    BY <1>1, <2>1 DEF IInv, Owned, KillWaited
  <2> QED BY <2>1, <2>4, <2>5
<1> QED BY <1>1, TaskletInvariant, PTL
==============================================================================
