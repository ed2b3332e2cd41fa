---------------------------- MODULE KernelLemmas -----------------------------
(***************************************************************************)
(* Facts the proofs share: what the operations of include/linux/list.h do  *)
(* to the set of entries and to their distinctness, and how many entries   *)
(* and numbers there are.                                                  *)
(***************************************************************************)
EXTENDS KList, FiniteSetTheorems, SequenceTheorems, TLAPS

\* list_add_tail() adds the new entry and keeps the entries distinct.
LEMMA AddTailProperties ==
    ASSUME NEW T, NEW q \in Seq(T), NEW t \in T, NoDup(q), t \notin Members(q)
    PROVE  /\ list_add_tail(q, t) \in Seq(T)
           /\ Members(list_add_tail(q, t)) = Members(q) \cup {t}
           /\ NoDup(list_add_tail(q, t))
           /\ list_add_tail(q, t) # <<>>
<1> DEFINE r == list_add_tail(q, t)
<1>1. /\ r \in Seq(T)
      /\ Len(r) = Len(q) + 1
      /\ Len(q) \in Nat
      /\ \A i \in 1..Len(q) : r[i] = q[i]
      /\ r[Len(q) + 1] = t
  BY DEF list_add_tail
<1>2. 1..Len(r) = 1..Len(q) \cup {Len(q) + 1}
  BY <1>1
<1> HIDE DEF r
<1>3. Members(r) = Members(q) \cup {t}
  BY <1>1, <1>2 DEF Members
<1>4. NoDup(r)
  BY <1>1, <1>2 DEF Members, NoDup
<1>5. r # <<>>
  BY <1>1
<1> QED BY <1>1, <1>3, <1>4, <1>5 DEF r

\* Taking the first entry off leaves the others.
LEMMA TailMembers ==
    ASSUME NEW T, NEW q \in Seq(T), NoDup(q), q # <<>>
    PROVE  /\ Tail(q) \in Seq(T)
           /\ Head(q) \in Members(q)
           /\ Head(q) \in T
           /\ Members(Tail(q)) = Members(q) \ {Head(q)}
           /\ NoDup(Tail(q))
<1> DEFINE r == Tail(q)
<1>1. /\ r \in Seq(T)
      /\ Len(r) = Len(q) - 1
      /\ Len(q) \in Nat \ {0}
      /\ \A i \in 1..Len(r) : r[i] = q[i + 1]
      /\ Head(q) = q[1]
      /\ Head(q) \in T
  OBVIOUS
<1> HIDE DEF r
<1>2. Head(q) \in Members(q)
  BY <1>1 DEF Members
<1>3. Members(r) \subseteq Members(q) \ {Head(q)}
  BY <1>1 DEF Members, NoDup
<1>4. Members(q) \ {Head(q)} \subseteq Members(r)
  <2> SUFFICES ASSUME NEW i \in 1..Len(q), q[i] # Head(q)
               PROVE  q[i] \in Members(r)
    BY DEF Members
  <2>1. i # 1 /\ i - 1 \in 1..Len(r) /\ (i - 1) + 1 = i
    BY <1>1
  <2> QED BY <1>1, <2>1 DEF Members
<1>5. NoDup(r)
  BY <1>1 DEF NoDup
<1> QED BY <1>1, <1>2, <1>3, <1>4, <1>5 DEF r

\* list_del() of an entry on the list removes that entry and no other.
LEMMA ListDelProperties ==
    ASSUME NEW T, NEW q \in Seq(T), NoDup(q), NEW t \in Members(q)
    PROVE  /\ list_del(q, t) \in Seq(T)
           /\ Members(list_del(q, t)) = Members(q) \ {t}
           /\ NoDup(list_del(q, t))
           /\ Len(list_del(q, t)) = Len(q) - 1
<1> DEFINE at == CHOOSE i \in 1..Len(q) : q[i] = t
           r  == [i \in 1 .. Len(q) - 1 |-> IF i < at THEN q[i] ELSE q[i + 1]]
<1>1. at \in 1..Len(q) /\ q[at] = t
  BY DEF Members
<1>2. Len(q) \in Nat \ {0} /\ Len(q) - 1 \in Nat
  BY <1>1
<1> HIDE DEF at
<1>3. \A i \in 1 .. Len(q) - 1 : r[i] \in T
  BY <1>1, <1>2
<1>4. r \in Seq(T) /\ Len(r) = Len(q) - 1
  BY <1>2, <1>3
<1>5. \A i \in 1..Len(r) : r[i] = IF i < at THEN q[i] ELSE q[i + 1]
  BY <1>4
<1>6. list_del(q, t) = r
  BY DEF list_del, at
<1> HIDE DEF r
<1>7. Members(r) \subseteq Members(q) \ {t}
  <2> SUFFICES ASSUME NEW i \in 1..Len(r)
               PROVE  r[i] \in Members(q) /\ r[i] # t
    BY DEF Members
  <2>1. i \in 1..Len(q) /\ i + 1 \in 1..Len(q)
    BY <1>2, <1>4
  <2>2. CASE i < at
    BY <2>1, <2>2, <1>1, <1>5 DEF Members, NoDup
  <2>3. CASE ~(i < at)
    BY <2>1, <2>3, <1>1, <1>5 DEF Members, NoDup
  <2> QED BY <2>2, <2>3
<1>8. Members(q) \ {t} \subseteq Members(r)
  <2> SUFFICES ASSUME NEW i \in 1..Len(q), q[i] # t
               PROVE  \E j \in 1..Len(r) : r[j] = q[i]
    BY DEF Members
  <2>1. CASE i < at
    <3>1. i \in 1..Len(r)
      BY <2>1, <1>1, <1>2, <1>4
    <3> QED BY <3>1, <2>1, <1>5
  <2>2. CASE i > at
    <3>1. i - 1 \in 1..Len(r) /\ ~(i - 1 < at) /\ (i - 1) + 1 = i
      BY <2>2, <1>1, <1>2, <1>4
    <3> QED BY <3>1, <1>5
  <2> QED BY <2>1, <2>2, <1>1
<1>9. NoDup(r)
  <2> SUFFICES ASSUME NEW i \in 1..Len(r), NEW j \in 1..Len(r), r[i] = r[j]
               PROVE  i = j
    BY DEF NoDup
  <2> DEFINE o(k) == IF k < at THEN k ELSE k + 1
  <2>1. o(i) \in 1..Len(q) /\ o(j) \in 1..Len(q)
    BY <1>1, <1>2, <1>4
  <2>2. r[i] = q[o(i)] /\ r[j] = q[o(j)]
    BY <1>5
  <2>3. o(i) = o(j)
    <3> HIDE DEF o
    <3> QED BY <2>1, <2>2 DEF NoDup
  <2> QED BY <2>3, <1>1, <1>2, <1>4
<1> QED BY <1>4, <1>6, <1>7, <1>8, <1>9

\* An entry that is queued at the tail and unlinked at once leaves no trace.
LEMMA DelAfterAdd ==
    ASSUME NEW T, NEW q \in Seq(T), NEW t \in T, t \notin Members(q)
    PROVE  list_del(list_add_tail(q, t), t) = q
<1> DEFINE r == list_add_tail(q, t)
           at == CHOOSE i \in 1..Len(r) : r[i] = t
<1>1. /\ Len(r) = Len(q) + 1
      /\ Len(q) \in Nat
      /\ \A i \in 1..Len(q) : r[i] = q[i] /\ r[i] # t
      /\ r[Len(q) + 1] = t
  BY DEF list_add_tail, Members
<1>2. at \in 1..Len(r) /\ r[at] = t
  BY <1>1
<1>3. at = Len(q) + 1
  BY <1>1, <1>2
<1> HIDE DEF at
<1>4. list_del(r, t) = [i \in 1 .. Len(q) |-> r[i]]
  <2>1. list_del(r, t) = [i \in 1 .. Len(r) - 1 |-> IF i < at THEN r[i] ELSE r[i + 1]]
    BY DEF list_del, at
  <2> QED BY <1>1, <1>3, <2>1
<1>5. q = [i \in 1..Len(q) |-> q[i]]
  OBVIOUS
<1> QED BY <1>1, <1>4, <1>5

\* A set of natural numbers that is not empty has a least element.
LEMMA LeastNatural ==
    ASSUME NEW W \in SUBSET Nat, W # {}
    PROVE  \E m \in W : \A k \in W : m <= k
<1> DEFINE T == {0..n : n \in W}
           R == StrictSubsetOrdering(Nat)
<1>1. \A n \in Nat : 0..n \in FiniteSubsetsOf(Nat)
  <2> TAKE n \in Nat
  <2>1. IsFiniteSet(0..n)
    BY FS_Interval
  <2> QED BY <2>1 DEF FiniteSubsetsOf
<1>2. T \subseteq FiniteSubsetsOf(Nat) /\ T # {}
  BY <1>1
<1>3. IsWellFoundedOn(R, FiniteSubsetsOf(Nat))
  BY FS_StrictSubsetOrderingWellFounded
<1> HIDE DEF R
<1>4. \E x \in T : \A y \in T : ~ (<<y, x>> \in R)
  <2> HIDE DEF T
  <2> QED BY <1>2, <1>3, WFMin
<1>5. PICK m \in W : \A k \in W : <<0..k, 0..m>> \notin R
  BY <1>4
<1>6. ASSUME NEW k \in W, k < m
      PROVE  FALSE
  <2>1. 0..k \in SUBSET Nat /\ 0..m \in SUBSET Nat /\ 0..k \subseteq 0..m
    BY <1>6
  <2>2. 0..k # 0..m
    <3>1. m \in 0..m /\ m \notin 0..k
      BY <1>6
    <3> QED BY <3>1
  <2>3. <<0..k, 0..m>> \in R
    BY <2>1, <2>2 DEF R, StrictSubsetOrdering
  <2> QED BY <2>3, <1>5
<1> QED BY <1>6

\* The entries in front of the first one that is in W.
LEMMA FirstOfKind ==
    ASSUME NEW len \in Nat, NEW W \in SUBSET (1..len)
    PROVE  \E n \in 0..len : /\ \A i \in 1..n : i \notin W
                             /\ n < len => n + 1 \in W
<1>1. CASE W = {}
  <2>1. len \in 0..len /\ \A i \in 1..len : i \notin W
    BY <1>1
  <2> QED BY <2>1
<1>2. CASE W # {}
  <2>1. PICK m \in W : \A k \in W : m <= k
    <3>1. W \in SUBSET Nat
      OBVIOUS
    <3> QED BY <3>1, <1>2, LeastNatural
  <2>2. m - 1 \in 0..len /\ (m - 1) + 1 \in W /\ \A i \in 1 .. m - 1 : i \notin W
    BY <2>1
  <2> QED BY <2>2
<1> QED BY <1>1, <1>2

\* The first n entries of a list are n different entries.
LEMMA PrefixCardinality ==
    ASSUME NEW T, NEW q \in Seq(T), NoDup(q), NEW n \in 0..Len(q)
    PROVE  LET S == {q[i] : i \in 1..n}
           IN  IsFiniteSet(S) /\ Cardinality(S) = n
<1> DEFINE S == {q[i] : i \in 1..n}
           f == [i \in 1..n |-> q[i]]
<1>1. n \in Nat /\ 1..n \subseteq 1..Len(q)
  OBVIOUS
<1>2. f \in Bijection(1..n, S)
  BY <1>1 DEF NoDup, Bijection, Injection, Surjection, IsInjective
<1>3. ExistsBijection(1..n, S)
  BY <1>2 DEF ExistsBijection
<1>4. IsFiniteSet(1..n)
  BY <1>1, FS_Interval
<1> HIDE DEF S
<1>5. IsFiniteSet(S) 
  BY <1>3, <1>4, FS_Bijection
<1>6. Cardinality(S) = n
  BY <1>1, <1>3, FS_CountingElements
<1> QED BY <1>5, <1>6 DEF S

\* A list cut in two after its first n entries.
LEMMA SplitProperties ==
    ASSUME NEW T, NEW q \in Seq(T), NoDup(q), NEW n \in 0..Len(q)
    PROVE  LET front == SubSeq(q, 1, n)
               back  == SubSeq(q, n + 1, Len(q))
           IN  /\ front \in Seq(T) /\ NoDup(front) /\ Len(front) = n
               /\ Members(front) = {q[i] : i \in 1..n}
               /\ \A i \in 1..n : front[i] = q[i]
               /\ back \in Seq(T) /\ NoDup(back) /\ Len(back) = Len(q) - n
               /\ Members(back) = Members(q) \ Members(front)
               /\ \A i \in 1..Len(back) : back[i] = q[n + i]
               /\ n = 0 => back = q
<1> DEFINE front == SubSeq(q, 1, n)
           back  == SubSeq(q, n + 1, Len(q))
<1>1. Len(q) \in Nat /\ n \in Nat /\ n <= Len(q)
  OBVIOUS
<1>2. /\ front \in Seq(T) /\ Len(front) = n
      /\ \A i \in 1..n : front[i] = q[i]
  BY <1>1
<1>3. /\ back \in Seq(T) /\ Len(back) = Len(q) - n
      /\ \A i \in 1..Len(back) : back[i] = q[n + i]
  BY <1>1
<1>4. n = 0 => back = q
  BY <1>1, SubSeqFull
<1> HIDE DEF front, back
<1>5. Members(front) = {q[i] : i \in 1..n}
  BY <1>2 DEF Members
<1>6. NoDup(front)
  BY <1>1, <1>2 DEF NoDup
<1>7. NoDup(back)
  <2> SUFFICES ASSUME NEW i \in 1..Len(back), NEW j \in 1..Len(back), back[i] = back[j]
               PROVE  i = j
    BY DEF NoDup
  <2>1. n + i \in 1..Len(q) /\ n + j \in 1..Len(q) /\ q[n + i] = q[n + j]
    BY <1>1, <1>3
  <2>2. n + i = n + j
    BY <2>1 DEF NoDup
  <2> QED BY <2>2, <1>1, <1>3
<1>8. Members(back) \subseteq Members(q) \ Members(front)
  <2> SUFFICES ASSUME NEW i \in 1..Len(back)
               PROVE  back[i] \in Members(q) /\ back[i] \notin Members(front)
    BY DEF Members
  <2>1. n + i \in 1..Len(q) /\ back[i] = q[n + i] /\ n + i \notin 1..n
    BY <1>1, <1>3
  <2>2. \A j \in 1..n : j \in 1..Len(q) /\ j # n + i
    BY <1>1, <2>1
  <2>3. \A j \in 1..n : q[j] # q[n + i]
    BY <2>1, <2>2 DEF NoDup
  <2> QED BY <2>1, <2>3, <1>5 DEF Members
<1>9. Members(q) \ Members(front) \subseteq Members(back)
  <2> SUFFICES ASSUME NEW i \in 1..Len(q), q[i] \notin Members(front)
               PROVE  q[i] \in Members(back)
    BY DEF Members
  <2>1. i \notin 1..n
    BY <1>5
  <2>2. i - n \in 1..Len(back) /\ n + (i - n) = i
    BY <1>1, <1>3, <2>1
  <2> QED BY <2>2, <1>3 DEF Members
<1> QED BY <1>2, <1>3, <1>4, <1>5, <1>6, <1>7, <1>8, <1>9 DEF front, back

\* Two lists without a common entry, one after the other.
LEMMA JoinedProperties ==
    ASSUME NEW T, NEW q \in Seq(T), NEW r \in Seq(T), NoDup(q), NoDup(r),
           \A t \in T : ~(t \in Members(q) /\ t \in Members(r))
    PROVE  /\ q \o r \in Seq(T)
           /\ Members(q \o r) = Members(q) \cup Members(r)
           /\ NoDup(q \o r)
           /\ q \o r = <<>> => r = <<>>
<1> DEFINE s == q \o r
<1>1. /\ s \in Seq(T)
      /\ Len(q) \in Nat /\ Len(r) \in Nat /\ Len(s) = Len(q) + Len(r)
      /\ \A i \in 1..Len(q) : s[i] = q[i]
      /\ \A i \in 1..Len(r) : s[Len(q) + i] = r[i]
  OBVIOUS
<1> HIDE DEF s
<1>2. \A i \in 1..Len(s) : \/ i \in 1..Len(q) /\ s[i] = q[i]
                           \/ /\ i - Len(q) \in 1..Len(r)
                              /\ s[i] = r[i - Len(q)]
  <2> TAKE i \in 1..Len(s)
  <2>1. CASE i <= Len(q)
    BY <1>1, <2>1
  <2>2. CASE i > Len(q)
    <3>1. i - Len(q) \in 1..Len(r) /\ Len(q) + (i - Len(q)) = i
      BY <1>1, <2>2
    <3> QED BY <1>1, <3>1
  <2> QED BY <1>1, <2>1, <2>2
<1>3. Members(s) \subseteq Members(q) \cup Members(r)
  BY <1>2 DEF Members
<1>4. Members(q) \subseteq Members(s)
  <2> SUFFICES ASSUME NEW i \in 1..Len(q) PROVE q[i] \in Members(s)
    BY DEF Members
  <2>1. i \in 1..Len(s) /\ s[i] = q[i]
    BY <1>1
  <2> QED BY <2>1 DEF Members
<1>5. Members(r) \subseteq Members(s)
  <2> SUFFICES ASSUME NEW i \in 1..Len(r) PROVE r[i] \in Members(s)
    BY DEF Members
  <2>1. Len(q) + i \in 1..Len(s) /\ s[Len(q) + i] = r[i]
    BY <1>1
  <2> QED BY <2>1 DEF Members
<1>6. NoDup(s)
  <2> SUFFICES ASSUME NEW i \in 1..Len(s), NEW j \in 1..Len(s), s[i] = s[j]
               PROVE  i = j
    BY DEF NoDup
  <2>1. CASE i \in 1..Len(q) /\ s[i] = q[i] /\ j \in 1..Len(q) /\ s[j] = q[j]
    BY <2>1 DEF NoDup
  <2>2. CASE /\ i - Len(q) \in 1..Len(r) /\ s[i] = r[i - Len(q)]
             /\ j - Len(q) \in 1..Len(r) /\ s[j] = r[j - Len(q)]
    <3>1. i - Len(q) = j - Len(q)
      BY <2>2 DEF NoDup
    <3> QED BY <3>1, <1>1
  <2>3. CASE /\ i \in 1..Len(q) /\ s[i] = q[i]
             /\ j - Len(q) \in 1..Len(r) /\ s[j] = r[j - Len(q)]
    <3>1. q[i] \in T /\ q[i] \in Members(q)
      BY <2>3 DEF Members
    <3>2. r[j - Len(q)] \in Members(r)
      BY <2>3 DEF Members
    <3> QED BY <2>3, <3>1, <3>2
  <2>4. CASE /\ j \in 1..Len(q) /\ s[j] = q[j]
             /\ i - Len(q) \in 1..Len(r) /\ s[i] = r[i - Len(q)]
    <3>1. q[j] \in T /\ q[j] \in Members(q)
      BY <2>4 DEF Members
    <3>2. r[i - Len(q)] \in Members(r)
      BY <2>4 DEF Members
    <3> QED BY <2>4, <3>1, <3>2
  <2> QED BY <1>2, <2>1, <2>2, <2>3, <2>4
<1>7. s = <<>> => r = <<>>
  BY <1>1
<1> QED BY <1>1, <1>3, <1>4, <1>5, <1>6, <1>7 DEF s

\* A list of different entries is no longer than there are entries.
LEMMA DistinctLength ==
    ASSUME NEW T, IsFiniteSet(T), NEW q \in Seq(T), NoDup(q)
    PROVE  Len(q) <= Cardinality(T)
<1>1. Len(q) \in 0..Len(q)
  OBVIOUS
<1>2. Cardinality(Members(q)) = Len(q)
  BY <1>1, PrefixCardinality DEF Members
<1>3. Members(q) \subseteq T
  BY DEF Members
<1> QED BY <1>2, <1>3, FS_Subset

\* list_del() of several entries: the others stay, in their order.
LEMMA DelAllProperties ==
    ASSUME NEW T, NEW q \in Seq(T), NoDup(q), NEW ts
    PROVE  LET r == list_del_all(q, ts)
           IN  /\ r \in Seq(T)
               /\ Members(r) = Members(q) \ ts
               /\ NoDup(r)
               /\ \A i, j \in 1..Len(r) : i < j =>
                     \E k, l \in 1..Len(q) : k < l /\ q[k] = r[i] /\ q[l] = r[j]
<1> DEFINE stay == {i \in 1..Len(q) : q[i] \notin ts}
           upto(i) == Cardinality({j \in stay : j <= i})
           n == Cardinality(stay)
           at(k) == CHOOSE i \in stay : upto(i) = k
           r == [k \in 1..n |-> q[at(k)]]
<1>1. IsFiniteSet(stay) /\ n \in Nat
  <2>1. IsFiniteSet(1..Len(q)) /\ stay \subseteq 1..Len(q)
    BY FS_Interval
  <2>2. IsFiniteSet(stay)
    BY <2>1, FS_Subset
  <2> QED BY <2>2, FS_CardinalityType
<1>2. \A i : {j \in stay : j <= i} \subseteq stay /\ IsFiniteSet({j \in stay : j <= i})
  BY <1>1, FS_Subset
<1>3. \A i : upto(i) \in Nat /\ upto(i) <= n
  BY <1>1, <1>2, FS_CardinalityType, FS_Subset
<1>4. upto(0) = 0 /\ upto(Len(q)) = n
  <2>1. {j \in stay : j <= 0} = {} /\ {j \in stay : j <= Len(q)} = stay
    OBVIOUS
  <2> QED BY <2>1, FS_EmptySet
<1>5. ASSUME NEW i \in 1..Len(q)
      PROVE  upto(i) = IF i \in stay THEN upto(i - 1) + 1 ELSE upto(i - 1)
  <2>1. CASE i \in stay
    <3>1. {j \in stay : j <= i} = {j \in stay : j <= i - 1} \cup {i}
      BY <2>1
    <3>2. i \notin {j \in stay : j <= i - 1}
      OBVIOUS
    <3> QED BY <2>1, <3>1, <3>2, <1>2, FS_AddElement
  <2>2. CASE i \notin stay
    <3>1. {j \in stay : j <= i} = {j \in stay : j <= i - 1}
      BY <2>2
    <3> QED BY <2>2, <3>1
  <2> QED BY <2>1, <2>2
<1>6. ASSUME NEW i, NEW j \in stay, i < j, i \in Nat
      PROVE  upto(i) < upto(j)
  <2> DEFINE A == {k \in stay : k <= i}
             B == {k \in stay : k <= j}
  <2>1. A \subseteq B /\ j \in B /\ j \notin A
    BY <1>6
  <2>2. IsFiniteSet(A) /\ IsFiniteSet(B) /\ upto(i) = Cardinality(A) /\ upto(j) = Cardinality(B)
    BY <1>2
  <2> HIDE DEF A, B, upto
  <2>3. Cardinality(A) \in Nat /\ Cardinality(A \cup {j}) = Cardinality(A) + 1
    BY <2>1, <2>2, FS_AddElement, FS_CardinalityType
  <2>4. Cardinality(A \cup {j}) <= Cardinality(B) /\ Cardinality(B) \in Nat
    BY <2>1, <2>2, FS_Subset, FS_CardinalityType
  <2> QED BY <2>2, <2>3, <2>4
<1>a. \A i \in stay : i \in 1..Len(q) /\ i \in Nat /\ 0 < i
  OBVIOUS
<1>b. stay = 1..Len(q) => n = Len(q) /\ \A k \in 1..n : upto(k) = k
  <2> SUFFICES ASSUME stay = 1..Len(q)
               PROVE  n = Len(q) /\ \A k \in 1..Len(q) : upto(k) = k
    OBVIOUS
  <2>1. n = Len(q)
    <3>1. ASSUME NEW m \in Nat
          PROVE  Cardinality(1..m) = m
      BY FS_Interval
    <3>2. Cardinality(1..Len(q)) = Len(q)
      BY <3>1
    <3> HIDE DEF stay
    <3> QED BY <3>2
  <2>2. ASSUME NEW k \in 1..Len(q)
        PROVE  upto(k) = k
    <3>1. {j \in stay : j <= k} = 1..k
      OBVIOUS
    <3>2. Cardinality(1..k) = k
      BY FS_Interval
    <3> QED BY <3>1, <3>2
  <2> QED BY <2>1, <2>2
<1>c. list_del_all(q, ts) = IF stay = 1..Len(q) THEN q ELSE r
  BY DEF list_del_all
<1> HIDE DEF upto, n
<1>7. ASSUME NEW k \in 1..n
      PROVE  \E i \in stay : upto(i) = k
  <2> DEFINE W == {i \in 0..Len(q) : upto(i) >= k}
  <2>1. Len(q) \in W
    BY <1>4
  <2>2. PICK m \in W : \A i \in W : m <= i
    <3>1. W \in SUBSET Nat
      OBVIOUS
    <3>2. W # {}
      BY <2>1
    <3> HIDE DEF W
    <3> QED BY <3>1, <3>2, LeastNatural
  <2>3. m # 0
    BY <1>4, <2>2
  <2>4. m \in 1..Len(q) /\ m - 1 \in 0..Len(q) /\ ~(upto(m - 1) >= k) /\ upto(m) >= k
    BY <2>2, <2>3
  <2> HIDE DEF stay, W
  <2>5. m \in stay /\ upto(m) = k
    BY <1>1, <1>3, <1>5, <2>4
  <2> QED BY <2>5
<1>8. \A k \in 1..n : at(k) \in stay /\ upto(at(k)) = k
  BY <1>7
<1>9. \A i \in stay : upto(i) \in 1..n /\ at(upto(i)) = i
  <2> SUFFICES ASSUME NEW i \in stay
               PROVE  upto(i) \in 1..n /\ at(upto(i)) = i
    OBVIOUS
  <2>1. 0 < upto(i) /\ upto(i) <= n
    BY <1>3, <1>4, <1>6, <1>a
  <2>2. upto(i) \in 1..n
    BY <1>1, <1>3, <2>1
  <2>3. at(upto(i)) \in stay /\ upto(at(upto(i))) = upto(i)
    BY <1>8, <2>2
  <2> HIDE DEF at, stay
  <2>4. ~(at(upto(i)) < i) /\ ~(i < at(upto(i)))
    BY <1>3, <1>6, <1>a, <2>3
  <2> QED BY <1>a, <2>2, <2>3, <2>4
<1>10. \A k, l \in 1..n : k < l => at(k) < at(l)
  <2> SUFFICES ASSUME NEW k \in 1..n, NEW l \in 1..n, k < l
               PROVE  at(k) < at(l)
    OBVIOUS
  <2>1. /\ at(k) \in stay /\ upto(at(k)) = k /\ at(l) \in stay /\ upto(at(l)) = l
    BY <1>8
  <2> HIDE DEF at, stay
  <2>2. ~(at(l) < at(k)) /\ at(k) # at(l)
    BY <1>6, <1>a, <2>1
  <2> QED BY <1>a, <2>1, <2>2
<1>11. list_del_all(q, ts) = r
  <2>1. CASE stay = 1..Len(q)
    <3>1. n = Len(q) /\ \A k \in 1..n : upto(k) = k
      BY <1>b, <2>1
    <3>2. \A k \in 1..n : at(k) = k
      <4> HIDE DEF at, stay
      <4> QED BY <1>9, <2>1, <3>1
    <3>3. r = [k \in 1..Len(q) |-> q[k]]
      <4> HIDE DEF at
      <4> QED BY <3>1, <3>2
    <3> HIDE DEF r
    <3>4. q = [k \in 1..Len(q) |-> q[k]]
      OBVIOUS
    <3>5. r = q
      BY <3>3, <3>4
    <3> QED BY <1>c, <2>1, <3>5
  <2>2. CASE stay # 1..Len(q)
    BY <1>c, <2>2
  <2> QED BY <2>1, <2>2
<1>12. r \in Seq(T) /\ Len(r) = n
  <2>1. \A k \in 1..n : q[at(k)] \in T
    BY <1>8, <1>a
  <2> HIDE DEF at
  <2> QED BY <1>1, <2>1
<1>13. \A k \in 1..n : r[k] = q[at(k)]
  OBVIOUS
<1> HIDE DEF r, at
<1>14. Members(r) = Members(q) \ ts
  <2>1. Members(r) \subseteq Members(q) \ ts
    <3> SUFFICES ASSUME NEW k \in 1..n
                 PROVE  r[k] \in Members(q) \ ts
      BY <1>12 DEF Members
    <3> QED BY <1>8, <1>13 DEF Members
  <2>2. ASSUME NEW i \in 1..Len(q), q[i] \notin ts
        PROVE  q[i] \in Members(r)
    <3>1. i \in stay
      BY <2>2
    <3> HIDE DEF stay
    <3>2. upto(i) \in 1..Len(r) /\ r[upto(i)] = q[i]
      BY <3>1, <1>9, <1>12, <1>13
    <3> QED BY <3>2 DEF Members
  <2> QED BY <2>1, <2>2 DEF Members
<1>15. \A i, j \in 1..Len(r) : i < j =>
           \E k, l \in 1..Len(q) : k < l /\ q[k] = r[i] /\ q[l] = r[j]
  BY <1>8, <1>10, <1>12, <1>13
<1>16. NoDup(r)
  <2> SUFFICES ASSUME NEW i \in 1..Len(r), NEW j \in 1..Len(r), r[i] = r[j]
               PROVE  i = j
    BY DEF NoDup
  <2>1. ~(i < j) /\ ~(j < i)
    BY <1>15 DEF NoDup
  <2> QED BY <2>1, <1>1, <1>12
<1> QED BY <1>11, <1>12, <1>14, <1>15, <1>16

\* list_add() puts an entry in front of all others.
LEMMA AddHeadProperties ==
    ASSUME NEW T, NEW q \in Seq(T), NEW t \in T, NoDup(q), t \notin Members(q)
    PROVE  LET r == <<t>> \o q
           IN  /\ r \in Seq(T) /\ NoDup(r)
               /\ Members(r) = Members(q) \cup {t}
               /\ Len(r) = Len(q) + 1 /\ r[1] = t
               /\ \A i \in 1..Len(r) : i > 1 => i - 1 \in 1..Len(q) /\ r[i] = q[i - 1]
<1> DEFINE r == <<t>> \o q
<1>1. /\ r \in Seq(T) /\ Len(r) = Len(q) + 1 /\ Len(q) \in Nat
      /\ \A k \in 1..Len(q) : r[k + 1] = q[k]
      /\ r[1] = t
  OBVIOUS
<1> HIDE DEF r
<1>2. ASSUME NEW i \in 1..Len(r), i > 1
      PROVE  i - 1 \in 1..Len(q) /\ r[i] = q[i - 1]
  <2>1. i - 1 \in 1..Len(q) /\ (i - 1) + 1 = i
    BY <1>1, <1>2
  <2> QED BY <1>1, <2>1
<1>3. \A k \in 1..Len(q) : k + 1 \in 1..Len(r)
  BY <1>1
<1>4. Members(r) = Members(q) \cup {t}
  <2>1. 1 \in 1..Len(r)
    BY <1>1
  <2>2. \A i \in 1..Len(r) : i = 1 \/ i > 1
    BY <1>1
  <2>3. \A i \in 1..Len(r) : r[i] = t \/ r[i] \in Members(q)
    BY <1>1, <1>2, <2>2 DEF Members
  <2>4. \A k \in 1..Len(q) : q[k] \in Members(r)
    BY <1>1, <1>3 DEF Members
  <2>5. t \in Members(r)
    BY <1>1, <2>1 DEF Members
  <2> QED BY <2>3, <2>4, <2>5 DEF Members
<1>5. NoDup(r)
  <2> SUFFICES ASSUME NEW i \in 1..Len(r), NEW j \in 1..Len(r), r[i] = r[j]
               PROVE  i = j
    BY DEF NoDup
  <2>1. CASE i = 1 \/ j = 1
    BY <1>1, <1>2, <2>1 DEF Members
  <2>2. CASE i > 1 /\ j > 1
    <3>1. i - 1 = j - 1
      BY <1>2, <2>2 DEF NoDup
    <3> QED BY <1>1, <3>1
  <2> QED BY <1>1, <2>1, <2>2
<1> QED BY <1>1, <1>2, <1>4, <1>5 DEF r

\* list_del() keeps the order of the others.
LEMMA ListDelOrder ==
    ASSUME NEW T, NEW q \in Seq(T), NEW t \in Members(q)
    PROVE  LET r == list_del(q, t)
           IN  \A i, j \in 1..Len(r) : i < j =>
                  \E k, l \in 1..Len(q) : k < l /\ q[k] = r[i] /\ q[l] = r[j]
<1> DEFINE at == CHOOSE i \in 1..Len(q) : q[i] = t
           r  == [i \in 1 .. Len(q) - 1 |-> IF i < at THEN q[i] ELSE q[i + 1]]
           o(k) == IF k < at THEN k ELSE k + 1
<1>1. at \in 1..Len(q) /\ q[at] = t
  BY DEF Members
<1>2. list_del(q, t) = r /\ Len(q) - 1 \in Nat
  BY <1>1 DEF list_del
<1> HIDE DEF at
<1>3. Len(r) = Len(q) - 1 /\ \A i \in 1..Len(r) : r[i] = q[o(i)]
  BY <1>2
<1> HIDE DEF r
<1>4. ASSUME NEW i \in 1..Len(r), NEW j \in 1..Len(r), i < j
      PROVE  \E k, l \in 1..Len(q) : k < l /\ q[k] = r[i] /\ q[l] = r[j]
  <2>1. o(i) \in 1..Len(q) /\ o(j) \in 1..Len(q) /\ o(i) < o(j)
    BY <1>1, <1>3, <1>4
  <2> QED BY <1>3, <2>1
<1> QED BY <1>2, <1>4 DEF r
==============================================================================
