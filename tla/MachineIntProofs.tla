--------------------------- MODULE MachineIntProofs --------------------------
(***************************************************************************)
(* Proofs about the components whose counters are ints of the machine, for *)
(* every modulus that their assumptions allow: the byte FIFO, sleepable    *)
(* RCU and completions.                                                    *)
(***************************************************************************)
EXTENDS Kfifo, Srcu, Completion, KernelLemmas

(***************************************************************************)
(* The byte FIFO.  Its indices stay within bounds, for every buffer size   *)
(* and every width of an unsigned int: without a lock for one reader and   *)
(* one writer, and for any number of callers under fifo->lock.             *)
(***************************************************************************)

\* A buffer size divides the range of an index ...
LEMMA SizeDivides ==
    ASSUME size \in {roundup_pow_of_two(n) : n \in Sizes}
    PROVE  \E m \in 2..Modulus : Modulus = m * size
  <1>1. PICK n \in Sizes : size = roundup_pow_of_two(n)
    OBVIOUS
  <1>2. \E m \in 2..Modulus : Modulus = m * roundup_pow_of_two(n)
    BY <1>1, KfifoAssumption
  <1>. QED BY <1>1, <1>2

\* ... and is at most half of it.
LEMMA SizeFits ==
    ASSUME size \in {roundup_pow_of_two(n) : n \in Sizes}
    PROVE  size \in Nat /\ Modulus \in Nat /\ size > 0 /\ 2 * size <= Modulus
  <1>1. PICK n \in Sizes : size = roundup_pow_of_two(n)
    OBVIOUS
  <1>2. roundup_pow_of_two(n) \in Nat \ {0}
    BY <1>1, KfifoAssumption
  <1>3. Modulus \in Nat
    BY KfifoAssumption
  <1>4. PICK m \in 2..Modulus : Modulus = m * size
    BY SizeDivides
  <1>5. size \in Nat /\ size > 0 /\ m \in Nat /\ m >= 2
    BY <1>1, <1>2, <1>3
  <1>6. m * size >= 2 * size
    BY <1>5
  <1>. QED BY <1>3, <1>4, <1>5, <1>6

\* The longest call that is looked at has a length.
LEMMA MaxLenType == MaxLen \in Nat
  BY KfifoAssumption

\* min() of two lengths is one of them and exceeds neither.
LEMMA MinBounds ==
    ASSUME NEW a \in Nat, NEW b \in Nat
    PROVE  min(a, b) \in Nat /\ min(a, b) <= a /\ min(a, b) <= b
  BY DEF min

\* The difference of the indices, and the room it leaves, are what they would
\* be if the indices did not wrap.
LEMMA LenAvail ==
    ASSUME size \in Nat, Modulus \in Nat, size > 0, 2 * size <= Modulus,
           in \in 0 .. Modulus - 1, out \in 0 .. Modulus - 1,
           kfifo_len <= size
    PROVE  /\ kfifo_len \in 0..size
           /\ kfifo_avail = size - kfifo_len
           /\ kfifo_avail \in 0..size
  BY DEF kfifo_len, kfifo_avail, Wrap

\* Moving fifo->in by k bytes makes the FIFO k bytes longer.
LEMMA MoveIn ==
    ASSUME Modulus \in Nat,
           in \in 0 .. Modulus - 1, out \in 0 .. Modulus - 1,
           NEW k \in Nat, kfifo_len + k < Modulus
    PROVE  /\ Wrap(in + k) \in 0 .. Modulus - 1
           /\ Wrap(Wrap(in + k) - out) = kfifo_len + k
  BY DEF kfifo_len, Wrap

\* Moving fifo->out by k bytes makes the FIFO k bytes shorter.
LEMMA MoveOut ==
    ASSUME Modulus \in Nat,
           in \in 0 .. Modulus - 1, out \in 0 .. Modulus - 1,
           NEW k \in Nat, k <= kfifo_len
    PROVE  /\ Wrap(out + k) \in 0 .. Modulus - 1
           /\ Wrap(in - Wrap(out + k)) = kfifo_len - k
  BY DEF kfifo_len, Wrap

\* The two memcpy() of a call stay inside the buffer.
LEMMA SlotInside ==
    ASSUME size \in Nat, size > 0, NEW i \in Nat, NEW k \in 0 .. size - 1
    PROVE  Slot(i, k) \in 0 .. size - 1
  <1>1. i % size \in 0 .. size - 1
    OBVIOUS
  <1>. DEFINE r == i % size
  <1>2. r \in 0 .. size - 1
    BY <1>1
  <1>3. Slot(i, k) = IF k < size - r THEN r + k ELSE k - (size - r)
    BY DEF Slot
  <1>. HIDE DEF r
  <1>. QED BY <1>2, <1>3

------------------------------------------------------------------------------
(***************************************************************************)
(* One reader and one writer without a lock.  WithinBounds is inductive    *)
(* together with the types: the room a put sampled can only grow and the   *)
(* bytes a get sampled can only become more, because each side moves its   *)
(* own index alone.                                                        *)
(***************************************************************************)
IInv == TypeOK /\ WithinBounds

LEMMA InitInv == Init => IInv
  <1>. SUFFICES ASSUME Init PROVE IInv
    OBVIOUS
  <1>1. size \in Nat /\ Modulus \in Nat /\ size > 0 /\ 2 * size <= Modulus
    BY SizeFits DEF Init
  <1>2. kfifo_len = 0
    BY <1>1 DEF Init, kfifo_len, Wrap
  <1>. QED BY <1>1, <1>2 DEF Init, IInv, TypeOK, WithinBounds

LEMMA StepInv == IInv /\ [LockFreeNext]_vars => IInv'
  <1>. SUFFICES ASSUME IInv, [LockFreeNext]_vars PROVE IInv'
    OBVIOUS
  <1>. USE DEF IInv
  <1>1. size \in Nat /\ Modulus \in Nat /\ size > 0 /\ 2 * size <= Modulus
    BY SizeFits DEF TypeOK
  <1>2. /\ kfifo_len \in 0..size
        /\ kfifo_avail = size - kfifo_len
        /\ kfifo_avail \in 0..size
    BY <1>1, LenAvail DEF TypeOK, WithinBounds
  <1>3. CASE put_sample
    <2>0. PICK n \in 1..MaxLen : \E bytes \in [1..n -> Data] :
             wbytes' = SubSeq(bytes, 1, min(n, kfifo_avail))
      BY <1>3 DEF put_sample
    <2>1. PICK bytes \in [1..n -> Data] :
             wbytes' = SubSeq(bytes, 1, min(n, kfifo_avail))
      BY <2>0
    <2>2. /\ n \in Nat /\ min(n, kfifo_avail) \in Nat
          /\ min(n, kfifo_avail) <= n
          /\ min(n, kfifo_avail) <= kfifo_avail
      BY <1>2, MinBounds, MaxLenType
    <2>3. bytes \in Seq(Data) /\ Len(bytes) = n
      BY <2>2
    <2>4. wbytes' \in Seq(Data) /\ Len(wbytes') = min(n, kfifo_avail)
      BY <2>1, <2>2, <2>3
    <2>5. wdone = 0
      BY <1>3 DEF put_sample, TypeOK
    <2>6. UNCHANGED <<size, in, out, buffer, wdone, rlen, rbytes, given, got>>
      BY <1>3 DEF put_sample, fifoVars
    <2>7. kfifo_len' = kfifo_len
      BY <2>6 DEF kfifo_len, Wrap
    <2>8. TypeOK'
      BY <2>2, <2>4, <2>5, <2>6 DEF TypeOK
    <2>9. WithinBounds'
      BY <1>1, <1>2, <2>2, <2>4, <2>6, <2>7 DEF WithinBounds
    <2>. QED BY <2>8, <2>9
  <1>4. CASE put_copy
    <2>1. UNCHANGED <<size, in, out, wbytes, rlen, rbytes, given, got>>
      BY <1>4 DEF put_copy
    <2>2. wdone' \in 0..Len(wbytes)
      BY <1>4 DEF put_copy, TypeOK
    <2>3. wbytes[wdone + 1] \in Data
      BY <1>4 DEF put_copy, TypeOK
    <2>4. buffer' \in [0 .. size - 1 -> Data]
      BY <1>4, <2>3 DEF put_copy, TypeOK
    <2>5. kfifo_len' = kfifo_len
      BY <2>1 DEF kfifo_len, Wrap
    <2>6. TypeOK'
      BY <2>1, <2>2, <2>4 DEF TypeOK
    <2>. QED BY <2>1, <2>5, <2>6 DEF WithinBounds
  <1>5. CASE put_publish
    <2>1. /\ UNCHANGED <<size, out, buffer, rlen, rbytes, got>>
          /\ in' = Wrap(in + Len(wbytes)) /\ given' = wbytes
          /\ wbytes' = <<>> /\ wdone' = 0
      BY <1>5 DEF put_publish
    <2>2. Len(wbytes) \in Nat /\ kfifo_len + Len(wbytes) <= size
      BY <1>1, <1>2 DEF TypeOK, WithinBounds
    <2>3. in' \in 0 .. Modulus - 1 /\ kfifo_len' = kfifo_len + Len(wbytes)
      <3>1. kfifo_len + Len(wbytes) < Modulus
        BY <1>1, <1>2, <2>2
      <3>2. /\ Wrap(in + Len(wbytes)) \in 0 .. Modulus - 1
            /\ Wrap(Wrap(in + Len(wbytes)) - out) = kfifo_len + Len(wbytes)
        BY <1>1, <2>2, <3>1, MoveIn DEF TypeOK
      <3>3. kfifo_len' = Wrap(in' - out)
        BY <2>1 DEF kfifo_len, Wrap
      <3>. QED BY <2>1, <3>2, <3>3
    <2>4. TypeOK'
      BY <2>1, <2>3 DEF TypeOK
    <2>5. WithinBounds'
      BY <1>1, <1>2, <2>1, <2>2, <2>3 DEF WithinBounds, TypeOK
    <2>. QED BY <2>4, <2>5
  <1>6. CASE get_sample
    <2>1. PICK n \in 1..MaxLen : rlen' = min(n, kfifo_len)
      BY <1>6 DEF get_sample
    <2>2. rlen' \in Nat /\ rlen' <= kfifo_len
      BY <1>2, <2>1, MinBounds, MaxLenType
    <2>3. UNCHANGED <<size, in, out, buffer, wbytes, wdone, rbytes, given, got>>
      BY <1>6 DEF get_sample, fifoVars
    <2>4. Len(rbytes) = 0
      BY <1>6 DEF get_sample, TypeOK
    <2>5. kfifo_len' = kfifo_len
      BY <2>3 DEF kfifo_len, Wrap
    <2>6. TypeOK'
      BY <2>2, <2>3, <2>4 DEF TypeOK
    <2>. QED BY <2>2, <2>3, <2>5, <2>6 DEF WithinBounds
  <1>7. CASE get_copy
    <2>1. UNCHANGED <<size, in, out, buffer, wbytes, wdone, rlen, given, got>>
      BY <1>7 DEF get_copy, fifoVars
    <2>2. Len(rbytes) \in 0 .. size - 1
      BY <1>1, <1>2, <1>7 DEF get_copy, TypeOK, WithinBounds
    <2>3. Slot(out, Len(rbytes)) \in 0 .. size - 1
      <3>1. out \in Nat
        BY <1>1 DEF TypeOK
      <3>. QED BY <1>1, <2>2, <3>1, SlotInside
    <2>4. buffer[Slot(out, Len(rbytes))] \in Data
      BY <2>3 DEF TypeOK
    <2>5. rbytes' \in Seq(Data) /\ Len(rbytes') = Len(rbytes) + 1
      BY <1>7, <2>4 DEF get_copy, TypeOK
    <2>6. Len(rbytes') <= rlen
      BY <1>7, <2>2, <2>5 DEF get_copy, TypeOK
    <2>7. kfifo_len' = kfifo_len
      BY <2>1 DEF kfifo_len, Wrap
    <2>8. TypeOK'
      BY <2>1, <2>5, <2>6 DEF TypeOK
    <2>. QED BY <2>1, <2>7, <2>8 DEF WithinBounds
  <1>8. CASE get_publish
    <2>1. /\ UNCHANGED <<size, in, buffer, wbytes, wdone, given>>
          /\ out' = Wrap(out + rlen) /\ got' = rbytes
          /\ rlen' = 0 /\ rbytes' = <<>>
      BY <1>8 DEF get_publish
    <2>2. out' \in 0 .. Modulus - 1 /\ kfifo_len' = kfifo_len - rlen
      <3>1. /\ Wrap(out + rlen) \in 0 .. Modulus - 1
            /\ Wrap(in - Wrap(out + rlen)) = kfifo_len - rlen
        BY <1>1, MoveOut DEF TypeOK, WithinBounds
      <3>2. kfifo_len' = Wrap(in - out')
        BY <2>1 DEF kfifo_len, Wrap
      <3>. QED BY <2>1, <3>1, <3>2
    <2>3. TypeOK'
      BY <2>1, <2>2 DEF TypeOK
    <2>4. WithinBounds'
      BY <1>1, <1>2, <2>1, <2>2 DEF WithinBounds, TypeOK
    <2>. QED BY <2>3, <2>4
  <1>9. CASE UNCHANGED vars
    <2>1. UNCHANGED <<size, in, out, buffer, wbytes, wdone, rlen, rbytes, given, got>>
      BY <1>9 DEF vars, fifoVars
    <2>2. kfifo_len' = kfifo_len
      BY <2>1 DEF kfifo_len, Wrap
    <2>. QED BY <2>1, <2>2 DEF TypeOK, WithinBounds
  <1>. QED BY <1>3, <1>4, <1>5, <1>6, <1>7, <1>8, <1>9 DEF LockFreeNext

\* The inductive invariant of lock-free use.
THEOREM KfifoInvariant == Spec => []IInv
  BY InitInv, StepInv, PTL DEF Spec

\* Every variable keeps its type while __kfifo_put() and __kfifo_get() run
\* against each other; in particular what a get reads lies inside the buffer.
THEOREM KfifoTypeCorrect == Spec => []TypeOK
  BY KfifoInvariant, PTL DEF IInv

\* One reader and one writer need no lock: although fifo->in and fifo->out
\* wrap, they are never more than size apart, and neither side leaves the room
\* or the bytes that it sampled.
THEOREM KfifoWithinBounds == Spec => []WithinBounds
  BY KfifoInvariant, PTL DEF IInv

------------------------------------------------------------------------------
(***************************************************************************)
(* The bytes.  Index arithmetic modulo the size of the buffer commutes     *)
(* with the wrapping of the indices because the one divides the other.     *)
(***************************************************************************)

\* Quotient and remainder are unique.
LEMMA DivUnique ==
    ASSUME NEW s \in Nat, s > 0, NEW q \in Int, NEW p \in Int,
           NEW r \in 0 .. s - 1, NEW t \in 0 .. s - 1, q * s + r = p * s + t
    PROVE  r = t
  <1>1. (q - p) * s = t - r
    OBVIOUS
  <1>2. ~(q - p >= 1)
    <2>. SUFFICES ASSUME q - p >= 1 PROVE FALSE
      OBVIOUS
    <2>1. (q - p) * s >= s
      OBVIOUS
    <2>. QED BY <1>1, <2>1
  <1>3. ~(q - p <= -1)
    <2>. SUFFICES ASSUME q - p <= -1 PROVE FALSE
      OBVIOUS
    <2>1. (q - p) * s <= -s
      OBVIOUS
    <2>. QED BY <1>1, <2>1
  <1>4. q = p
    BY <1>2, <1>3
  <1>. QED BY <1>1, <1>4

\* Every number has a quotient and a remainder.
LEMMA DivMod ==
    ASSUME NEW s \in Nat, s > 0, NEW a \in Int
    PROVE  \E r \in 0 .. s - 1, q \in Int : r = a % s /\ a = q * s + r
  <1>1. a % s \in 0 .. s - 1
    OBVIOUS
  <1>2. a \div s \in Int
    OBVIOUS
  <1>3. a = (a \div s) * s + (a % s)
    OBVIOUS
  <1>. QED BY <1>1, <1>2, <1>3

\* A number below s that differs from a by a multiple of s is a % s.
LEMMA ModIs ==
    ASSUME NEW s \in Nat, s > 0, NEW q \in Int, NEW r \in 0 .. s - 1,
           NEW a \in Int, a = q * s + r
    PROVE  a % s = r
  BY DivMod, DivUnique

\* Moving an index by n bytes moves the place of every byte by n.
LEMMA SlotShift ==
    ASSUME size \in Nat, Modulus \in Nat, size > 0,
           NEW m \in Nat, Modulus = m * size,
           NEW i \in 0 .. Modulus - 1, NEW n \in Nat, NEW k \in Nat, n + k < size
    PROVE  Slot(Wrap(i + n), k) = Slot(i, n + k)
  <1>1. PICK r \in 0 .. size - 1, q \in Int : r = i % size /\ i = q * size + r
    <2>1. i \in Int
      OBVIOUS
    <2>. QED BY <2>1, DivMod
  <1>2. PICK t \in 0 .. size - 1, d \in {0, 1} :
           /\ t = IF r + n < size THEN r + n ELSE r + n - size
           /\ t = r + n - d * size
    <2>1. CASE r + n < size
      <3>1. r + n \in 0 .. size - 1 /\ r + n = r + n - 0 * size
        BY <2>1
      <3>. QED BY <2>1, <3>1
    <2>2. CASE ~(r + n < size)
      <3>1. r + n - size \in 0 .. size - 1 /\ r + n - size = r + n - 1 * size
        BY <2>2
      <3>. QED BY <2>2, <3>1
    <2>. QED BY <2>1, <2>2
  <1>3. PICK j \in Int, e \in {0, m} : j = Wrap(i + n) /\ j = i + n - e * size
    BY DEF Wrap
  <1>4. q - e + d \in Int /\ j = (q - e + d) * size + t
    <2>1. e \in Int /\ d \in Int
      BY <1>2, <1>3
    <2>2. (q - e + d) * size = q * size - e * size + d * size
      BY <2>1
    <2>3. PICK x, y, z \in Int : x = q * size /\ y = e * size /\ z = d * size
      BY <2>1
    <2>4. i = x + r /\ j = i + n - y /\ t = r + n - z
      BY <1>1, <1>2, <1>3, <2>3
    <2>5. j = (x - y + z) + t
      BY <2>3, <2>4
    <2>. QED BY <2>1, <2>2, <2>3, <2>5
  <1>5. j % size = t
    <2>1. PICK x \in Int : j = x * size + t
      BY <1>4
    <2>. QED BY <2>1, ModIs
  <1>6. Slot(j, k) = IF k < size - t THEN t + k ELSE k - (size - t)
    BY <1>5 DEF Slot
  <1>7. Slot(i, n + k) = IF n + k < size - r THEN r + (n + k) ELSE (n + k) - (size - r)
    BY <1>1 DEF Slot
  <1>. QED BY <1>2, <1>3, <1>6, <1>7

\* Different bytes have different places.
LEMMA SlotInjective ==
    ASSUME size \in Nat, size > 0, NEW i \in Nat,
           NEW a \in 0 .. size - 1, NEW b \in 0 .. size - 1, Slot(i, a) = Slot(i, b)
    PROVE  a = b
  <1>1. PICK r \in 0 .. size - 1 : r = i % size
    OBVIOUS
  <1>2. PICK x \in Int : /\ x = IF a < size - r THEN r + a ELSE a - (size - r)
                         /\ x = IF b < size - r THEN r + b ELSE b - (size - r)
    <2>1. Slot(i, a) = IF a < size - r THEN r + a ELSE a - (size - r)
      BY <1>1 DEF Slot
    <2>2. Slot(i, b) = IF b < size - r THEN r + b ELSE b - (size - r)
      BY <1>1 DEF Slot
    <2>3. Slot(i, a) \in Int
      BY <2>1
    <2>. QED BY <2>1, <2>2, <2>3
  <1>. QED BY <1>2

\* What the invariant says of the shape of the FIFO, in one place.
LEMMA Shape ==
    ASSUME IInv
    PROVE  /\ size \in Nat /\ Modulus \in Nat /\ size > 0 /\ 2 * size <= Modulus
           /\ in \in 0 .. Modulus - 1 /\ out \in 0 .. Modulus - 1
           /\ in \in Nat /\ out \in Nat
           /\ kfifo_len \in 0..size
           /\ in = Wrap(out + kfifo_len)
  <1>1. /\ size \in Nat /\ Modulus \in Nat /\ size > 0 /\ 2 * size <= Modulus
    BY SizeFits DEF IInv, TypeOK
  <1>2. in \in 0 .. Modulus - 1 /\ out \in 0 .. Modulus - 1 /\ kfifo_len <= size
    BY DEF IInv, TypeOK, WithinBounds
  <1>3. kfifo_len \in 0..size
    BY <1>1, <1>2, LenAvail
  <1>4. in = Wrap(out + kfifo_len)
    BY <1>1, <1>2 DEF kfifo_len, Wrap
  <1>. QED BY <1>1, <1>2, <1>3, <1>4

\* The size divides the range of the indices.
LEMMA ShapeDivides ==
    ASSUME IInv
    PROVE  \E m \in Nat : Modulus = m * size
  <1>1. Modulus \in Nat /\ size \in {roundup_pow_of_two(n) : n \in Sizes}
    BY Shape DEF IInv, TypeOK
  <1>2. PICK m \in 2..Modulus : Modulus = m * size
    BY <1>1, SizeDivides
  <1>3. m \in Nat
    BY <1>1
  <1>. QED BY <1>2, <1>3

\* What it says of the calls under way.
LEMMA Extents ==
    ASSUME IInv
    PROVE  /\ wdone \in Nat /\ Len(wbytes) \in Nat /\ wdone <= Len(wbytes)
           /\ kfifo_len + Len(wbytes) <= size
           /\ rlen \in Nat /\ Len(rbytes) \in Nat /\ Len(rbytes) <= rlen
           /\ rlen <= kfifo_len
  <1>1. size \in Nat /\ kfifo_len \in 0..size
    BY Shape
  <1>. QED BY <1>1 DEF IInv, TypeOK, WithinBounds

\* The k-th free byte follows the bytes inside.
LEMMA FreeSlot ==
    ASSUME IInv, NEW k \in Nat, kfifo_len + k < size
    PROVE  Slot(in, k) = Slot(out, kfifo_len + k)
  <1>1. PICK m \in Nat : Modulus = m * size
    BY ShapeDivides
  <1>2. /\ size \in Nat /\ Modulus \in Nat /\ size > 0 /\ kfifo_len \in Nat
        /\ out \in 0 .. Modulus - 1 /\ in = Wrap(out + kfifo_len)
    BY Shape
  <1>3. Slot(Wrap(out + kfifo_len), k) = Slot(out, kfifo_len + k)
    BY <1>1, <1>2, SlotShift
  <1>. QED BY <1>2, <1>3

\* The bytes inside, as a sequence.
LEMMA ContentsSeq ==
    ASSUME IInv
    PROVE  /\ Contents \in Seq(Data)
           /\ Len(Contents) = kfifo_len
           /\ \A k \in 1..kfifo_len : Contents[k] = buffer[Slot(out, k - 1)]
  <1>1. \A k \in 1..kfifo_len : buffer[Slot(out, k - 1)] \in Data
    <2>. TAKE k \in 1..kfifo_len
    <2>1. k - 1 \in 0 .. size - 1
      BY Shape
    <2>2. Slot(out, k - 1) \in 0 .. size - 1
      BY <2>1, Shape, SlotInside
    <2>. QED BY <2>2 DEF IInv, TypeOK
  <1>2. kfifo_len \in Nat
    BY Shape
  <1>. QED BY <1>1, <1>2 DEF Contents

\* What the reader has copied is the front of the FIFO.
FrontCopied == \A k \in 0 .. Len(rbytes) - 1 : rbytes[k + 1] = buffer[Slot(out, k)]

\* What the writer has copied lies behind the last byte inside.
BackWritten == \A k \in 0 .. wdone - 1 : buffer[Slot(in, k)] = wbytes[k + 1]

\* While bytes remain to be copied there is room for one more.
LEMMA RoomLeft ==
    ASSUME IInv, put_copy
    PROVE  wdone \in Nat /\ kfifo_len + wdone < size
  <1>1. size \in Nat /\ kfifo_len \in Nat
    BY Shape
  <1>2. /\ wdone \in Nat /\ Len(wbytes) \in Nat
        /\ kfifo_len + Len(wbytes) <= size
    BY Extents
  <1>3. wdone < Len(wbytes)
    BY DEF put_copy
  <1>. QED BY <1>1, <1>2, <1>3

\* A byte that the writer copies falls on none of the bytes inside.
LEMMA CopyOutside ==
    ASSUME IInv, put_copy, NEW k \in 0 .. kfifo_len - 1
    PROVE  buffer'[Slot(out, k)] = buffer[Slot(out, k)]
  <1>1. wdone \in Nat /\ kfifo_len + wdone < size
    BY RoomLeft
  <1>2. Slot(in, wdone) = Slot(out, kfifo_len + wdone)
    BY <1>1, FreeSlot
  <1>3. k \in 0 .. size - 1 /\ kfifo_len + wdone \in 0 .. size - 1
        /\ k # kfifo_len + wdone
    BY <1>1, Shape
  <1>4. Slot(out, k) # Slot(in, wdone)
    <2>1. size \in Nat /\ size > 0 /\ out \in Nat
      BY Shape
    <2>2. Slot(out, k) # Slot(out, kfifo_len + wdone)
      BY <1>3, <2>1, SlotInjective
    <2>. QED BY <1>2, <2>2
  <1>5. Slot(out, k) \in 0 .. size - 1
    BY <1>3, Shape, SlotInside
  <1>. QED BY <1>4, <1>5 DEF put_copy, IInv, TypeOK

LEMMA StepCopies ==
    ASSUME IInv, FrontCopied, BackWritten, [LockFreeNext]_vars
    PROVE  FrontCopied' /\ BackWritten'
  <1>1. CASE put_sample
    <2>1. UNCHANGED <<size, in, out, buffer, wdone, rbytes>>
      BY <1>1 DEF put_sample, fifoVars
    <2>2. wdone = 0
      BY <1>1 DEF put_sample, IInv, TypeOK
    <2>. QED BY <2>1, <2>2 DEF FrontCopied, BackWritten, Slot
  <1>2. CASE put_copy
    <2>1. UNCHANGED <<size, in, out, wbytes, rlen, rbytes>> /\ wdone' = wdone + 1
      BY <1>2 DEF put_copy
    <2>2. \A k \in 0 .. kfifo_len - 1 : buffer'[Slot(out, k)] = buffer[Slot(out, k)]
      BY <1>2, CopyOutside
    <2>3. Len(rbytes) \in Nat /\ Len(rbytes) <= kfifo_len
      BY Shape, Extents
    <2>4. FrontCopied'
      <3>1. ASSUME NEW k \in 0 .. Len(rbytes) - 1
            PROVE  rbytes[k + 1] = buffer'[Slot(out, k)]
        <4>1. k \in 0 .. kfifo_len - 1
          BY <2>3, Shape
        <4>. QED BY <2>2, <4>1 DEF FrontCopied
      <3>. QED BY <2>1, <3>1 DEF FrontCopied, Slot
    <2>5. ASSUME NEW k \in 0..wdone PROVE buffer'[Slot(in, k)] = wbytes[k + 1]
      <3>1. wdone \in Nat /\ kfifo_len + wdone < size
        BY <1>2, RoomLeft
      <3>2. k \in 0 .. size - 1 /\ wdone \in 0 .. size - 1
        BY <3>1, Shape
      <3>3. Slot(in, k) \in 0 .. size - 1 /\ Slot(in, wdone) \in 0 .. size - 1
        BY <3>2, Shape, SlotInside
      <3>4. buffer' = [buffer EXCEPT ![Slot(in, wdone)] = wbytes[wdone + 1]]
        BY <1>2 DEF put_copy
      <3>5. CASE k = wdone
        BY <3>3, <3>4, <3>5 DEF IInv, TypeOK
      <3>6. CASE k # wdone
        <4>1. k \in 0 .. wdone - 1
          BY <3>1, <3>6
        <4>2. Slot(in, k) # Slot(in, wdone)
          <5>1. size \in Nat /\ size > 0 /\ in \in Nat
            BY Shape
          <5>. QED BY <3>2, <3>6, <5>1, SlotInjective
        <4>3. buffer'[Slot(in, k)] = buffer[Slot(in, k)]
          BY <3>3, <3>4, <4>2 DEF IInv, TypeOK
        <4>. QED BY <4>1, <4>3 DEF BackWritten
      <3>. QED BY <3>5, <3>6
    <2>6. BackWritten'
      <3>1. wdone \in Nat
        BY DEF IInv, TypeOK
      <3>. QED BY <2>1, <2>5, <3>1 DEF BackWritten, Slot
    <2>. QED BY <2>4, <2>6
  <1>3. CASE put_publish
    BY <1>3 DEF put_publish, FrontCopied, BackWritten, Slot
  <1>4. CASE get_sample
    BY <1>4 DEF get_sample, fifoVars, FrontCopied, BackWritten, Slot
  <1>5. CASE get_copy
    <2>1. UNCHANGED <<size, in, out, buffer, wbytes, wdone>>
      BY <1>5 DEF get_copy, fifoVars
    <2>2. Len(rbytes) \in 0 .. size - 1
      BY <1>5, Shape, Extents DEF get_copy
    <2>3. buffer[Slot(out, Len(rbytes))] \in Data
      <3>1. Slot(out, Len(rbytes)) \in 0 .. size - 1
        BY <2>2, Shape, SlotInside
      <3>. QED BY <3>1 DEF IInv, TypeOK
    <2>4. /\ rbytes \in Seq(Data)
          /\ rbytes' = Append(rbytes, buffer[Slot(out, Len(rbytes))])
      BY <1>5 DEF get_copy, IInv, TypeOK
    <2>5. \A k \in 0 .. Len(rbytes') - 1 : rbytes'[k + 1] = buffer[Slot(out, k)]
      <3>1. /\ Len(rbytes') = Len(rbytes) + 1 /\ Len(rbytes) \in Nat
            /\ rbytes'[Len(rbytes) + 1] = buffer[Slot(out, Len(rbytes))]
            /\ \A k \in 1..Len(rbytes) : rbytes'[k] = rbytes[k]
        BY <2>3, <2>4
      <3>. TAKE k \in 0 .. Len(rbytes') - 1
      <3>2. CASE k = Len(rbytes)
        BY <3>1, <3>2
      <3>3. CASE k # Len(rbytes)
        <4>1. k \in 0 .. Len(rbytes) - 1 /\ k + 1 \in 1..Len(rbytes)
          BY <3>1, <3>3
        <4>. QED BY <3>1, <4>1 DEF FrontCopied
      <3>. QED BY <3>2, <3>3
    <2>. QED BY <2>1, <2>5 DEF FrontCopied, BackWritten, Slot
  <1>6. CASE get_publish
    BY <1>6 DEF get_publish, FrontCopied, BackWritten, Slot
  <1>7. CASE UNCHANGED vars
    BY <1>7 DEF vars, fifoVars, FrontCopied, BackWritten, Slot
  <1>. QED BY <1>1, <1>2, <1>3, <1>4, <1>5, <1>6, <1>7 DEF LockFreeNext

\* The inductive invariant that speaks of the bytes as well.
CInv == IInv /\ FrontCopied /\ BackWritten

LEMMA CopyInvariant == Spec => []CInv
  <1>1. Init => CInv
    BY InitInv DEF Init, CInv, FrontCopied, BackWritten
  <1>2. CInv /\ [LockFreeNext]_vars => CInv'
    BY StepInv, StepCopies DEF CInv
  <1>. QED BY <1>1, <1>2, PTL DEF Spec

\* The elementwise form gives the one about sequences.
LEMMA FrontIntact == CInv => CopyIntact
  <1>. SUFFICES ASSUME CInv PROVE CopyIntact
    OBVIOUS
  <1>. USE DEF CInv
  <1>1. /\ Contents \in Seq(Data)
        /\ Len(Contents) = kfifo_len
        /\ \A k \in 1..kfifo_len : Contents[k] = buffer[Slot(out, k - 1)]
    BY ContentsSeq
  <1>2. /\ rbytes \in Seq(Data) /\ Len(rbytes) \in Nat
        /\ Len(rbytes) <= kfifo_len /\ kfifo_len \in Nat
    <2>1. rbytes \in Seq(Data)
      BY DEF IInv, TypeOK
    <2>. QED BY <2>1, Shape, Extents
  <1>3. /\ SubSeq(Contents, 1, Len(rbytes)) \in Seq(Data)
        /\ Len(SubSeq(Contents, 1, Len(rbytes))) = Len(rbytes)
        /\ \A k \in 1..Len(rbytes) : SubSeq(Contents, 1, Len(rbytes))[k] = Contents[k]
    BY <1>1, <1>2
  <1>4. \A k \in 1..Len(rbytes) : rbytes[k] = Contents[k]
    <2>. TAKE k \in 1..Len(rbytes)
    <2>1. k - 1 \in 0 .. Len(rbytes) - 1 /\ (k - 1) + 1 = k /\ k \in 1..kfifo_len
      BY <1>2
    <2>. QED BY <1>1, <2>1 DEF FrontCopied
  <1>. QED BY <1>2, <1>3, <1>4, SeqEqual DEF CopyIntact

\* While the reader copies, the writer who copies at the same time touches
\* none of the bytes the reader takes: __kfifo_get() returns the front.
THEOREM KfifoCopyIntact == Spec => []CopyIntact
  BY FrontIntact, CopyInvariant, PTL

------------------------------------------------------------------------------
(***************************************************************************)
(* Lock-free use implements the bounded byte queue.  Publishing fifo->in   *)
(* is the queue's Put, publishing fifo->out its Get; every other step      *)
(* leaves the queue alone.                                                 *)
(***************************************************************************)
LEMMA ContentsSame ==
    ASSUME IInv, IInv', UNCHANGED <<size, in, out>>,
           \A k \in 0 .. kfifo_len - 1 : buffer'[Slot(out, k)] = buffer[Slot(out, k)]
    PROVE  Contents' = Contents
  <1>1. kfifo_len' = kfifo_len
    BY DEF kfifo_len, Wrap
  <1>2. \A k \in 1..kfifo_len : buffer'[Slot(out, k - 1)] = buffer[Slot(out, k - 1)]
    <2>. TAKE k \in 1..kfifo_len
    <2>1. k - 1 \in 0 .. kfifo_len - 1
      BY Shape
    <2>. QED BY <2>1
  <1>3. Contents' = [k \in 1..kfifo_len |-> buffer'[Slot(out, k - 1)]]
    BY <1>1 DEF Contents, Slot
  <1>. QED BY <1>2, <1>3 DEF Contents

\* Bytes that are written behind the last byte inside and announced by moving
\* fifo->in are appended.
LEMMA MovedInPuts ==
    ASSUME IInv, UNCHANGED <<size, out>>,
           NEW bytes \in Seq(Data), kfifo_len + Len(bytes) <= size,
           in' = Wrap(in + Len(bytes)),
           \A k \in 0 .. kfifo_len - 1 : buffer'[Slot(out, k)] = buffer[Slot(out, k)],
           \A k \in 0 .. Len(bytes) - 1 : buffer'[Slot(in, k)] = bytes[k + 1]
    PROVE  Contents' = Contents \o bytes
  <1>1. /\ size \in Nat /\ Modulus \in Nat /\ 2 * size <= Modulus
        /\ in \in 0 .. Modulus - 1 /\ out \in 0 .. Modulus - 1
        /\ kfifo_len \in Nat /\ Len(bytes) \in Nat /\ size > 0
    BY Shape
  <1>2. kfifo_len' = kfifo_len + Len(bytes)
    <2>1. kfifo_len + Len(bytes) < Modulus
      BY <1>1
    <2>2. Wrap(Wrap(in + Len(bytes)) - out) = kfifo_len + Len(bytes)
      BY <1>1, <2>1, MoveIn
    <2>3. kfifo_len' = Wrap(in' - out)
      BY DEF kfifo_len, Wrap
    <2>. QED BY <2>2, <2>3
  <1>3. /\ Contents \in Seq(Data) /\ Len(Contents) = kfifo_len
        /\ \A k \in 1..kfifo_len : Contents[k] = buffer[Slot(out, k - 1)]
    BY ContentsSeq
  <1>4. Contents' = [k \in 1 .. kfifo_len + Len(bytes) |-> buffer'[Slot(out, k - 1)]]
    BY <1>2 DEF Contents, Slot
  <1>5. /\ Contents \o bytes \in Seq(Data)
        /\ Len(Contents \o bytes) = kfifo_len + Len(bytes)
        /\ \A k \in 1 .. kfifo_len + Len(bytes) :
              (Contents \o bytes)[k] =
                  IF k <= kfifo_len THEN Contents[k] ELSE bytes[k - kfifo_len]
    BY <1>3, ConcatProperties
  <1>6. ASSUME NEW k \in 1 .. kfifo_len + Len(bytes)
        PROVE  (Contents \o bytes)[k] = buffer'[Slot(out, k - 1)]
    <2>1. CASE k <= kfifo_len
      <3>1. k \in 1..kfifo_len /\ k - 1 \in 0 .. kfifo_len - 1
        BY <1>1, <2>1
      <3>2. buffer'[Slot(out, k - 1)] = buffer[Slot(out, k - 1)]
        BY <3>1
      <3>. QED BY <1>3, <1>5, <2>1, <3>1, <3>2
    <2>2. CASE ~(k <= kfifo_len)
      <3>1. PICK j \in Nat : j = k - kfifo_len - 1
        BY <1>1, <2>2
      <3>2. /\ j \in 0 .. Len(bytes) - 1 /\ j + 1 = k - kfifo_len
            /\ kfifo_len + j < size /\ kfifo_len + j = k - 1
        BY <1>1, <2>2, <3>1
      <3>3. Slot(in, j) = Slot(out, kfifo_len + j)
        BY <3>2, FreeSlot
      <3>4. buffer'[Slot(in, j)] = bytes[j + 1]
        BY <3>2
      <3>5. (Contents \o bytes)[k] = bytes[k - kfifo_len]
        BY <1>5, <2>2
      <3>. QED BY <3>2, <3>3, <3>4, <3>5
    <2>. QED BY <2>1, <2>2
  <1>7. PICK all \in Seq(Data) : all = Contents \o bytes
    BY <1>5
  <1>8. Len(all) = kfifo_len + Len(bytes) /\ all = [k \in 1..Len(all) |-> all[k]]
    <2>1. Len(all) = kfifo_len + Len(bytes)
      BY <1>5, <1>7
    <2>2. all \in [1..Len(all) -> Data]
      BY LenProperties
    <2>. QED BY <2>1, <2>2
  <1>9. \A k \in 1..Len(all) : all[k] = buffer'[Slot(out, k - 1)]
    BY <1>6, <1>7, <1>8
  <1>10. Contents' = all
    BY <1>4, <1>8, <1>9
  <1>. QED BY <1>7, <1>10

\* put_publish appends the bytes it announces.
LEMMA PublishPuts ==
    ASSUME CInv, put_publish
    PROVE  Contents' = Contents \o wbytes
  <1>1. /\ UNCHANGED <<size, out, buffer>> /\ wdone = Len(wbytes)
        /\ in' = Wrap(in + Len(wbytes)) /\ IInv
    BY DEF put_publish, CInv
  <1>2. wbytes \in Seq(Data) /\ kfifo_len + Len(wbytes) <= size
    BY <1>1, Extents DEF IInv, TypeOK
  <1>3. \A k \in 0 .. Len(wbytes) - 1 : buffer'[Slot(in, k)] = wbytes[k + 1]
    BY <1>1 DEF CInv, BackWritten
  <1>. QED BY <1>1, <1>2, <1>3, MovedInPuts

\* Moving fifo->out over the first len bytes removes them.
LEMMA MovedOutGets ==
    ASSUME IInv, UNCHANGED <<size, in, buffer>>,
           NEW len \in Nat, len <= kfifo_len, out' = Wrap(out + len)
    PROVE  Contents' = SubSeq(Contents, len + 1, Len(Contents))
  <1>1. /\ size \in Nat /\ Modulus \in Nat /\ size > 0
        /\ in \in 0 .. Modulus - 1 /\ out \in 0 .. Modulus - 1
        /\ kfifo_len \in Nat /\ kfifo_len <= size
    BY Shape
  <1>2. kfifo_len' = kfifo_len - len
    <2>1. Wrap(in - Wrap(out + len)) = kfifo_len - len
      BY <1>1, MoveOut
    <2>2. kfifo_len' = Wrap(in - out')
      BY DEF kfifo_len, Wrap
    <2>. QED BY <2>1, <2>2
  <1>3. /\ Contents \in Seq(Data) /\ Len(Contents) = kfifo_len
        /\ \A k \in 1..kfifo_len : Contents[k] = buffer[Slot(out, k - 1)]
    BY ContentsSeq
  <1>4. Contents' = [k \in 1 .. kfifo_len - len |-> buffer[Slot(out', k - 1)]]
    BY <1>2 DEF Contents, Slot
  <1>5. /\ SubSeq(Contents, len + 1, kfifo_len) \in Seq(Data)
        /\ Len(SubSeq(Contents, len + 1, kfifo_len)) = kfifo_len - len
        /\ \A k \in 1 .. kfifo_len - len :
              SubSeq(Contents, len + 1, kfifo_len)[k] = Contents[len + k]
    <2>1. /\ len + 1 \in Int /\ kfifo_len \in Int /\ kfifo_len - (len + 1) + 1 = kfifo_len - len
          /\ \A k \in len + 1 .. kfifo_len : k \in 1..kfifo_len
          /\ \A k \in 1 .. kfifo_len - len : (len + 1) + k - 1 = len + k
      BY <1>1
    <2>2. \A k \in len + 1 .. kfifo_len : Contents[k] \in Data
      BY <1>3, <2>1
    <2>3. /\ SubSeq(Contents, len + 1, kfifo_len) \in Seq(Data)
          /\ Len(SubSeq(Contents, len + 1, kfifo_len))
                = IF len + 1 <= kfifo_len THEN kfifo_len - (len + 1) + 1 ELSE 0
          /\ \A k \in 1 .. kfifo_len - (len + 1) + 1 :
                SubSeq(Contents, len + 1, kfifo_len)[k] = Contents[(len + 1) + k - 1]
      BY <2>1, <2>2, SubSeqProperties
    <2>4. Len(SubSeq(Contents, len + 1, kfifo_len)) = kfifo_len - len
      BY <1>1, <2>3
    <2>5. \A k \in 1 .. kfifo_len - len :
             SubSeq(Contents, len + 1, kfifo_len)[k] = Contents[len + k]
      BY <2>1, <2>3
    <2>. QED BY <2>3, <2>4, <2>5
  <1>6. ASSUME NEW k \in 1 .. kfifo_len - len
        PROVE  Contents[len + k] = buffer[Slot(out', k - 1)]
    <2>1. PICK m \in Nat : Modulus = m * size
      BY ShapeDivides
    <2>2. k - 1 \in Nat /\ len + (k - 1) < size /\ len + (k - 1) = (len + k) - 1
          /\ len + k \in 1..kfifo_len
      BY <1>1
    <2>3. Slot(Wrap(out + len), k - 1) = Slot(out, len + (k - 1))
      BY <1>1, <2>1, <2>2, SlotShift
    <2>. QED BY <1>3, <2>2, <2>3
  <1>7. SubSeq(Contents, len + 1, kfifo_len) =
           [k \in 1 .. kfifo_len - len |-> SubSeq(Contents, len + 1, kfifo_len)[k]]
    BY <1>5
  <1>8. Contents' = SubSeq(Contents, len + 1, kfifo_len)
    BY <1>4, <1>5, <1>6, <1>7
  <1>. QED BY <1>3, <1>8

\* get_publish removes the bytes it returns, and they are the front.
LEMMA PublishGets ==
    ASSUME CInv, get_publish
    PROVE  /\ rlen \in 0..Len(Contents)
           /\ got' = SubSeq(Contents, 1, rlen)
           /\ Contents' = SubSeq(Contents, rlen + 1, Len(Contents))
  <1>1. /\ UNCHANGED <<size, in, buffer>> /\ got' = rbytes /\ Len(rbytes) = rlen
        /\ out' = Wrap(out + rlen) /\ IInv
    BY DEF get_publish, CInv
  <1>2. kfifo_len \in Nat /\ rlen \in Nat /\ rlen <= kfifo_len /\ Len(Contents) = kfifo_len
    BY <1>1, Shape, Extents, ContentsSeq
  <1>3. got' = SubSeq(Contents, 1, rlen)
    BY <1>1, FrontIntact DEF CopyIntact
  <1>4. Contents' = SubSeq(Contents, rlen + 1, Len(Contents))
    BY <1>1, <1>2, MovedOutGets
  <1>. QED BY <1>2, <1>3, <1>4

\* Every step of lock-free use is a step of the queue, or none.
LEMMA StepQueues ==
    ASSUME CInv, CInv', [LockFreeNext]_vars
    PROVE  [Queue!Next]_(Queue!vars)
  <1>. USE DEF CInv
  <1>1. CASE put_publish
    <2>1. Contents' = Contents \o wbytes /\ given' = wbytes /\ UNCHANGED <<size, got>>
      BY <1>1, PublishPuts DEF put_publish
    <2>2. Len(wbytes) \in 0 .. size - Len(Contents) /\ wbytes \in [1..Len(wbytes) -> Data]
      <3>1. wbytes \in Seq(Data)
        BY DEF IInv, TypeOK
      <3>2. wbytes \in [1..Len(wbytes) -> Data]
        BY <3>1
      <3>3. size \in Nat /\ kfifo_len \in 0..size
        BY Shape
      <3>4. Len(wbytes) \in Nat /\ kfifo_len + Len(wbytes) <= size
        BY Extents
      <3>5. Len(wbytes) \in 0 .. size - kfifo_len
        BY <3>3, <3>4
      <3>. QED BY <3>2, <3>5, ContentsSeq
    <2>. QED BY <2>1, <2>2 DEF Queue!Next, Queue!Put
  <1>2. CASE get_publish
    <2>1. UNCHANGED <<size, given>>
      BY <1>2 DEF get_publish
    <2>. QED BY <1>2, <2>1, PublishGets DEF Queue!Next, Queue!Get
  <1>3. CASE put_copy
    <2>1. UNCHANGED <<size, in, out, given, got>>
      BY <1>3 DEF put_copy
    <2>2. Contents' = Contents
      BY <1>3, <2>1, CopyOutside, ContentsSame
    <2>. QED BY <2>1, <2>2 DEF Queue!vars
  <1>4. CASE put_sample \/ get_sample \/ get_copy \/ UNCHANGED vars
    <2>1. UNCHANGED <<size, in, out, buffer, given, got>>
      BY <1>4 DEF put_sample, get_sample, get_copy, vars, fifoVars
    <2>2. Contents' = Contents
      BY <2>1, ContentsSame
    <2>. QED BY <2>1, <2>2 DEF Queue!vars
  <1>. QED BY <1>1, <1>2, <1>3, <1>4 DEF LockFreeNext

\* kfifo_alloc() makes an empty queue.
LEMMA InitQueues == Init => Queue!Init
  <1>. SUFFICES ASSUME Init PROVE Queue!Init
    OBVIOUS
  <1>1. IInv /\ kfifo_len = 0
    BY InitInv, SizeFits DEF Init, kfifo_len, Wrap
  <1>2. Contents = <<>>
    BY <1>1 DEF Contents
  <1>3. size \in 1..Modulus
    BY <1>1, Shape
  <1>. QED BY <1>2, <1>3 DEF Queue!Init, Init

\* __kfifo_put() and __kfifo_get(), run against each other by one writer and
\* one reader, are a bounded queue of bytes: nothing is lost, repeated,
\* reordered or torn, whatever the size and however often the indices wrap.
THEOREM KfifoIsQueue == Spec => QueueSpec
  BY InitQueues, StepQueues, CopyInvariant, PTL DEF Spec, QueueSpec, Queue!Spec

------------------------------------------------------------------------------
(***************************************************************************)
(* The calls that take fifo->lock.  No lock-free call is under way.        *)
(***************************************************************************)
LockedInv == IInv /\ wbytes = <<>> /\ rlen = 0

\* kfifo_put() writes the bytes it takes behind the last byte inside, over
\* none of those.
LEMMA LockedPut ==
    ASSUME IInv, kfifo_put
    PROVE  \E bytes \in Seq(Data) :
              /\ kfifo_len + Len(bytes) <= size
              /\ in' = Wrap(in + Len(bytes)) /\ given' = bytes
              /\ buffer' \in [0 .. size - 1 -> Data]
              /\ \A k \in 0 .. kfifo_len - 1 : buffer'[Slot(out, k)] = buffer[Slot(out, k)]
              /\ \A k \in 0 .. Len(bytes) - 1 : buffer'[Slot(in, k)] = bytes[k + 1]
  <1>1. /\ size \in Nat /\ Modulus \in Nat /\ size > 0 /\ 2 * size <= Modulus
        /\ in \in Nat /\ out \in Nat /\ in \in 0 .. Modulus - 1 /\ out \in 0 .. Modulus - 1
        /\ kfifo_len \in 0..size
    BY Shape
  <1>2. kfifo_avail = size - kfifo_len /\ kfifo_avail \in Nat
    BY <1>1, LenAvail
  <1>3. PICK n \in 1..MaxLen, arg \in Seq(Data) :
           /\ Len(arg) = n
           /\ buffer' = [s \in 0 .. size - 1 |->
                            IF \E k \in 0 .. min(n, kfifo_avail) - 1 : Slot(in, k) = s
                            THEN arg[1 + CHOOSE k \in 0 .. min(n, kfifo_avail) - 1 :
                                            Slot(in, k) = s]
                            ELSE buffer[s]]
           /\ in' = Wrap(in + min(n, kfifo_avail))
           /\ given' = SubSeq(arg, 1, min(n, kfifo_avail))
    <2>1. PICK n \in 1..MaxLen : \E arg \in [1..n -> Data] :
             /\ buffer' = [s \in 0 .. size - 1 |->
                              IF \E k \in 0 .. min(n, kfifo_avail) - 1 : Slot(in, k) = s
                              THEN arg[1 + CHOOSE k \in 0 .. min(n, kfifo_avail) - 1 :
                                              Slot(in, k) = s]
                              ELSE buffer[s]]
             /\ in' = Wrap(in + min(n, kfifo_avail))
             /\ given' = SubSeq(arg, 1, min(n, kfifo_avail))
      BY DEF kfifo_put
    <2>2. \A arg \in [1..n -> Data] : arg \in Seq(Data) /\ Len(arg) = n
      BY MaxLenType
    <2>. QED BY <2>1, <2>2
  <1>4. PICK len \in Nat : len = min(n, kfifo_avail)
    BY <1>2, MaxLenType, MinBounds
  <1>5. len <= n /\ len <= kfifo_avail /\ n \in Nat /\ kfifo_len + len <= size
    <2>1. n \in Nat
      BY MaxLenType
    <2>2. len <= n /\ len <= kfifo_avail
      BY <1>2, <1>4, <2>1, MinBounds
    <2>. QED BY <1>1, <1>2, <2>1, <2>2
  <1>6. PICK bytes \in Seq(Data) :
           bytes = SubSeq(arg, 1, len) /\ Len(bytes) = len /\ \A k \in 1..len : bytes[k] = arg[k]
    <2>1. Len(arg) = n /\ len <= Len(arg)
      BY <1>3, <1>5
    <2>2. /\ SubSeq(arg, 1, len) \in Seq(Data) /\ Len(SubSeq(arg, 1, len)) = len
          /\ \A k \in 1..len : SubSeq(arg, 1, len)[k] = arg[k]
      BY <2>1
    <2>. QED BY <2>2
  <1>7. buffer' = [s \in 0 .. size - 1 |->
                      IF \E k \in 0 .. len - 1 : Slot(in, k) = s
                      THEN arg[1 + CHOOSE k \in 0 .. len - 1 : Slot(in, k) = s]
                      ELSE buffer[s]]
    BY <1>3, <1>4
  <1>8. \A k \in 0 .. len - 1 : k \in 0 .. size - 1 /\ 1 + k \in 1..len /\ kfifo_len + k < size
    BY <1>1, <1>5
  <1>9. ASSUME NEW s \in 0 .. size - 1, NEW k \in 0 .. len - 1, Slot(in, k) = s
        PROVE  buffer'[s] = bytes[k + 1]
    <2>1. PICK j : j = CHOOSE i \in 0 .. len - 1 : Slot(in, i) = s
      OBVIOUS
    <2>2. j \in 0 .. len - 1 /\ Slot(in, j) = s
      BY <1>9, <2>1
    <2>3. j = k
      BY <1>1, <1>8, <1>9, <2>2, SlotInjective
    <2>4. buffer'[s] = arg[1 + j]
      BY <1>7, <1>9, <2>1
    <2>. QED BY <1>6, <1>8, <2>3, <2>4
  <1>10. ASSUME NEW s \in 0 .. size - 1, \A k \in 0 .. len - 1 : Slot(in, k) # s
         PROVE  buffer'[s] = buffer[s]
    BY <1>7, <1>10
  <1>11. buffer' \in [0 .. size - 1 -> Data]
    <2>1. \A s \in 0 .. size - 1 : buffer'[s] \in Data
      <3>. TAKE s \in 0 .. size - 1
      <3>1. CASE \E k \in 0 .. len - 1 : Slot(in, k) = s
        <4>1. PICK k \in 0 .. len - 1 : Slot(in, k) = s
          BY <3>1
        <4>2. buffer'[s] = bytes[k + 1] /\ k + 1 \in 1..Len(bytes)
          BY <1>6, <1>8, <1>9, <4>1
        <4>. QED BY <4>2
      <3>2. CASE \A k \in 0 .. len - 1 : Slot(in, k) # s
        BY <1>10, <3>2 DEF IInv, TypeOK
      <3>. QED BY <3>1, <3>2
    <2>. QED BY <1>7, <2>1
  <1>12. \A k \in 0 .. len - 1 : buffer'[Slot(in, k)] = bytes[k + 1]
    BY <1>1, <1>8, <1>9, SlotInside
  <1>13. ASSUME NEW k \in 0 .. kfifo_len - 1
         PROVE  buffer'[Slot(out, k)] = buffer[Slot(out, k)]
    <2>1. k \in 0 .. size - 1
      BY <1>1
    <2>2. Slot(out, k) \in 0 .. size - 1
      BY <1>1, <2>1, SlotInside
    <2>3. ASSUME NEW j \in 0 .. len - 1
          PROVE  Slot(in, j) # Slot(out, k)
      <3>1. Slot(in, j) = Slot(out, kfifo_len + j)
        BY <1>8, FreeSlot
      <3>2. kfifo_len + j \in 0 .. size - 1 /\ kfifo_len + j # k
        BY <1>1, <1>8
      <3>. QED BY <1>1, <2>1, <3>1, <3>2, SlotInjective
    <2>. QED BY <1>10, <2>2, <2>3
  <1>14. in' = Wrap(in + len) /\ given' = bytes
    BY <1>3, <1>4, <1>6
  <1>. QED BY <1>5, <1>6, <1>11, <1>12, <1>13, <1>14

\* kfifo_get() returns the front and removes it, by moving fifo->out or by
\* starting again at index 0.
LEMMA LockedGet ==
    ASSUME IInv, kfifo_get
    PROVE  \E len \in 0..kfifo_len :
              /\ got' = SubSeq(Contents, 1, len)
              /\ \/ in' = in /\ out' = Wrap(out + len)
                 \/ in' = 0 /\ out' = 0 /\ len = kfifo_len
  <1>1. PICK n \in 1..MaxLen :
           /\ got' = [k \in 1..min(n, kfifo_len) |-> buffer[Slot(out, k - 1)]]
           /\ in' = IF in = Wrap(out + min(n, kfifo_len)) THEN 0 ELSE in
           /\ out' = IF in = Wrap(out + min(n, kfifo_len)) THEN 0
                     ELSE Wrap(out + min(n, kfifo_len))
    BY DEF kfifo_get
  <1>2. /\ size \in Nat /\ Modulus \in Nat /\ size > 0 /\ kfifo_len \in Nat
        /\ in \in 0 .. Modulus - 1 /\ out \in 0 .. Modulus - 1
    BY Shape
  <1>3. PICK len \in Nat : len = min(n, kfifo_len)
    BY <1>2, MaxLenType, MinBounds
  <1>4. len <= kfifo_len
    BY <1>2, <1>3, MaxLenType, MinBounds
  <1>5. /\ Contents \in Seq(Data) /\ Len(Contents) = kfifo_len
        /\ \A k \in 1..kfifo_len : Contents[k] = buffer[Slot(out, k - 1)]
    BY ContentsSeq
  <1>6. got' = SubSeq(Contents, 1, len)
    <2>1. got' = [k \in 1..len |-> Contents[k]]
      <3>1. got' = [k \in 1..len |-> buffer[Slot(out, k - 1)]]
        BY <1>1, <1>3
      <3>2. \A k \in 1..len : Contents[k] = buffer[Slot(out, k - 1)]
        BY <1>2, <1>4, <1>5
      <3>. QED BY <3>1, <3>2
    <2>2. SubSeq(Contents, 1, len) = [k \in 1..len |-> Contents[k]]
      <3>1. /\ SubSeq(Contents, 1, len) \in Seq(Data) /\ Len(SubSeq(Contents, 1, len)) = len
            /\ \A k \in 1..len : SubSeq(Contents, 1, len)[k] = Contents[k]
        BY <1>2, <1>4, <1>5
      <3>. QED BY <3>1
    <2>. QED BY <2>1, <2>2
  <1>7. in = Wrap(out + len) => len = kfifo_len
    <2>1. Wrap(in - Wrap(out + len)) = kfifo_len - len /\ Wrap(out + len) \in 0 .. Modulus - 1
      BY <1>2, <1>4, MoveOut
    <2>2. Wrap(in - in) = 0
      BY <1>2 DEF Wrap
    <2>. QED BY <1>2, <2>1, <2>2
  <1>8. /\ in' = IF in = Wrap(out + len) THEN 0 ELSE in
        /\ out' = IF in = Wrap(out + len) THEN 0 ELSE Wrap(out + len)
    BY <1>1, <1>3
  <1>. QED BY <1>2, <1>4, <1>6, <1>7, <1>8

\* What a locked call has to leave in order.
LEMMA LockedFrame ==
    ASSUME LockedInv, UNCHANGED <<size, wbytes, wdone, rlen, rbytes>>,
           in' \in 0 .. Modulus - 1, out' \in 0 .. Modulus - 1, kfifo_len' \in 0..size,
           buffer' \in [0 .. size - 1 -> Data], given' \in Seq(Data), got' \in Seq(Data)
    PROVE  LockedInv'
  <1>1. TypeOK'
    BY DEF LockedInv, IInv, TypeOK
  <1>2. size \in Nat
    BY Shape DEF LockedInv
  <1>3. WithinBounds'
    <2>1. Len(wbytes)' = 0 /\ rlen' = 0 /\ size' = size
      BY DEF LockedInv
    <2>2. PICK l \in 0..size : l = kfifo_len'
      OBVIOUS
    <2>3. l <= size /\ 0 <= size - l /\ 0 <= l
      BY <1>2
    <2>. QED BY <2>1, <2>2, <2>3 DEF WithinBounds
  <1>. QED BY <1>1, <1>3 DEF LockedInv, IInv

\* Every locked call keeps the invariant and is a step of the queue.
LEMMA LockedStep ==
    ASSUME LockedInv, [LockedNext]_vars
    PROVE  LockedInv' /\ [Queue!Next \/ Queue!Reset]_(Queue!vars)
  <1>1. /\ size \in Nat /\ Modulus \in Nat /\ size > 0 /\ 2 * size <= Modulus
        /\ in \in 0 .. Modulus - 1 /\ out \in 0 .. Modulus - 1
        /\ kfifo_len \in 0..size /\ IInv
    BY Shape DEF LockedInv
  <1>2. /\ Contents \in Seq(Data) /\ Len(Contents) = kfifo_len
    BY <1>1, ContentsSeq
  <1>3. given \in Seq(Data) /\ got \in Seq(Data) /\ buffer \in [0 .. size - 1 -> Data]
    BY <1>1 DEF IInv, TypeOK
  <1>4. CASE kfifo_put
    <2>1. PICK bytes \in Seq(Data) :
             /\ kfifo_len + Len(bytes) <= size
             /\ in' = Wrap(in + Len(bytes)) /\ given' = bytes
             /\ buffer' \in [0 .. size - 1 -> Data]
             /\ \A k \in 0 .. kfifo_len - 1 : buffer'[Slot(out, k)] = buffer[Slot(out, k)]
             /\ \A k \in 0 .. Len(bytes) - 1 : buffer'[Slot(in, k)] = bytes[k + 1]
      BY <1>1, <1>4, LockedPut
    <2>2. UNCHANGED <<size, out, wbytes, wdone, rlen, rbytes, got>>
      BY <1>4 DEF kfifo_put
    <2>3. in' \in 0 .. Modulus - 1 /\ kfifo_len' \in 0..size
      <3>1. Len(bytes) \in Nat /\ kfifo_len + Len(bytes) < Modulus
        BY <1>1, <2>1
      <3>2. /\ Wrap(in + Len(bytes)) \in 0 .. Modulus - 1
            /\ Wrap(Wrap(in + Len(bytes)) - out) = kfifo_len + Len(bytes)
        BY <1>1, <3>1, MoveIn
      <3>3. kfifo_len' = Wrap(in' - out)
        BY <2>2 DEF kfifo_len, Wrap
      <3>. QED BY <1>1, <2>1, <3>1, <3>2, <3>3
    <2>4. LockedInv'
      BY <1>1, <1>3, <2>1, <2>2, <2>3, LockedFrame
    <2>5. Contents' = Contents \o bytes
      BY <1>1, <2>1, <2>2, MovedInPuts
    <2>6. bytes \in [1..Len(bytes) -> Data] /\ Len(bytes) \in 0 .. size - Len(Contents)
      <3>1. Len(bytes) \in 0 .. size - kfifo_len
        BY <1>1, <2>1
      <3>. QED BY <1>2, <3>1
    <2>7. Queue!Put
      BY <2>1, <2>2, <2>5, <2>6 DEF Queue!Put
    <2>. QED BY <2>4, <2>7 DEF Queue!Next
  <1>5. CASE kfifo_get
    <2>1. PICK len \in 0..kfifo_len :
             /\ got' = SubSeq(Contents, 1, len)
             /\ \/ in' = in /\ out' = Wrap(out + len)
                \/ in' = 0 /\ out' = 0 /\ len = kfifo_len
      BY <1>1, <1>5, LockedGet
    <2>2. UNCHANGED <<size, buffer, wbytes, wdone, rlen, rbytes, given>>
      BY <1>5 DEF kfifo_get
    <2>3. got' \in Seq(Data)
      BY <1>1, <1>2, <2>1
    <2>4. /\ in' \in 0 .. Modulus - 1 /\ out' \in 0 .. Modulus - 1 /\ kfifo_len' \in 0..size
          /\ Contents' = SubSeq(Contents, len + 1, Len(Contents))
      <3>1. CASE in' = in /\ out' = Wrap(out + len)
        <4>1. /\ Wrap(out + len) \in 0 .. Modulus - 1
              /\ Wrap(in - Wrap(out + len)) = kfifo_len - len
          BY <1>1, MoveOut
        <4>2. kfifo_len' = Wrap(in' - out')
          BY DEF kfifo_len, Wrap
        <4>3. Contents' = SubSeq(Contents, len + 1, Len(Contents))
          BY <1>1, <2>2, <3>1, MovedOutGets
        <4>. QED BY <1>1, <3>1, <4>1, <4>2, <4>3
      <3>2. CASE in' = 0 /\ out' = 0 /\ len = kfifo_len
        <4>1. kfifo_len' = 0
          BY <1>1, <3>2 DEF kfifo_len, Wrap
        <4>2. Contents' = <<>>
          BY <4>1 DEF Contents
        <4>3. SubSeq(Contents, len + 1, Len(Contents)) = <<>>
          BY <1>1, <1>2, <3>2
        <4>. QED BY <1>1, <3>2, <4>1, <4>2, <4>3
      <3>. QED BY <2>1, <3>1, <3>2
    <2>5. LockedInv'
      BY <1>3, <2>2, <2>3, <2>4, LockedFrame
    <2>6. Queue!Get
      BY <1>2, <2>1, <2>2, <2>4 DEF Queue!Get
    <2>. QED BY <2>5, <2>6 DEF Queue!Next
  <1>6. CASE kfifo_reset
    <2>1. UNCHANGED <<size, buffer, wbytes, wdone, rlen, rbytes, given, got>> /\ in' = 0 /\ out' = 0
      BY <1>6 DEF kfifo_reset
    <2>2. kfifo_len' = 0
      BY <1>1, <2>1 DEF kfifo_len, Wrap
    <2>3. Contents' = <<>>
      BY <2>2 DEF Contents
    <2>4. LockedInv'
      BY <1>1, <1>3, <2>1, <2>2, LockedFrame
    <2>5. Queue!Reset
      BY <2>1, <2>3 DEF Queue!Reset
    <2>. QED BY <2>4, <2>5
  <1>7. CASE UNCHANGED vars
    <2>1. UNCHANGED <<size, in, out, buffer, wbytes, wdone, rlen, rbytes, given, got>>
      BY <1>7 DEF vars, fifoVars
    <2>2. kfifo_len' = kfifo_len
      BY <2>1 DEF kfifo_len, Wrap
    <2>3. LockedInv'
      BY <1>1, <1>3, <2>1, <2>2, LockedFrame
    <2>4. Contents' = Contents
      BY <2>1, <2>2 DEF Contents, Slot
    <2>. QED BY <2>1, <2>3, <2>4 DEF Queue!vars
  <1>. QED BY <1>4, <1>5, <1>6, <1>7 DEF LockedNext

LEMMA LockedInit == Init => LockedInv
  <1>. SUFFICES ASSUME Init PROVE LockedInv
    OBVIOUS
  <1>1. IInv
    BY InitInv
  <1>. QED BY <1>1 DEF Init, LockedInv

\* Under fifo->lock too the indices stay within bounds: kfifo_get()'s reset of
\* an empty FIFO to index 0 and kfifo_reset() included.
THEOREM KfifoLockedWithinBounds == LockedSpec => []WithinBounds
  <1>1. LockedInv => WithinBounds
    BY DEF LockedInv, IInv
  <1>. QED BY <1>1, LockedInit, LockedStep, PTL DEF LockedSpec

\* The calls under fifo->lock are a bounded queue of bytes that can be emptied:
\* nobody notices that kfifo_get() moves an empty FIFO back to index 0.
THEOREM KfifoLockedIsQueue == LockedSpec => ResettableQueueSpec
  <1>. QED BY InitQueues, LockedInit, LockedStep, PTL
           DEF LockedSpec, ResettableQueueSpec, Queue!ResettableSpec

(***************************************************************************)
(* Sleepable RCU, for any number of readers, updaters and CPUs, and any    *)
(* bound on the calls.  An updater waits for the critical sections that    *)
(* are counted in the old rank, on whichever CPUs; what it waits for is    *)
(* covered by its own grace period or by one that somebody else began in   *)
(* time.                                                                   *)
(***************************************************************************)

\* Where an updater has sp->mutex, and where it has flipped sp->completed too.
FlippedPCs == {"sched2", "scan", "sleep", "sched3"}
HolderPCs == {"sched1"} \cup FlippedPCs

\* sp->mutex is held from its acquisition to the return.
Holder == \A u \in Updaters : mutex = u <=> upc[u] \in HolderPCs

\* The rank that is being drained is not the current one; while none is, all
\* readers that have an index have the current one.
Ranks ==
    /\ \A u \in Updaters : upc[u] \in FlippedPCs => idx[u] \in {0, 1} /\ idx[u] # completed % 2
    /\ \/ \E u \in Updaters : upc[u] \in FlippedPCs
       \/ \A r \in Readers : rpc[r] \in {"locking", "cs", "unlocking"} => ridx[r] = completed % 2

\* The second synchronize_sched() waits for those that are about to count
\* themselves in the old rank, the third for those that may still hold data.
Waits == \A u \in Updaters, r \in Readers :
    /\ upc[u] = "sched2" /\ rpc[r] = "locking" /\ ridx[r] = idx[u] => r \in sched[u]
    /\ upc[u] = "sched3" /\ rpc[r] = "unlocking" /\ ridx[r] = idx[u] => r \in sched[u]

\* An updater whose unlinking is not visible yet has missed one flip at most,
\* one whose synchronize_sched() still waits for it.
Lagging == \A u \in Updaters : upc[u] = "called" =>
    \/ idx[u] = completed
    \/ /\ idx[u] = completed - 1
       /\ \E v \in Updaters : upc[v] = "sched2" /\ u \in sched[v]

\* The grace period of v that is under way covers the readers rs: those that
\* have no counter yet are waited for before the flip, and after it all are
\* counted in the old rank or just leaving it.
Covers(v, rs) ==
    /\ upc[v] = "sched1" => \A r \in rs : rpc[r] \in {"hoisting", "locking"} => r \in sched[v]
    /\ upc[v] \in FlippedPCs => \A r \in rs : rpc[r] \in {"cs", "unlocking"} /\ ridx[r] = idx[v]

\* u is served by the grace period of v: it is its own, or v began it when u
\* had published and sp->completed had advanced once since u was called.
Serves(v, u) == \/ v = u
                \/ /\ upc[u] = "published"
                   /\ completed - idx[u] >= (IF upc[v] = "sched1" THEN 1 ELSE 2)

\* A grace period covers what the updaters that it serves wait for; those that
\* would leave by the early exit now have nothing to wait for.
Covered ==
    /\ \A u, v \in Updaters : upc[v] \in HolderPCs /\ Serves(v, u) => Covers(v, owed[u])
    /\ \A u \in Updaters :
          upc[u] = "published" /\ mutex = None /\ completed - idx[u] >= 2 => owed[u] = {}

\* What is owed are references of readers that are under way, to updaters that
\* have published and not returned.
Owes == \A u \in Updaters :
    /\ \A r \in owed[u] : rpc[r] # "idle"
    /\ upc[u] \in {"idle", "called", "returned"} => owed[u] = {}

\* Nobody uses the counters once they are freed.
Freed == ~alive => /\ \A r \in Readers : rpc[r] = "idle"
                   /\ \A u \in Updaters : upc[u] = "idle"

\* The critical sections of rank i.
Sections(i) == {r \in Readers : rpc[r] = "cs" /\ ridx[r] = i}

\* Sums[cpu] is the sum of the counters of rank i from cpu on.
Totals(i, Sums) ==
    /\ Sums \in [1 .. NCPU + 1 -> 0 .. Modulus - 1]
    /\ Sums[NCPU + 1] = 0
    /\ \A cpu \in CPUs : Sums[cpu] = Wrap(c[cpu][i] + Sums[cpu + 1])

\* The sum of all is the number of critical sections.  A scan under way will
\* arrive at a sum that is not below it: those that end behind it are counted.
SumsUp(i, Sums) ==
    /\ Totals(i, Sums)
    /\ Sums[1] = Cardinality(Sections(i))
    /\ \A u \in Updaters : upc[u] = "scan" /\ idx[u] = i =>
          Wrap(sum[u] + Sums[pos[u]]) \in Cardinality(Sections(i)) .. Cardinality(Readers)

Counted == \A i \in {0, 1} : \E Sums : SumsUp(i, Sums)

\* The inductive invariant, but for the counters.
Ordered == RankDrains /\ Holder /\ Ranks /\ Waits /\ Lagging /\ Covered /\ Owes /\ Freed

SrcuIInv == Ordered /\ Counted

USE DEF FlippedPCs, HolderPCs, ReaderPCs, WindowPCs, UpdaterPCs, CPUs

\* The rank of readers alternates.
LEMMA Parity ==
    ASSUME NEW n \in Nat
    PROVE  n % 2 \in {0, 1} /\ (n + 1) % 2 \in {0, 1} /\ (n + 1) % 2 # n % 2
OBVIOUS

\* The assumptions on the constants, without names.
LEMMA SrcuConstants ==
    /\ NCPU \in Nat /\ NCPU > 0 /\ Modulus \in Nat /\ Modulus > 0
    /\ IsFiniteSet(Readers) /\ Cardinality(Readers) \in Nat /\ Cardinality(Readers) < Modulus
    /\ None \notin Updaters /\ Readers \cap Updaters = {}
BY SrcuAssumption, FS_CardinalityType

\* Machine arithmetic stays in the machine's range.
LEMMA WrapType ==
    ASSUME NEW x \in 0 .. Modulus - 1, NEW y \in 0 .. Modulus - 1
    PROVE  Wrap(x + y) \in 0 .. Modulus - 1 /\ Wrap(x - y) \in 0 .. Modulus - 1
BY SrcuConstants DEF Wrap

\* One reader is less than an int can count.
LEMMA AReader ==
    ASSUME NEW r \in Readers
    PROVE  1 \in 0 .. Modulus - 1
<1>1. Cardinality(Readers) # 0
  BY SrcuConstants, FS_EmptySet
<1> QED BY <1>1, SrcuConstants

------------------------------------------------------------------------------
\* Readers that go on do not disturb the grace periods that cover them.
LEMMA CoveredByReaders ==
    ASSUME Ordered, UNCHANGED <<completed, mutex, upc, idx>>,
           \A u \in Updaters : owed'[u] \subseteq owed[u],
           \A u \in Updaters : \A r \in owed'[u] :
              /\ rpc'[r] \in {"hoisting", "locking"} =>
                    /\ rpc[r] \in {"hoisting", "locking"}
                    /\ \A v \in Updaters : r \in sched[v] => r \in sched'[v]
              /\ rpc[r] \in {"cs", "unlocking"} =>
                    rpc'[r] \in {"cs", "unlocking"} /\ ridx'[r] = ridx[r]
    PROVE  Covered'
<1>1. ASSUME NEW u \in Updaters, NEW v \in Updaters, (upc[v] \in HolderPCs)', Serves(v, u)'
      PROVE  Covers(v, owed[u])'
  <2>1. Serves(v, u) /\ upc[v] \in HolderPCs
    BY <1>1 DEF Serves
  <2>2. Covers(v, owed[u])
    BY <2>1 DEF Ordered, Covered
  <2> QED BY <2>2 DEF Covers
<1>2. ASSUME NEW u \in Updaters, (upc[u] = "published" /\ mutex = None /\ completed - idx[u] >= 2)'
      PROVE  owed'[u] = {}
  BY <1>2 DEF Ordered, Covered
<1> QED BY <1>1, <1>2 DEF Covered

\* An updater goes to another place: the others stay where they are.
LEMMA UpdaterMoves ==
    ASSUME SrcuTypeOK, NEW u \in Updaters
    PROVE  /\ \A p \in UpdaterPCs : goto(u, p) =>
                 /\ upc' \in [Updaters -> UpdaterPCs] /\ upc'[u] = p
                 /\ \A v \in Updaters \ {u} : upc'[v] = upc[v]
           /\ \A n \in Nat : idx' = [idx EXCEPT ![u] = n] =>
                 /\ idx' \in [Updaters -> Nat] /\ idx'[u] = n
                 /\ \A v \in Updaters \ {u} : idx'[v] = idx[v]
           /\ \A rs \in SUBSET Readers : owed' = [owed EXCEPT ![u] = rs] =>
                 /\ owed' \in [Updaters -> SUBSET Readers] /\ owed'[u] = rs
                 /\ \A v \in Updaters \ {u} : owed'[v] = owed[v]
           /\ synchronize_sched(u) =>
                 /\ sched' \in [Updaters -> SUBSET (Readers \cup Updaters)]
                 /\ sched'[u] = Windows
                 /\ \A v \in Updaters \ {u} : sched'[v] = sched[v]
<1> USE DEF SrcuTypeOK
<1>1. \A p \in UpdaterPCs : goto(u, p) =>
         /\ upc' \in [Updaters -> UpdaterPCs] /\ upc'[u] = p
         /\ \A v \in Updaters \ {u} : upc'[v] = upc[v]
  BY DEF goto
<1>2. \A n \in Nat : idx' = [idx EXCEPT ![u] = n] =>
         /\ idx' \in [Updaters -> Nat] /\ idx'[u] = n
         /\ \A v \in Updaters \ {u} : idx'[v] = idx[v]
  OBVIOUS
<1>3. \A rs \in SUBSET Readers : owed' = [owed EXCEPT ![u] = rs] =>
         /\ owed' \in [Updaters -> SUBSET Readers] /\ owed'[u] = rs
         /\ \A v \in Updaters \ {u} : owed'[v] = owed[v]
  OBVIOUS
<1>4. Windows \subseteq Readers \cup Updaters
  BY DEF Windows
<1>5. synchronize_sched(u) =>
         /\ sched' \in [Updaters -> SUBSET (Readers \cup Updaters)]
         /\ sched'[u] = Windows
         /\ \A v \in Updaters \ {u} : sched'[v] = sched[v]
  BY <1>4 DEF synchronize_sched
<1> QED BY <1>1, <1>2, <1>3, <1>5

\* The window of t closes: nobody waits for it any longer.
LEMMA WindowCloses ==
    ASSUME SrcuTypeOK, NEW t, Leave(t)
    PROVE  /\ sched' \in [Updaters -> SUBSET (Readers \cup Updaters)]
           /\ \A v \in Updaters : sched'[v] = sched[v] \ {t}
BY DEF SrcuTypeOK, Leave

\* A reader goes to another place: the others stay where they are.
LEMMA ReaderMoves ==
    ASSUME SrcuTypeOK, NEW r \in Readers
    PROVE  /\ \A p \in ReaderPCs : rpc' = [rpc EXCEPT ![r] = p] =>
                 /\ rpc' \in [Readers -> ReaderPCs] /\ rpc'[r] = p
                 /\ \A o \in Readers \ {r} : rpc'[o] = rpc[o]
           /\ \A i \in {0, 1} : ridx' = [ridx EXCEPT ![r] = i] =>
                 /\ ridx' \in [Readers -> {0, 1}] /\ ridx'[r] = i
                 /\ \A o \in Readers \ {r} : ridx'[o] = ridx[o]
           /\ \A cpu \in CPUs : rcpu' = [rcpu EXCEPT ![r] = cpu] => rcpu' \in [Readers -> CPUs]
<1> USE DEF SrcuTypeOK
<1>1. \A p \in ReaderPCs : rpc' = [rpc EXCEPT ![r] = p] =>
         /\ rpc' \in [Readers -> ReaderPCs] /\ rpc'[r] = p
         /\ \A o \in Readers \ {r} : rpc'[o] = rpc[o]
  OBVIOUS
<1>2. \A i \in {0, 1} : ridx' = [ridx EXCEPT ![r] = i] =>
         /\ ridx' \in [Readers -> {0, 1}] /\ ridx'[r] = i
         /\ \A o \in Readers \ {r} : ridx'[o] = ridx[o]
  OBVIOUS
<1>3. \A cpu \in CPUs : rcpu' = [rcpu EXCEPT ![r] = cpu] => rcpu' \in [Readers -> CPUs]
  OBVIOUS
<1> QED BY <1>1, <1>2, <1>3

\* A counter is raised or lowered: the others stay.
LEMMA CounterMoves ==
    ASSUME SrcuTypeOK, NEW cpu \in CPUs, NEW i \in {0, 1}, NEW n \in 0 .. Modulus - 1,
           c' = [c EXCEPT ![cpu][i] = n]
    PROVE  /\ c' \in [CPUs -> [{0, 1} -> 0 .. Modulus - 1]]
           /\ c'[cpu][i] = n
           /\ \A k \in CPUs : \A j \in {0, 1} : k # cpu \/ j # i => c'[k][j] = c[k][j]
<1>1. c \in [CPUs -> [{0, 1} -> 0 .. Modulus - 1]]
  BY DEF SrcuTypeOK
<1>2. c' = [c EXCEPT ![cpu] = [c[cpu] EXCEPT ![i] = n]]
  OBVIOUS
<1>3. c[cpu] \in [{0, 1} -> 0 .. Modulus - 1]
  BY <1>1
<1>4. [c[cpu] EXCEPT ![i] = n] \in [{0, 1} -> 0 .. Modulus - 1]
  BY <1>3
<1>5. c'[cpu] = [c[cpu] EXCEPT ![i] = n] /\ \A k \in CPUs \ {cpu} : c'[k] = c[k]
  BY <1>1, <1>2
<1>6. c' \in [CPUs -> [{0, 1} -> 0 .. Modulus - 1]]
  BY <1>1, <1>2, <1>4
<1>7. c'[cpu][i] = n /\ \A j \in {0, 1} \ {i} : c'[cpu][j] = c[cpu][j]
  BY <1>3, <1>5
<1> QED BY <1>5, <1>6, <1>7

------------------------------------------------------------------------------
\* An updater's step leaves the grace periods of the others to cover what they
\* covered; what remains is what it does to its own, and for whom it waits.
LEMMA CoveredByUpdater ==
    ASSUME Ordered, NEW u \in Updaters, UNCHANGED <<rpc, ridx, completed>>,
           \A v \in Updaters \ {u} :
              /\ upc'[v] = upc[v] /\ idx'[v] = idx[v] /\ owed'[v] = owed[v]
              /\ \A r \in Readers : r \in sched[v] => r \in sched'[v],
           \A w \in Updaters : upc'[u] \in HolderPCs /\ Serves(u, w)' => Covers(u, owed[w])',
           \A v \in Updaters \ {u} : upc[v] \in HolderPCs /\ Serves(v, u)' => Covers(v, owed[u])',
           \A w \in Updaters : upc'[w] = "published" /\ mutex' = None /\ completed - idx'[w] >= 2
                                  => owed'[w] = {}
    PROVE  Covered'
<1>1. ASSUME NEW w \in Updaters, NEW v \in Updaters, upc'[v] \in HolderPCs, Serves(v, w)',
             v # u, w # u
      PROVE  Covers(v, owed[w])'
  <2>1. Serves(v, w) /\ upc[v] \in HolderPCs
    BY <1>1 DEF Serves
  <2>2. Covers(v, owed[w]) /\ owed[w] \subseteq Readers
    BY <2>1 DEF Ordered, Covered, RankDrains, SrcuTypeOK
  <2> QED BY <1>1, <2>2 DEF Covers
<1>2. \A w, v \in Updaters : upc'[v] \in HolderPCs /\ Serves(v, w)' => Covers(v, owed[w])'
  BY <1>1
<1> QED BY <1>2 DEF Covered

------------------------------------------------------------------------------
(* The steps of the readers. *)

\* What no reader changes.
LEMMA ReaderRest ==
    ASSUME Ordered, UNCHANGED <<completed, alive, updaterVars>>,
           rpc' \in [Readers -> ReaderPCs], ridx' \in [Readers -> {0, 1}],
           rcpu' \in [Readers -> CPUs], c' \in [CPUs -> [{0, 1} -> 0 .. Modulus - 1]],
           sched' \in [Updaters -> SUBSET (Readers \cup Updaters)],
           \A v \in Updaters : sched[v] \cap Updaters \subseteq sched'[v],
           owed' \in [Updaters -> SUBSET Readers],
           OldLocksDone', OldRankDrained', Ranks', Waits', Covered', Freed',
           \A u \in Updaters : owed'[u] \subseteq owed[u] /\ \A r \in owed'[u] : rpc'[r] # "idle"
    PROVE  Ordered'
<1>1. SrcuTypeOK'
  BY DEF Ordered, RankDrains, SrcuTypeOK, updaterVars
<1>2. Holder'
  BY DEF Ordered, Holder, updaterVars
<1>3. Lagging'
  BY DEF Ordered, Lagging, updaterVars
<1>4. Owes'
  <2> SUFFICES ASSUME NEW u \in Updaters
               PROVE  /\ \A r \in owed'[u] : rpc'[r] # "idle"
                      /\ upc'[u] \in {"idle", "called", "returned"} => owed'[u] = {}
    BY DEF Owes
  <2>1. upc'[u] = upc[u]
    BY DEF updaterVars
  <2> QED BY <2>1 DEF Ordered, Owes
<1> QED BY <1>1, <1>2, <1>3, <1>4 DEF Ordered, RankDrains

LEMMA ReadHoist ==
    ASSUME Ordered, NEW r \in Readers, read_hoist(r)
    PROVE  Ordered'
<1>1. /\ rpc[r] = "idle" /\ alive
      /\ UNCHANGED <<structVars, ridx, updaterVars, sched, owed>>
      /\ rpc' = [rpc EXCEPT ![r] = "hoisting"]
      /\ \E cpu \in CPUs : rcpu' = [rcpu EXCEPT ![r] = cpu]
  BY DEF read_hoist
<1>2. SrcuTypeOK
  BY DEF Ordered, RankDrains
<1>3. /\ rpc' \in [Readers -> ReaderPCs] /\ rpc'[r] = "hoisting"
      /\ \A o \in Readers \ {r} : rpc'[o] = rpc[o]
      /\ rcpu' \in [Readers -> CPUs]
  BY <1>1, <1>2, ReaderMoves
<1>4. UNCHANGED <<completed, alive, mutex, upc, idx, c>>
  BY <1>1 DEF structVars, updaterVars
<1>5. OldLocksDone' /\ OldRankDrained'
  BY <1>1, <1>3, <1>4 DEF Ordered, RankDrains, OldLocksDone, OldRankDrained
<1>6. Ranks'
  BY <1>1, <1>3, <1>4 DEF Ordered, Ranks
<1>7. Waits'
  BY <1>1, <1>3, <1>4 DEF Ordered, Waits
<1>8. \A u \in Updaters : r \notin owed[u] /\ owed[u] \subseteq Readers
  BY <1>1, <1>2 DEF Ordered, Owes, SrcuTypeOK
<1>9. Covered'
  BY <1>1, <1>3, <1>4, <1>8, CoveredByReaders
<1>10. Freed'
  BY <1>1, <1>4 DEF Freed
<1>11. /\ sched' \in [Updaters -> SUBSET (Readers \cup Updaters)]
       /\ owed' \in [Updaters -> SUBSET Readers] /\ ridx' \in [Readers -> {0, 1}]
       /\ c' \in [CPUs -> [{0, 1} -> 0 .. Modulus - 1]]
  BY <1>1, <1>2, <1>4 DEF SrcuTypeOK
<1>12. \A u \in Updaters : \A o \in owed[u] : rpc'[o] # "idle"
  BY <1>3, <1>8 DEF Ordered, Owes
<1> QED BY <1>1, <1>3, <1>4, <1>5, <1>6, <1>7, <1>9, <1>10, <1>11, <1>12, ReaderRest

LEMMA ReadLockSample ==
    ASSUME Ordered, NEW r \in Readers, read_lock_sample(r)
    PROVE  Ordered'
<1>1. /\ rpc[r] = "hoisting"
      /\ UNCHANGED <<structVars, rcpu, updaterVars, sched, owed>>
      /\ rpc' = [rpc EXCEPT ![r] = "locking"]
      /\ ridx' = [ridx EXCEPT ![r] = completed % 2]
  BY DEF read_lock_sample
<1>2. SrcuTypeOK /\ completed \in Nat
  BY DEF Ordered, RankDrains, SrcuTypeOK
<1>3. /\ rpc' \in [Readers -> ReaderPCs] /\ rpc'[r] = "locking"
      /\ \A o \in Readers \ {r} : rpc'[o] = rpc[o]
      /\ ridx' \in [Readers -> {0, 1}] /\ ridx'[r] = completed % 2
      /\ \A o \in Readers \ {r} : ridx'[o] = ridx[o]
  <2>1. completed % 2 \in {0, 1}
    BY <1>2, Parity
  <2> QED BY <1>1, <1>2, <2>1, ReaderMoves
<1>4. UNCHANGED <<completed, alive, mutex, upc, idx, c>>
  BY <1>1 DEF structVars, updaterVars
<1>5. \A u \in Updaters : upc[u] \in FlippedPCs => idx[u] # ridx'[r]
  BY <1>3 DEF Ordered, Ranks
<1>6. OldLocksDone' /\ OldRankDrained'
  BY <1>1, <1>3, <1>4, <1>5 DEF Ordered, RankDrains, OldLocksDone, OldRankDrained
<1>7. Ranks'
  BY <1>1, <1>3, <1>4 DEF Ordered, Ranks
<1>8. Waits'
  BY <1>1, <1>3, <1>4, <1>5 DEF Ordered, Waits
<1>9. \A u \in Updaters : owed[u] \subseteq Readers
  BY <1>2 DEF SrcuTypeOK
<1>10. Covered'
  BY <1>1, <1>3, <1>4, <1>9, CoveredByReaders
<1>11. Freed'
  BY <1>1, <1>4 DEF Ordered, Freed
<1>12. /\ sched' \in [Updaters -> SUBSET (Readers \cup Updaters)]
       /\ owed' \in [Updaters -> SUBSET Readers] /\ rcpu' \in [Readers -> CPUs]
       /\ c' \in [CPUs -> [{0, 1} -> 0 .. Modulus - 1]]
  BY <1>1, <1>2, <1>4 DEF SrcuTypeOK
<1>13. \A u \in Updaters : \A o \in owed[u] : rpc'[o] # "idle"
  BY <1>3, <1>9 DEF Ordered, Owes
<1> QED BY <1>1, <1>3, <1>4, <1>6, <1>7, <1>8, <1>10, <1>11, <1>12, <1>13, ReaderRest

LEMMA ReadLockCount ==
    ASSUME Ordered, NEW r \in Readers, read_lock_count(r)
    PROVE  Ordered'
<1>1. /\ rpc[r] = "locking"
      /\ UNCHANGED <<completed, alive, ridx, updaterVars, owed>>
      /\ rpc' = [rpc EXCEPT ![r] = "cs"]
      /\ rcpu' = [rcpu EXCEPT ![r] = 1]
      /\ c' = [c EXCEPT ![rcpu[r]][ridx[r]] = Wrap(c[rcpu[r]][ridx[r]] + 1)]
      /\ Leave(r)
  BY DEF read_lock_count
<1>2. SrcuTypeOK
  BY DEF Ordered, RankDrains
<1>3. /\ rpc' \in [Readers -> ReaderPCs] /\ rpc'[r] = "cs"
      /\ \A o \in Readers \ {r} : rpc'[o] = rpc[o]
      /\ rcpu' \in [Readers -> CPUs]
  <2>1. 1 \in CPUs /\ 0 \in {0, 1}
    BY SrcuConstants
  <2> QED BY <1>1, <1>2, <2>1, ReaderMoves
<1>4. /\ sched' \in [Updaters -> SUBSET (Readers \cup Updaters)]
      /\ \A v \in Updaters : sched'[v] = sched[v] \ {r}
  BY <1>1, <1>2, WindowCloses
<1>5. c' \in [CPUs -> [{0, 1} -> 0 .. Modulus - 1]]
  <2>1. rcpu[r] \in CPUs /\ ridx[r] \in {0, 1}
    BY <1>2 DEF SrcuTypeOK
  <2>2. c[rcpu[r]][ridx[r]] \in 0 .. Modulus - 1 /\ 1 \in 0 .. Modulus - 1
    BY <1>2, <2>1, SrcuConstants, AReader DEF SrcuTypeOK
  <2>3. Wrap(c[rcpu[r]][ridx[r]] + 1) \in 0 .. Modulus - 1
    BY <2>2, WrapType
  <2> QED BY <1>1, <1>2, <2>1, <2>3, CounterMoves
<1>6. UNCHANGED <<mutex, upc, idx>>
  BY <1>1 DEF updaterVars
<1>7. OldLocksDone' /\ OldRankDrained'
  BY <1>1, <1>3, <1>6 DEF Ordered, RankDrains, OldLocksDone, OldRankDrained
<1>8. Ranks'
  BY <1>1, <1>3, <1>6 DEF Ordered, Ranks
<1>9. Waits'
  BY <1>1, <1>3, <1>4, <1>6 DEF Ordered, Waits
<1>10. \A u \in Updaters : owed[u] \subseteq Readers
  BY <1>2 DEF SrcuTypeOK
<1>11. Covered'
  BY <1>1, <1>3, <1>4, <1>6, <1>10, CoveredByReaders
<1>12. Freed'
  BY <1>1, <1>6 DEF Ordered, Freed
<1>13. owed' \in [Updaters -> SUBSET Readers] /\ ridx' \in [Readers -> {0, 1}]
  BY <1>1, <1>2 DEF SrcuTypeOK
<1>14. \A u \in Updaters : \A o \in owed[u] : rpc'[o] # "idle"
  BY <1>3, <1>10 DEF Ordered, Owes
<1>15. \A v \in Updaters : sched[v] \cap Updaters \subseteq sched'[v]
  BY <1>4, SrcuConstants
<1> QED BY <1>1, <1>3, <1>4, <1>5, <1>7, <1>8, <1>9, <1>11, <1>12, <1>13, <1>14, <1>15,
           ReaderRest

LEMMA ReadUnlock ==
    ASSUME Ordered, NEW r \in Readers, srcu_read_unlock(r)
    PROVE  Ordered'
<1>1. /\ rpc[r] = "cs"
      /\ UNCHANGED <<completed, alive, ridx, updaterVars, sched, owed>>
      /\ rpc' = [rpc EXCEPT ![r] = "unlocking"]
  BY DEF srcu_read_unlock
<1>2. PICK cpu \in CPUs : /\ rcpu' = [rcpu EXCEPT ![r] = cpu]
                          /\ c' = [c EXCEPT ![cpu][ridx[r]] = Wrap(c[cpu][ridx[r]] - 1)]
  BY DEF srcu_read_unlock
<1>3. SrcuTypeOK
  BY DEF Ordered, RankDrains
<1>4. /\ rpc' \in [Readers -> ReaderPCs] /\ rpc'[r] = "unlocking"
      /\ \A o \in Readers \ {r} : rpc'[o] = rpc[o]
      /\ rcpu' \in [Readers -> CPUs]
  BY <1>1, <1>2, <1>3, ReaderMoves
<1>5. c' \in [CPUs -> [{0, 1} -> 0 .. Modulus - 1]]
  <2>1. ridx[r] \in {0, 1}
    BY <1>3 DEF SrcuTypeOK
  <2>2. c[cpu][ridx[r]] \in 0 .. Modulus - 1 /\ 1 \in 0 .. Modulus - 1
    BY <1>3, <2>1, SrcuConstants, AReader DEF SrcuTypeOK
  <2>3. Wrap(c[cpu][ridx[r]] - 1) \in 0 .. Modulus - 1
    BY <2>2, WrapType
  <2> QED BY <1>2, <1>3, <2>1, <2>3, CounterMoves
<1>6. UNCHANGED <<mutex, upc, idx>>
  BY <1>1 DEF updaterVars
<1>7. OldLocksDone' /\ OldRankDrained'
  BY <1>1, <1>4, <1>6 DEF Ordered, RankDrains, OldLocksDone, OldRankDrained
<1>8. Ranks'
  BY <1>1, <1>4, <1>6 DEF Ordered, Ranks
<1>9. Waits'
  BY <1>1, <1>4, <1>6 DEF Ordered, RankDrains, OldRankDrained, Waits
<1>10. \A u \in Updaters : owed[u] \subseteq Readers
  BY <1>3 DEF SrcuTypeOK
<1>11. Covered'
  BY <1>1, <1>4, <1>6, <1>10, CoveredByReaders
<1>12. Freed'
  BY <1>1, <1>6 DEF Ordered, Freed
<1>13. /\ owed' \in [Updaters -> SUBSET Readers] /\ ridx' \in [Readers -> {0, 1}]
       /\ sched' \in [Updaters -> SUBSET (Readers \cup Updaters)]
  BY <1>1, <1>3 DEF SrcuTypeOK
<1>14. \A u \in Updaters : \A o \in owed[u] : rpc'[o] # "idle"
  BY <1>4, <1>10 DEF Ordered, Owes
<1> QED BY <1>1, <1>4, <1>5, <1>7, <1>8, <1>9, <1>11, <1>12, <1>13, <1>14, ReaderRest

LEMMA ReadDrain ==
    ASSUME Ordered, NEW r \in Readers, read_drain(r)
    PROVE  Ordered'
<1>1. /\ rpc[r] = "unlocking"
      /\ UNCHANGED <<structVars, updaterVars>>
      /\ rpc' = [rpc EXCEPT ![r] = "idle"]
      /\ ridx' = [ridx EXCEPT ![r] = 0]
      /\ rcpu' = [rcpu EXCEPT ![r] = 1]
      /\ owed' = [u \in Updaters |-> owed[u] \ {r}]
      /\ Leave(r)
  BY DEF read_drain
<1>2. SrcuTypeOK
  BY DEF Ordered, RankDrains
<1>3. /\ rpc' \in [Readers -> ReaderPCs] /\ rpc'[r] = "idle"
      /\ \A o \in Readers \ {r} : rpc'[o] = rpc[o]
      /\ ridx' \in [Readers -> {0, 1}] /\ \A o \in Readers \ {r} : ridx'[o] = ridx[o]
      /\ rcpu' \in [Readers -> CPUs]
  <2>1. 1 \in CPUs /\ 0 \in {0, 1}
    BY SrcuConstants
  <2> QED BY <1>1, <1>2, <2>1, ReaderMoves
<1>4. /\ sched' \in [Updaters -> SUBSET (Readers \cup Updaters)]
      /\ \A v \in Updaters : sched'[v] = sched[v] \ {r}
  BY <1>1, <1>2, WindowCloses
<1>5. UNCHANGED <<completed, alive, c, mutex, upc, idx>>
  BY <1>1 DEF structVars, updaterVars
<1>6. OldLocksDone' /\ OldRankDrained'
  BY <1>1, <1>3, <1>5 DEF Ordered, RankDrains, OldLocksDone, OldRankDrained
<1>7. Ranks'
  BY <1>1, <1>3, <1>5 DEF Ordered, Ranks
<1>8. Waits'
  BY <1>1, <1>3, <1>4, <1>5 DEF Ordered, Waits
<1>9. /\ owed' \in [Updaters -> SUBSET Readers]
      /\ \A u \in Updaters : owed'[u] = owed[u] \ {r} /\ owed[u] \subseteq Readers
  BY <1>1, <1>2 DEF SrcuTypeOK
<1>10. Covered'
  BY <1>1, <1>3, <1>4, <1>5, <1>9, CoveredByReaders
<1>11. Freed'
  BY <1>1, <1>5 DEF Ordered, Freed
<1>12. \A u \in Updaters : \A o \in owed'[u] : rpc'[o] # "idle"
  BY <1>3, <1>9 DEF Ordered, Owes
<1>13. \A v \in Updaters : sched[v] \cap Updaters \subseteq sched'[v]
  BY <1>4, SrcuConstants
<1>14. c' \in [CPUs -> [{0, 1} -> 0 .. Modulus - 1]]
  BY <1>2, <1>5 DEF SrcuTypeOK
<1> QED BY <1>1, <1>3, <1>4, <1>5, <1>6, <1>7, <1>8, <1>9, <1>10, <1>11, <1>12, <1>13,
           <1>14, ReaderRest

------------------------------------------------------------------------------
(* The steps of the updaters. *)

\* What an updater leaves alone, and what remains to be shown of it.
LEMMA UpdaterRest ==
    ASSUME Ordered, alive, NEW u \in Updaters, UNCHANGED <<c, alive, readerVars>>,
           completed' \in Nat, mutex' \in Updaters \cup {None},
           upc' \in [Updaters -> UpdaterPCs], idx' \in [Updaters -> Nat],
           pos' \in [Updaters -> 1 .. NCPU + 1], sum' \in [Updaters -> 0 .. Modulus - 1],
           sched' \in [Updaters -> SUBSET (Readers \cup Updaters)],
           owed' \in [Updaters -> SUBSET Readers],
           \A v \in Updaters \ {u} :
              /\ upc'[v] = upc[v] /\ idx'[v] = idx[v] /\ owed'[v] = owed[v]
              /\ \A r \in Readers : r \in sched[v] => r \in sched'[v],
           \A r \in Readers :
              /\ upc'[u] \in {"scan", "sleep", "sched3"} => ~(rpc[r] = "locking" /\ ridx[r] = idx'[u])
              /\ upc'[u] = "sched3" => ~(rpc[r] = "cs" /\ ridx[r] = idx'[u])
              /\ upc'[u] = "sched2" /\ rpc[r] = "locking" /\ ridx[r] = idx'[u] => r \in sched'[u]
              /\ upc'[u] = "sched3" /\ rpc[r] = "unlocking" /\ ridx[r] = idx'[u] => r \in sched'[u],
           Holder', Ranks', Lagging', Covered',
           \A r \in owed'[u] : rpc[r] # "idle",
           upc'[u] \in {"idle", "called", "returned"} => owed'[u] = {}
    PROVE  Ordered'
<1>1. SrcuTypeOK
  BY DEF Ordered, RankDrains
<1>2. UNCHANGED <<c, alive, rpc, ridx, rcpu>>
  BY DEF readerVars
<1>3. SrcuTypeOK'
  BY <1>1, <1>2 DEF SrcuTypeOK
<1>4. OldLocksDone'
  BY <1>2 DEF Ordered, RankDrains, OldLocksDone
<1>5. OldRankDrained'
  BY <1>2 DEF Ordered, RankDrains, OldRankDrained
<1>6. Waits'
  BY <1>2 DEF Ordered, Waits
<1>7. Owes'
  BY <1>2 DEF Ordered, Owes
<1>8. Freed'
  BY <1>2 DEF Freed
<1> QED BY <1>3, <1>4, <1>5, <1>6, <1>7, <1>8 DEF Ordered, RankDrains

\* An updater in a call finds the counters allocated.
LEMMA Alive ==
    ASSUME Ordered, NEW u \in Updaters, upc[u] # "idle"
    PROVE  alive
<1>1. alive \in BOOLEAN
  BY DEF Ordered, RankDrains, SrcuTypeOK
<1> QED BY <1>1 DEF Ordered, Freed

LEMMA SyncCall ==
    ASSUME Ordered, NEW u \in Updaters, sync_call(u)
    PROVE  Ordered'
<1>1. /\ alive /\ upc[u] = "idle"
      /\ idx' = [idx EXCEPT ![u] = completed]
      /\ goto(u, "called")
      /\ UNCHANGED <<structVars, readerVars, mutex, pos, sum, sched, owed>>
  BY DEF sync_call
<1>2. SrcuTypeOK /\ completed \in Nat
  BY DEF Ordered, RankDrains, SrcuTypeOK
<1>3. /\ upc' \in [Updaters -> UpdaterPCs] /\ upc'[u] = "called"
      /\ \A v \in Updaters \ {u} : upc'[v] = upc[v]
      /\ idx' \in [Updaters -> Nat] /\ idx'[u] = completed
      /\ \A v \in Updaters \ {u} : idx'[v] = idx[v]
  BY <1>1, <1>2, UpdaterMoves
<1>4. UNCHANGED <<completed, c, alive, rpc, ridx>>
  BY <1>1 DEF structVars, readerVars
<1>5. Holder'
  BY <1>1, <1>3 DEF Ordered, Holder
<1>6. Ranks'
  BY <1>1, <1>3, <1>4 DEF Ordered, Ranks
<1>7. Lagging'
  BY <1>1, <1>3, <1>4 DEF Ordered, Lagging
<1>8. owed[u] = {}
  BY <1>1 DEF Ordered, Owes
<1>9. Covered'
  <2>1. \A v \in Updaters \ {u} : ~Serves(v, u)'
    BY <1>3 DEF Serves
  <2>2. \A w \in Updaters : upc'[w] = "published" /\ mutex' = None /\ completed - idx'[w] >= 2
                               => owed'[w] = {}
    BY <1>1, <1>3 DEF Ordered, Covered
  <2> QED BY <1>1, <1>3, <1>4, <2>1, <2>2, CoveredByUpdater
<1>10. /\ mutex' \in Updaters \cup {None} /\ completed' \in Nat
       /\ pos' \in [Updaters -> 1 .. NCPU + 1] /\ sum' \in [Updaters -> 0 .. Modulus - 1]
       /\ sched' \in [Updaters -> SUBSET (Readers \cup Updaters)]
       /\ owed' \in [Updaters -> SUBSET Readers]
  BY <1>1, <1>2, <1>4 DEF SrcuTypeOK
<1> QED BY <1>1, <1>3, <1>4, <1>5, <1>6, <1>7, <1>8, <1>9, <1>10, UpdaterRest

\* There is one holder at most.
LEMMA OneHolder ==
    ASSUME Ordered, NEW u \in Updaters, NEW v \in Updaters, upc[u] \in HolderPCs, upc[v] \in HolderPCs
    PROVE  u = v
BY DEF Ordered, Holder

LEMMA SyncPublish ==
    ASSUME Ordered, NEW u \in Updaters, sync_publish(u)
    PROVE  Ordered'
<1> DEFINE rs == {r \in Readers : rpc[r] # "idle"}
<1>1. /\ upc[u] = "called"
      /\ owed' = [owed EXCEPT ![u] = rs]
      /\ goto(u, "published")
      /\ Leave(u)
      /\ UNCHANGED <<structVars, readerVars, mutex, idx, pos, sum>>
  BY DEF sync_publish
<1>2. SrcuTypeOK /\ completed \in Nat /\ alive
  BY <1>1, Alive DEF Ordered, RankDrains, SrcuTypeOK
<1>3. /\ upc' \in [Updaters -> UpdaterPCs] /\ upc'[u] = "published"
      /\ \A v \in Updaters \ {u} : upc'[v] = upc[v]
      /\ owed' \in [Updaters -> SUBSET Readers] /\ owed'[u] = rs
      /\ \A v \in Updaters \ {u} : owed'[v] = owed[v]
  BY <1>1, <1>2, UpdaterMoves
<1>4. UNCHANGED <<completed, c, alive, rpc, ridx, mutex, idx>>
  BY <1>1 DEF structVars, readerVars
<1>5. /\ sched' \in [Updaters -> SUBSET (Readers \cup Updaters)]
      /\ \A v \in Updaters : sched'[v] = sched[v] \ {u}
  BY <1>1, <1>2, WindowCloses
<1>6. \A v \in Updaters : \A r \in Readers : r \in sched[v] => r \in sched'[v]
  BY <1>5, SrcuConstants
<1>7. Holder'
  BY <1>1, <1>3, <1>4 DEF Ordered, Holder
<1>8. Ranks'
  BY <1>1, <1>3, <1>4 DEF Ordered, Ranks
<1>9. Lagging'
  BY <1>1, <1>3, <1>4, <1>5 DEF Ordered, Lagging
<1>10. \/ idx[u] = completed
       \/ idx[u] = completed - 1 /\ \E v \in Updaters : upc[v] = "sched2"
  BY <1>1 DEF Ordered, Lagging
<1>11. Covered'
  <2>1. ASSUME NEW v \in Updaters \ {u}, upc[v] \in HolderPCs PROVE ~Serves(v, u)'
    <3>1. CASE idx[u] = completed
      BY <1>2, <1>3, <1>4, <2>1, <3>1 DEF Serves
    <3>2. CASE idx[u] = completed - 1 /\ \E w \in Updaters : upc[w] = "sched2"
      <4>1. upc[v] = "sched2"
        BY <2>1, <3>2, OneHolder
      <4>2. completed' - idx'[u] = 1 /\ upc'[v] = "sched2"
        BY <1>2, <1>3, <1>4, <2>1, <3>2, <4>1
      <4> QED BY <2>1, <4>2 DEF Serves
    <3> QED BY <1>10, <3>1, <3>2
  <2>2. \A w \in Updaters : upc'[w] = "published" /\ mutex' = None /\ completed - idx'[w] >= 2
                               => owed'[w] = {}
    BY <1>2, <1>3, <1>4, <1>10 DEF Ordered, Covered
  <2>3. \A v \in Updaters \ {u} :
              /\ upc'[v] = upc[v] /\ idx'[v] = idx[v] /\ owed'[v] = owed[v]
              /\ \A r \in Readers : r \in sched[v] => r \in sched'[v]
    BY <1>3, <1>4, <1>6
  <2> QED BY <1>3, <1>4, <2>1, <2>2, <2>3, CoveredByUpdater
<1>12. /\ mutex' \in Updaters \cup {None} /\ completed' \in Nat /\ idx' \in [Updaters -> Nat]
       /\ pos' \in [Updaters -> 1 .. NCPU + 1] /\ sum' \in [Updaters -> 0 .. Modulus - 1]
  BY <1>1, <1>2, <1>4 DEF SrcuTypeOK
<1> QED BY <1>1, <1>2, <1>3, <1>4, <1>5, <1>6, <1>7, <1>8, <1>9, <1>11, <1>12, UpdaterRest

\* Two advances of the counter are enough.
LEMMA SyncLockOthersDidIt ==
    ASSUME Ordered, NEW u \in Updaters, sync_lock(u), others_did_it(u)
    PROVE  Ordered'
<1>1. /\ upc[u] = "published" /\ mutex = None
      /\ idx' = [idx EXCEPT ![u] = 0]
      /\ goto(u, "returned")
      /\ UNCHANGED <<mutex, sched, structVars, readerVars, pos, sum, owed>>
  BY DEF sync_lock
<1>2. SrcuTypeOK /\ completed \in Nat /\ alive
  BY <1>1, Alive DEF Ordered, RankDrains, SrcuTypeOK
<1>3. /\ upc' \in [Updaters -> UpdaterPCs] /\ upc'[u] = "returned"
      /\ \A v \in Updaters \ {u} : upc'[v] = upc[v]
      /\ idx' \in [Updaters -> Nat]
      /\ \A v \in Updaters \ {u} : idx'[v] = idx[v]
  BY <1>1, <1>2, UpdaterMoves
<1>4. UNCHANGED <<completed, c, alive, rpc, ridx, mutex>>
  BY <1>1 DEF structVars, readerVars
<1>5. Holder'
  BY <1>1, <1>3 DEF Ordered, Holder
<1>6. Ranks'
  BY <1>1, <1>3, <1>4 DEF Ordered, Ranks
<1>7. Lagging'
  BY <1>1, <1>3, <1>4 DEF Ordered, Lagging
<1>8. owed'[u] = {}
  BY <1>1 DEF Ordered, Covered, others_did_it
<1>9. Covered'
  <2>1. \A v \in Updaters \ {u} : ~Serves(v, u)'
    BY <1>3 DEF Serves
  <2>2. \A w \in Updaters : upc'[w] = "published" /\ mutex' = None /\ completed - idx'[w] >= 2
                               => owed'[w] = {}
    BY <1>1, <1>3 DEF Ordered, Covered
  <2> QED BY <1>1, <1>3, <1>4, <2>1, <2>2, CoveredByUpdater
<1>10. /\ mutex' \in Updaters \cup {None} /\ completed' \in Nat
       /\ pos' \in [Updaters -> 1 .. NCPU + 1] /\ sum' \in [Updaters -> 0 .. Modulus - 1]
       /\ sched' \in [Updaters -> SUBSET (Readers \cup Updaters)]
       /\ owed' \in [Updaters -> SUBSET Readers]
  BY <1>1, <1>2, <1>4 DEF SrcuTypeOK
<1> QED BY <1>1, <1>2, <1>3, <1>4, <1>5, <1>6, <1>7, <1>8, <1>9, <1>10, UpdaterRest

\* Those who have no counter yet are among those that synchronize_sched() waits for.
LEMMA SyncLockTaken ==
    ASSUME Ordered, NEW u \in Updaters, sync_lock(u), ~others_did_it(u)
    PROVE  Ordered'
<1>1. /\ upc[u] = "published" /\ mutex = None
      /\ mutex' = u
      /\ synchronize_sched(u)
      /\ goto(u, "sched1")
      /\ UNCHANGED <<idx, structVars, readerVars, pos, sum, owed>>
  BY DEF sync_lock
<1>2. SrcuTypeOK /\ completed \in Nat /\ alive
  BY <1>1, Alive DEF Ordered, RankDrains, SrcuTypeOK
<1>3. /\ upc' \in [Updaters -> UpdaterPCs] /\ upc'[u] = "sched1"
      /\ \A v \in Updaters \ {u} : upc'[v] = upc[v]
      /\ sched' \in [Updaters -> SUBSET (Readers \cup Updaters)] /\ sched'[u] = Windows
      /\ \A v \in Updaters \ {u} : sched'[v] = sched[v]
  BY <1>1, <1>2, UpdaterMoves
<1>4. UNCHANGED <<completed, c, alive, rpc, ridx>>
  BY <1>1 DEF structVars, readerVars
<1>5. \A v \in Updaters : upc[v] \notin HolderPCs
  BY <1>1, SrcuConstants DEF Ordered, Holder
<1>6. Holder'
  BY <1>1, <1>3, <1>5 DEF Holder
<1>7. Ranks'
  BY <1>1, <1>3, <1>4, <1>5 DEF Ordered, Ranks
<1>8. Lagging'
  BY <1>1, <1>3, <1>4, <1>5 DEF Ordered, Lagging
<1>9. Covered'
  <2>1. \A v \in Updaters \ {u} : upc'[v] \notin HolderPCs
    BY <1>3, <1>5
  <2>2. \A w \in Updaters : owed'[w] \subseteq Readers
    BY <1>1, <1>2 DEF SrcuTypeOK
  <2>3. \A w \in Updaters : Covers(u, owed[w])'
    BY <1>3, <1>4, <2>2 DEF Covers, Windows
  <2>4. mutex' # None
    BY <1>1, SrcuConstants
  <2> QED BY <2>1, <2>3, <2>4 DEF Covered
<1>10. /\ mutex' \in Updaters \cup {None} /\ completed' \in Nat /\ idx' \in [Updaters -> Nat]
       /\ pos' \in [Updaters -> 1 .. NCPU + 1] /\ sum' \in [Updaters -> 0 .. Modulus - 1]
       /\ owed' \in [Updaters -> SUBSET Readers]
  BY <1>1, <1>2, <1>4 DEF SrcuTypeOK
<1>11. \A r \in owed'[u] : rpc[r] # "idle"
  BY <1>1 DEF Ordered, Owes
<1> QED BY <1>1, <1>2, <1>3, <1>4, <1>6, <1>7, <1>8, <1>9, <1>10, <1>11, UpdaterRest

\* The counter advances: the readers that are covered now are those of the old rank.
LEMMA SyncFlip ==
    ASSUME Ordered, NEW u \in Updaters, sync_flip(u)
    PROVE  Ordered'
<1>1. /\ upc[u] = "sched1" /\ sched[u] = {}
      /\ idx' = [idx EXCEPT ![u] = completed % 2]
      /\ completed' = completed + 1
      /\ synchronize_sched(u)
      /\ goto(u, "sched2")
      /\ UNCHANGED <<c, alive, readerVars, mutex, pos, sum, owed>>
  BY DEF sync_flip
<1>2. SrcuTypeOK /\ completed \in Nat /\ alive
  BY <1>1, Alive DEF Ordered, RankDrains, SrcuTypeOK
<1>3. completed % 2 \in {0, 1} /\ completed' % 2 # completed % 2
  BY <1>1, <1>2, Parity
<1>4. /\ upc' \in [Updaters -> UpdaterPCs] /\ upc'[u] = "sched2"
      /\ \A v \in Updaters \ {u} : upc'[v] = upc[v]
      /\ sched' \in [Updaters -> SUBSET (Readers \cup Updaters)] /\ sched'[u] = Windows
      /\ \A v \in Updaters \ {u} : sched'[v] = sched[v]
  BY <1>1, <1>2, UpdaterMoves
<1>5. /\ idx' \in [Updaters -> Nat] /\ idx'[u] = completed % 2
      /\ \A v \in Updaters \ {u} : idx'[v] = idx[v]
  BY <1>1, <1>2, <1>3, UpdaterMoves
<1>6. UNCHANGED <<c, alive, rpc, ridx>>
  BY <1>1 DEF readerVars
<1>7. \A v \in Updaters \ {u} : upc[v] \notin HolderPCs
  BY <1>1, OneHolder
<1>8. \A r \in Readers : rpc[r] \in {"locking", "cs", "unlocking"} => ridx[r] = completed % 2
  BY <1>1, <1>7 DEF Ordered, Ranks
<1>9. Holder'
  BY <1>1, <1>4 DEF Ordered, Holder
<1>10. Ranks'
  BY <1>3, <1>4, <1>5, <1>7 DEF Ranks
<1>11. Lagging'
  <2> SUFFICES ASSUME NEW v \in Updaters, upc'[v] = "called"
               PROVE  idx'[v] = completed' - 1 /\ v \in sched'[u]
    BY <1>4 DEF Lagging
  <2>1. v # u /\ upc[v] = "called" /\ idx'[v] = idx[v]
    BY <1>4, <1>5
  <2>2. idx[v] = completed
    BY <1>1, <1>7, <2>1 DEF Ordered, Lagging
  <2> QED BY <1>1, <1>2, <1>4, <2>1, <2>2 DEF Windows
<1>12. Covered'
  <2>1. ASSUME NEW w \in Updaters, Serves(u, w)'
        PROVE  Covers(u, owed[w])'
    <3>1. Serves(u, w)
      BY <1>1, <1>2, <1>4, <1>5, <2>1 DEF Serves
    <3>2. Covers(u, owed[w]) /\ owed[w] \subseteq Readers
      BY <1>1, <1>2, <3>1 DEF Ordered, Covered, SrcuTypeOK
    <3>3. \A r \in owed[w] : rpc[r] \in {"cs", "unlocking"}
      BY <1>1, <1>2, <3>2 DEF Ordered, Owes, Covers, SrcuTypeOK
    <3>4. \A r \in owed[w] : ridx[r] = completed % 2
      BY <1>8, <3>2, <3>3
    <3> QED BY <1>1, <1>4, <1>5, <1>6, <3>3, <3>4 DEF Covers
  <2>2. mutex' # None
    BY <1>1, SrcuConstants DEF Ordered, Holder
  <2>3. \A v \in Updaters \ {u} : upc'[v] \notin HolderPCs
    BY <1>4, <1>7
  <2> QED BY <2>1, <2>2, <2>3 DEF Covered
<1>13. /\ mutex' \in Updaters \cup {None} /\ completed' \in Nat
       /\ pos' \in [Updaters -> 1 .. NCPU + 1] /\ sum' \in [Updaters -> 0 .. Modulus - 1]
       /\ owed' \in [Updaters -> SUBSET Readers]
  BY <1>1, <1>2 DEF SrcuTypeOK
<1>14. \A r \in owed'[u] : rpc[r] # "idle"
  BY <1>1 DEF Ordered, Owes
<1>15. \A r \in Readers : rpc[r] = "locking" => r \in sched'[u]
  BY <1>4 DEF Windows
<1> QED BY <1>1, <1>2, <1>4, <1>5, <1>6, <1>9, <1>10, <1>11, <1>12, <1>13, <1>14, <1>15,
           UpdaterRest

\* While the holder of the mutex waits for the old rank.
LEMMA StillDraining ==
    ASSUME Ordered, NEW u \in Updaters, upc[u] \in FlippedPCs, upc'[u] \in FlippedPCs,
           UNCHANGED <<completed, mutex, idx, owed, rpc, ridx>>,
           upc[u] = "sched2" => sched[u] = {},
           \A v \in Updaters \ {u} : upc'[v] = upc[v] /\ sched'[v] = sched[v]
    PROVE  Holder' /\ Ranks' /\ Lagging' /\ Covered'
<1>1. Holder'
  BY DEF Ordered, Holder
<1>2. Ranks'
  BY DEF Ordered, Ranks
<1>3. Lagging'
  <2> SUFFICES ASSUME NEW w \in Updaters, upc'[w] = "called"
               PROVE  \/ idx'[w] = completed'
                      \/ /\ idx'[w] = completed' - 1
                         /\ \E v \in Updaters : upc'[v] = "sched2" /\ w \in sched'[v]
    BY DEF Lagging
  <2>1. upc[w] = "called"
    OBVIOUS
  <2>2. CASE idx[w] = completed
    BY <2>2
  <2>3. CASE idx[w] = completed - 1 /\ \E v \in Updaters : upc[v] = "sched2" /\ w \in sched[v]
    <3>1. PICK v \in Updaters : upc[v] = "sched2" /\ w \in sched[v]
      BY <2>3
    <3>2. v # u
      BY <3>1
    <3> QED BY <2>3, <3>1, <3>2
  <2> QED BY <2>1, <2>2, <2>3 DEF Ordered, Lagging
<1>4. Covered'
  <2>1. ASSUME NEW w \in Updaters, Serves(u, w)'
        PROVE  Covers(u, owed[w])'
    <3>1. Serves(u, w)
      BY <2>1 DEF Serves
    <3>2. Covers(u, owed[w])
      BY <3>1 DEF Ordered, Covered
    <3> QED BY <3>2 DEF Covers
  <2>2. \A v \in Updaters \ {u} : ~Serves(v, u)'
    BY DEF Serves
  <2>3. \A w \in Updaters : upc'[w] = "published" /\ mutex' = None /\ completed - idx'[w] >= 2
                               => owed'[w] = {}
    BY DEF Ordered, Covered
  <2> QED BY <2>1, <2>2, <2>3, CoveredByUpdater
<1> QED BY <1>1, <1>2, <1>3, <1>4

LEMMA ScanStart ==
    ASSUME Ordered, NEW u \in Updaters, scan_start(u)
    PROVE  Ordered'
<1>1. /\ (upc[u] = "sched2" /\ sched[u] = {}) \/ upc[u] = "sleep"
      /\ goto(u, "scan")
      /\ pos' = [pos EXCEPT ![u] = 1] /\ sum' = [sum EXCEPT ![u] = 0]
      /\ UNCHANGED <<structVars, readerVars, mutex, idx, sched, owed>>
  BY DEF scan_start
<1>2. SrcuTypeOK /\ alive
  BY <1>1, Alive DEF Ordered, RankDrains
<1>3. /\ upc' \in [Updaters -> UpdaterPCs] /\ upc'[u] = "scan"
      /\ \A v \in Updaters \ {u} : upc'[v] = upc[v]
  BY <1>1, <1>2, UpdaterMoves
<1>4. UNCHANGED <<completed, c, alive, rpc, ridx>>
  BY <1>1 DEF structVars, readerVars
<1>5. Holder' /\ Ranks' /\ Lagging' /\ Covered'
  BY <1>1, <1>3, <1>4, StillDraining
<1>6. /\ pos' \in [Updaters -> 1 .. NCPU + 1] /\ sum' \in [Updaters -> 0 .. Modulus - 1]
  <2>1. 1 \in 1 .. NCPU + 1 /\ 0 \in 0 .. Modulus - 1
    BY SrcuConstants
  <2> QED BY <1>1, <1>2, <2>1 DEF SrcuTypeOK
<1>7. /\ mutex' \in Updaters \cup {None} /\ completed' \in Nat /\ idx' \in [Updaters -> Nat]
      /\ sched' \in [Updaters -> SUBSET (Readers \cup Updaters)]
      /\ owed' \in [Updaters -> SUBSET Readers]
  BY <1>1, <1>2, <1>4 DEF SrcuTypeOK
<1>8. \A r \in Readers : ~(rpc[r] = "locking" /\ ridx[r] = idx'[u])
  BY <1>1 DEF Ordered, Waits, RankDrains, OldLocksDone
<1>9. \A r \in owed'[u] : rpc[r] # "idle"
  BY <1>1 DEF Ordered, Owes
<1> QED BY <1>1, <1>2, <1>3, <1>4, <1>5, <1>6, <1>7, <1>8, <1>9, UpdaterRest

LEMMA ScanAdd ==
    ASSUME Ordered, NEW u \in Updaters, scan_add(u)
    PROVE  Ordered'
<1>1. /\ upc[u] = "scan" /\ pos[u] <= NCPU
      /\ sum' = [sum EXCEPT ![u] = Wrap(sum[u] + c[pos[u]][idx[u]])]
      /\ pos' = [pos EXCEPT ![u] = pos[u] + 1]
      /\ UNCHANGED <<structVars, readerVars, mutex, upc, idx, sched, owed>>
  BY DEF scan_add
<1>2. SrcuTypeOK /\ alive
  BY <1>1, Alive DEF Ordered, RankDrains
<1>3. UNCHANGED <<completed, c, alive, rpc, ridx>>
  BY <1>1 DEF structVars, readerVars
<1>4. Holder' /\ Ranks' /\ Lagging' /\ Covered'
  BY <1>1, <1>3, StillDraining
<1>5. /\ pos' \in [Updaters -> 1 .. NCPU + 1] /\ sum' \in [Updaters -> 0 .. Modulus - 1]
  <2>1. pos[u] \in CPUs /\ idx[u] \in {0, 1} /\ sum[u] \in 0 .. Modulus - 1
    BY <1>1, <1>2 DEF Ordered, Ranks, SrcuTypeOK
  <2>2. c[pos[u]][idx[u]] \in 0 .. Modulus - 1
    BY <1>2, <2>1 DEF SrcuTypeOK
  <2>3. Wrap(sum[u] + c[pos[u]][idx[u]]) \in 0 .. Modulus - 1
    BY <2>1, <2>2, WrapType
  <2>4. pos[u] + 1 \in 1 .. NCPU + 1
    BY <2>1, SrcuConstants
  <2> QED BY <1>1, <1>2, <2>3, <2>4 DEF SrcuTypeOK
<1>6. /\ mutex' \in Updaters \cup {None} /\ completed' \in Nat /\ idx' \in [Updaters -> Nat]
      /\ upc' \in [Updaters -> UpdaterPCs]
      /\ sched' \in [Updaters -> SUBSET (Readers \cup Updaters)]
      /\ owed' \in [Updaters -> SUBSET Readers]
  BY <1>1, <1>2, <1>3 DEF SrcuTypeOK
<1>7. \A r \in Readers : ~(rpc[r] = "locking" /\ ridx[r] = idx'[u])
  BY <1>1 DEF Ordered, RankDrains, OldLocksDone
<1>8. \A r \in owed'[u] : rpc[r] # "idle"
  BY <1>1 DEF Ordered, Owes
<1> QED BY <1>1, <1>2, <1>3, <1>4, <1>5, <1>6, <1>7, <1>8, UpdaterRest

\* A scan that comes out 0 has seen every critical section of the old rank end.
LEMMA ScannedZero ==
    ASSUME Ordered, Counted, NEW u \in Updaters, upc[u] = "scan", pos[u] > NCPU, sum[u] = 0
    PROVE  \A r \in Readers : ~(rpc[r] = "cs" /\ ridx[r] = idx[u])
<1>1. idx[u] \in {0, 1} /\ pos[u] = NCPU + 1
  BY SrcuConstants DEF Ordered, Ranks, RankDrains, SrcuTypeOK
<1>2. PICK Sums : SumsUp(idx[u], Sums)
  BY <1>1 DEF Counted
<1>3. Wrap(sum[u] + Sums[pos[u]]) = 0
  BY <1>1, <1>2, SrcuConstants DEF SumsUp, Totals, Wrap
<1>4. Sections(idx[u]) \subseteq Readers
  BY DEF Sections
<1>5. IsFiniteSet(Sections(idx[u])) /\ Cardinality(Sections(idx[u])) \in Nat
  BY <1>4, SrcuConstants, FS_Subset, FS_CardinalityType
<1>6. Cardinality(Sections(idx[u])) = 0
  BY <1>2, <1>3, <1>5, SrcuConstants DEF SumsUp
<1>7. Sections(idx[u]) = {}
  BY <1>5, <1>6, FS_EmptySet
<1> QED BY <1>7 DEF Sections

LEMMA ScanEnd ==
    ASSUME Ordered, Counted, NEW u \in Updaters, scan_end(u)
    PROVE  Ordered'
<1>1. /\ upc[u] = "scan" /\ pos[u] > NCPU
      /\ pos' = [pos EXCEPT ![u] = 1] /\ sum' = [sum EXCEPT ![u] = 0]
      /\ UNCHANGED <<structVars, readerVars, mutex, idx, owed>>
  BY DEF scan_end
<1>2. SrcuTypeOK /\ alive
  BY <1>1, Alive DEF Ordered, RankDrains
<1>3. \/ sum[u] # 0 /\ goto(u, "sleep") /\ UNCHANGED sched
      \/ sum[u] = 0 /\ goto(u, "sched3") /\ synchronize_sched(u)
  BY DEF scan_end
<1>4. /\ upc' \in [Updaters -> UpdaterPCs]
      /\ \/ upc'[u] = "sleep" /\ UNCHANGED sched
         \/ sum[u] = 0 /\ upc'[u] = "sched3" /\ sched'[u] = Windows
      /\ sched' \in [Updaters -> SUBSET (Readers \cup Updaters)]
      /\ \A v \in Updaters \ {u} : upc'[v] = upc[v] /\ sched'[v] = sched[v]
  <2>1. sched \in [Updaters -> SUBSET (Readers \cup Updaters)]
    BY <1>2 DEF SrcuTypeOK
  <2> QED BY <1>2, <1>3, <2>1, UpdaterMoves
<1>5. UNCHANGED <<completed, c, alive, rpc, ridx>>
  BY <1>1 DEF structVars, readerVars
<1>6. Holder' /\ Ranks' /\ Lagging' /\ Covered'
  BY <1>1, <1>4, <1>5, StillDraining
<1>7. /\ pos' \in [Updaters -> 1 .. NCPU + 1] /\ sum' \in [Updaters -> 0 .. Modulus - 1]
  <2>1. 1 \in 1 .. NCPU + 1 /\ 0 \in 0 .. Modulus - 1
    BY SrcuConstants
  <2> QED BY <1>1, <1>2, <2>1 DEF SrcuTypeOK
<1>8. /\ mutex' \in Updaters \cup {None} /\ completed' \in Nat /\ idx' \in [Updaters -> Nat]
      /\ owed' \in [Updaters -> SUBSET Readers]
  BY <1>1, <1>2, <1>5 DEF SrcuTypeOK
<1>9. \A r \in Readers : ~(rpc[r] = "locking" /\ ridx[r] = idx'[u])
  BY <1>1 DEF Ordered, RankDrains, OldLocksDone
<1>10. upc'[u] = "sched3" => \A r \in Readers : ~(rpc[r] = "cs" /\ ridx[r] = idx'[u])
  BY <1>1, <1>4, ScannedZero
<1>11. \A r \in Readers : upc'[u] = "sched3" /\ rpc[r] = "unlocking" => r \in sched'[u]
  BY <1>4 DEF Windows
<1>12. \A r \in owed'[u] : rpc[r] # "idle"
  BY <1>1 DEF Ordered, Owes
<1> QED BY <1>1, <1>2, <1>4, <1>5, <1>6, <1>7, <1>8, <1>9, <1>10, <1>11, <1>12, UpdaterRest

\* Everybody has left the old rank, and with it all that the grace period covers.
LEMMA SyncReturn ==
    ASSUME Ordered, NEW u \in Updaters, sync_return(u)
    PROVE  Ordered'
<1>1. /\ upc[u] = "sched3" /\ sched[u] = {}
      /\ mutex' = None
      /\ idx' = [idx EXCEPT ![u] = 0]
      /\ goto(u, "returned")
      /\ UNCHANGED <<structVars, readerVars, pos, sum, sched, owed>>
  BY DEF sync_return
<1>2. SrcuTypeOK /\ completed \in Nat /\ alive
  BY <1>1, Alive DEF Ordered, RankDrains, SrcuTypeOK
<1>3. /\ upc' \in [Updaters -> UpdaterPCs] /\ upc'[u] = "returned"
      /\ \A v \in Updaters \ {u} : upc'[v] = upc[v]
      /\ idx' \in [Updaters -> Nat]
      /\ \A v \in Updaters \ {u} : idx'[v] = idx[v]
  BY <1>1, <1>2, UpdaterMoves
<1>4. UNCHANGED <<completed, c, alive, rpc, ridx>>
  BY <1>1 DEF structVars, readerVars
<1>5. \A v \in Updaters \ {u} : upc[v] \notin HolderPCs
  BY <1>1, OneHolder
<1>6. \A r \in Readers : rpc[r] \in {"locking", "cs", "unlocking"} => ridx[r] # idx[u]
  BY <1>1 DEF Ordered, RankDrains, OldLocksDone, OldRankDrained, Waits
<1>7. Holder'
  BY <1>1, <1>3, <1>5, SrcuConstants DEF Holder
<1>8. Ranks'
  <2>1. idx[u] \in {0, 1} /\ idx[u] # completed % 2 /\ completed % 2 \in {0, 1}
    BY <1>1, <1>2, Parity DEF Ordered, Ranks
  <2>2. \A r \in Readers : ridx[r] \in {0, 1}
    BY <1>2 DEF SrcuTypeOK
  <2> QED BY <1>3, <1>4, <1>5, <1>6, <2>1, <2>2 DEF Ranks
<1>9. Lagging'
  BY <1>1, <1>3, <1>4 DEF Ordered, Lagging
<1>10. ASSUME NEW w \in Updaters, Serves(u, w)
       PROVE  owed[w] = {}
  <2>1. Covers(u, owed[w]) /\ owed[w] \subseteq Readers
    BY <1>1, <1>2, <1>10 DEF Ordered, Covered, SrcuTypeOK
  <2> QED BY <1>1, <1>6, <2>1 DEF Covers
<1>11. Covered'
  <2>1. \A v \in Updaters : upc'[v] \notin HolderPCs
    BY <1>3, <1>5
  <2>2. ASSUME NEW w \in Updaters, upc'[w] = "published", completed' - idx'[w] >= 2
        PROVE  owed'[w] = {}
    <3>1. Serves(u, w)
      BY <1>1, <1>3, <1>4, <2>2 DEF Serves
    <3> QED BY <1>1, <1>10, <3>1
  <2> QED BY <2>1, <2>2 DEF Covered
<1>12. owed'[u] = {}
  BY <1>1, <1>10 DEF Serves
<1>13. /\ mutex' \in Updaters \cup {None} /\ completed' \in Nat
       /\ pos' \in [Updaters -> 1 .. NCPU + 1] /\ sum' \in [Updaters -> 0 .. Modulus - 1]
       /\ sched' \in [Updaters -> SUBSET (Readers \cup Updaters)]
       /\ owed' \in [Updaters -> SUBSET Readers]
  BY <1>1, <1>2, <1>4 DEF SrcuTypeOK
<1> QED BY <1>1, <1>2, <1>3, <1>4, <1>7, <1>8, <1>9, <1>11, <1>12, <1>13, UpdaterRest

LEMMA CallerFrees ==
    ASSUME Ordered, NEW u \in Updaters, caller_frees(u)
    PROVE  Ordered'
<1>1. /\ upc[u] = "returned"
      /\ owed' = [owed EXCEPT ![u] = {}]
      /\ goto(u, "idle")
      /\ UNCHANGED <<structVars, readerVars, mutex, idx, pos, sum, sched>>
  BY DEF caller_frees
<1>2. SrcuTypeOK /\ alive
  BY <1>1, Alive DEF Ordered, RankDrains
<1>3. /\ upc' \in [Updaters -> UpdaterPCs] /\ upc'[u] = "idle"
      /\ \A v \in Updaters \ {u} : upc'[v] = upc[v]
      /\ owed' \in [Updaters -> SUBSET Readers] /\ owed'[u] = {}
      /\ \A v \in Updaters \ {u} : owed'[v] = owed[v]
  <2>1. {} \in SUBSET Readers
    OBVIOUS
  <2> QED BY <1>1, <1>2, <2>1, UpdaterMoves
<1>4. UNCHANGED <<completed, c, alive, rpc, ridx>>
  BY <1>1 DEF structVars, readerVars
<1>5. Holder'
  BY <1>1, <1>3 DEF Ordered, Holder
<1>6. Ranks'
  BY <1>1, <1>3, <1>4 DEF Ordered, Ranks
<1>7. Lagging'
  BY <1>1, <1>3, <1>4 DEF Ordered, Lagging
<1>8. Covered'
  <2>1. \A v \in Updaters \ {u} : ~Serves(v, u)'
    BY <1>3 DEF Serves
  <2>2. \A w \in Updaters : upc'[w] = "published" /\ mutex' = None /\ completed - idx'[w] >= 2
                               => owed'[w] = {}
    BY <1>1, <1>3 DEF Ordered, Covered
  <2>3. \A v \in Updaters \ {u} :
              /\ upc'[v] = upc[v] /\ idx'[v] = idx[v] /\ owed'[v] = owed[v]
              /\ \A r \in Readers : r \in sched[v] => r \in sched'[v]
    BY <1>1, <1>3
  <2> QED BY <1>3, <1>4, <2>1, <2>2, <2>3, CoveredByUpdater
<1>9. /\ mutex' \in Updaters \cup {None} /\ completed' \in Nat /\ idx' \in [Updaters -> Nat]
      /\ pos' \in [Updaters -> 1 .. NCPU + 1] /\ sum' \in [Updaters -> 0 .. Modulus - 1]
      /\ sched' \in [Updaters -> SUBSET (Readers \cup Updaters)]
  BY <1>1, <1>2, <1>4 DEF SrcuTypeOK
<1> QED BY <1>1, <1>2, <1>3, <1>4, <1>5, <1>6, <1>7, <1>8, <1>9, UpdaterRest

------------------------------------------------------------------------------
(* The counters. *)

\* Machine sums can be rearranged.
LEMMA WrapSums ==
    ASSUME NEW x \in 0 .. Modulus - 1, NEW y \in 0 .. Modulus - 1, NEW z \in 0 .. Modulus - 1
    PROVE  /\ Wrap(Wrap(x + y) + z) = Wrap(x + Wrap(y + z))
           /\ Wrap(Wrap(x - Wrap(y + z)) + y) = Wrap(x - z)
BY SrcuConstants DEF Wrap

\* A term that moves by one moves the sum by one.
LEMMA WrapStep ==
    ASSUME NEW x \in 0 .. Modulus - 1, NEW y \in 0 .. Modulus - 1, NEW d \in {-1, 1}
    PROVE  /\ Wrap(x + Wrap(y + d)) = Wrap(Wrap(x + y) + d)
           /\ Wrap(Wrap(x + d) + y) = Wrap(Wrap(x + y) + d)
           /\ Wrap(x + d) \in 0 .. Modulus - 1
<1>1. CASE d = 1
  BY <1>1, SrcuConstants DEF Wrap
<1>2. CASE d = -1
  BY <1>2, SrcuConstants DEF Wrap
<1> QED BY <1>1, <1>2

LEMMA WrapZero ==
    ASSUME NEW x \in 0 .. Modulus - 1
    PROVE  Wrap(0 + x) = x /\ Wrap(x - 0) = x /\ Wrap(x - x) = 0
BY SrcuConstants DEF Wrap

\* Fewer critical sections than readers, and fewer readers than an int can count.
LEMMA SectionCount ==
    ASSUME NEW i \in {0, 1}
    PROVE  /\ IsFiniteSet(Sections(i)) /\ Cardinality(Sections(i)) \in 0 .. Cardinality(Readers)
           /\ Cardinality(Sections(i)) \in 0 .. Modulus - 1
<1>1. Sections(i) \in SUBSET Readers
  BY DEF Sections
<1>2. /\ IsFiniteSet(Sections(i)) /\ Cardinality(Sections(i)) <= Cardinality(Readers)
      /\ Cardinality(Sections(i)) \in Nat
  BY <1>1, SrcuConstants, FS_Subset, FS_CardinalityType
<1> QED BY <1>2, SrcuConstants

\* Scans that go on, or begin anew, add up what is there.
LEMMA CountersStay ==
    ASSUME SrcuTypeOK, Counted, UNCHANGED c,
           \A i \in {0, 1} : Sections(i)' = Sections(i),
           \A u \in Updaters : upc'[u] = "scan" =>
              /\ idx'[u] = idx[u]
              /\ \/ pos'[u] = 1 /\ sum'[u] = 0
                 \/ upc[u] = "scan" /\ pos'[u] = pos[u] /\ sum'[u] = sum[u]
                 \/ /\ upc[u] = "scan" /\ pos[u] \in CPUs /\ pos'[u] = pos[u] + 1
                    /\ sum'[u] = Wrap(sum[u] + c[pos[u]][idx[u]])
    PROVE  Counted'
<1> SUFFICES ASSUME NEW i \in {0, 1}
             PROVE  \E Sums : SumsUp(i, Sums)'
  BY DEF Counted
<1>1. PICK Sums : SumsUp(i, Sums)
  BY DEF Counted
<1>2. Totals(i, Sums)'
  BY <1>1 DEF SumsUp, Totals
<1>3. Sums[1] = Cardinality(Sections(i)')
  BY <1>1 DEF SumsUp
<1>4. ASSUME NEW u \in Updaters, upc'[u] = "scan", idx'[u] = i
      PROVE  Wrap(sum'[u] + Sums[pos'[u]]) \in Cardinality(Sections(i)) .. Cardinality(Readers)
  <2>1. \A cpu \in 1 .. NCPU + 1 : Sums[cpu] \in 0 .. Modulus - 1
    BY <1>1 DEF SumsUp, Totals
  <2>2. CASE pos'[u] = 1 /\ sum'[u] = 0
    <3>1. Wrap(0 + Sums[1]) = Sums[1]
      BY <2>1, WrapZero, SrcuConstants
    <3> QED BY <1>1, <2>2, <3>1, SectionCount DEF SumsUp
  <2>3. CASE upc[u] = "scan" /\ pos'[u] = pos[u] /\ sum'[u] = sum[u]
    BY <1>1, <1>4, <2>3 DEF SumsUp
  <2>4. CASE /\ upc[u] = "scan" /\ pos[u] \in CPUs /\ pos'[u] = pos[u] + 1
             /\ sum'[u] = Wrap(sum[u] + c[pos[u]][idx[u]])
    <3>1. idx[u] = i
      BY <1>4
    <3>2. /\ sum[u] \in 0 .. Modulus - 1 /\ c[pos[u]][i] \in 0 .. Modulus - 1
          /\ pos[u] + 1 \in 1 .. NCPU + 1
      <4>1. sum[u] \in 0 .. Modulus - 1
        BY DEF SrcuTypeOK
      <4>2. c[pos[u]][i] \in 0 .. Modulus - 1
        BY <2>4 DEF SrcuTypeOK
      <4>3. pos[u] + 1 \in 1 .. NCPU + 1
        BY <2>4, SrcuConstants
      <4> QED BY <4>1, <4>2, <4>3
    <3>3. Sums[pos[u]] = Wrap(c[pos[u]][i] + Sums[pos[u] + 1])
      BY <1>1, <2>4 DEF SumsUp, Totals
    <3>4. Wrap(sum'[u] + Sums[pos'[u]]) = Wrap(sum[u] + Sums[pos[u]])
      BY <2>1, <2>4, <3>1, <3>2, <3>3, WrapSums
    <3> QED BY <1>1, <2>4, <3>1, <3>4 DEF SumsUp
  <2> QED BY <1>4, <2>2, <2>3, <2>4
<1> QED BY <1>2, <1>3, <1>4 DEF SumsUp

\* A counter that is raised or lowered moves the sums it is part of.
LEMMA TotalsMove ==
    ASSUME SrcuTypeOK, NEW cpu \in CPUs, NEW i \in {0, 1}, NEW d \in {-1, 1},
           c' = [c EXCEPT ![cpu][i] = Wrap(c[cpu][i] + d)],
           NEW Sums, Totals(i, Sums)
    PROVE  Totals(i, [k \in 1 .. NCPU + 1 |-> IF k <= cpu THEN Wrap(Sums[k] + d) ELSE Sums[k]])'
<1> DEFINE New == [k \in 1 .. NCPU + 1 |-> IF k <= cpu THEN Wrap(Sums[k] + d) ELSE Sums[k]]
<1>1. cpu \in 1 .. NCPU /\ NCPU \in Nat
  BY SrcuConstants
<1>2. \A k \in 1 .. NCPU + 1 : Sums[k] \in 0 .. Modulus - 1
  BY DEF Totals
<1>3. \A k \in CPUs : c[k][i] \in 0 .. Modulus - 1
  <2>1. c \in [CPUs -> [{0, 1} -> 0 .. Modulus - 1]]
    BY DEF SrcuTypeOK
  <2> QED BY <2>1
<1>4. \A k \in 1 .. NCPU + 1 : Wrap(Sums[k] + d) \in 0 .. Modulus - 1
  BY <1>2, WrapStep
<1>5. Wrap(c[cpu][i] + d) \in 0 .. Modulus - 1
  BY <1>3, WrapStep
<1>6. c'[cpu][i] = Wrap(c[cpu][i] + d) /\ \A k \in CPUs \ {cpu} : c'[k][i] = c[k][i]
  BY <1>5, CounterMoves
<1>7. New \in [1 .. NCPU + 1 -> 0 .. Modulus - 1]
  BY <1>2, <1>4
<1>8. New[NCPU + 1] = 0
  BY <1>1 DEF Totals
<1>9. ASSUME NEW k \in CPUs
      PROVE  New[k] = Wrap(c'[k][i] + New[k + 1])
  <2>1. k \in 1 .. NCPU + 1 /\ k + 1 \in 1 .. NCPU + 1 /\ k \in Int /\ cpu \in Int
    BY <1>1
  <2>2. /\ Sums[k] = Wrap(c[k][i] + Sums[k + 1])
        /\ c[k][i] \in 0 .. Modulus - 1 /\ Sums[k + 1] \in 0 .. Modulus - 1
    BY <1>2, <1>3, <2>1 DEF Totals
  <2>3. CASE k < cpu
    <3>1. k <= cpu /\ k + 1 <= cpu /\ k # cpu
      BY <2>1, <2>3
    <3>2. New[k] = Wrap(Sums[k] + d) /\ New[k + 1] = Wrap(Sums[k + 1] + d) /\ c'[k][i] = c[k][i]
      BY <1>6, <2>1, <3>1
    <3>3. Wrap(c[k][i] + Wrap(Sums[k + 1] + d)) = Wrap(Wrap(c[k][i] + Sums[k + 1]) + d)
      BY <2>2, WrapStep
    <3> HIDE DEF New
    <3> QED BY <2>2, <3>2, <3>3
  <2>4. CASE k = cpu
    <3>1. k <= cpu /\ ~(k + 1 <= cpu)
      BY <2>1, <2>4
    <3>2. New[k] = Wrap(Sums[k] + d) /\ New[k + 1] = Sums[k + 1] /\ c'[k][i] = Wrap(c[k][i] + d)
      BY <1>6, <2>1, <2>4, <3>1
    <3>3. Wrap(Wrap(c[k][i] + d) + Sums[k + 1]) = Wrap(Wrap(c[k][i] + Sums[k + 1]) + d)
      BY <2>2, WrapStep
    <3> HIDE DEF New
    <3> QED BY <2>2, <3>2, <3>3
  <2>5. CASE k > cpu
    <3>1. ~(k <= cpu) /\ ~(k + 1 <= cpu) /\ k # cpu
      BY <2>1, <2>5
    <3>2. New[k] = Sums[k] /\ New[k + 1] = Sums[k + 1] /\ c'[k][i] = c[k][i]
      BY <1>6, <2>1, <3>1
    <3> HIDE DEF New
    <3> QED BY <2>2, <3>2
  <2> QED BY <2>1, <2>3, <2>4, <2>5
<1> QED BY <1>7, <1>8, <1>9 DEF Totals

\* The other rank does not notice.
LEMMA OtherRank ==
    ASSUME SrcuTypeOK, Counted, UNCHANGED <<upc, idx, pos, sum>>,
           NEW cpu \in CPUs, NEW i \in {0, 1}, NEW n \in 0 .. Modulus - 1,
           c' = [c EXCEPT ![cpu][i] = n],
           NEW j \in {0, 1}, j # i, Sections(j)' = Sections(j)
    PROVE  \E Sums : SumsUp(j, Sums)'
<1>1. PICK Sums : SumsUp(j, Sums)
  BY DEF Counted
<1>2. \A k \in CPUs : c'[k][j] = c[k][j]
  BY CounterMoves
<1>3. Totals(j, Sums)'
  BY <1>1, <1>2 DEF SumsUp, Totals
<1> QED BY <1>1, <1>3 DEF SumsUp

\* A reader that counts itself joins a rank that nobody is adding up.
LEMMA ReaderCounted ==
    ASSUME Ordered, Counted, NEW r \in Readers, read_lock_count(r)
    PROVE  Counted'
<1>0. SrcuTypeOK
  BY DEF Ordered, RankDrains
<1> PICK cpu \in CPUs, i \in {0, 1} : cpu = rcpu[r] /\ i = ridx[r]
  BY <1>0 DEF SrcuTypeOK
<1>1. /\ rpc[r] = "locking"
      /\ UNCHANGED <<ridx, updaterVars>>
      /\ rpc' = [rpc EXCEPT ![r] = "cs"]
      /\ c' = [c EXCEPT ![cpu][i] = Wrap(c[cpu][i] + 1)]
  BY DEF read_lock_count
<1>2. SrcuTypeOK /\ ridx \in [Readers -> {0, 1}]
  BY DEF Ordered, RankDrains, SrcuTypeOK
<1>3. rpc'[r] = "cs" /\ \A o \in Readers \ {r} : rpc'[o] = rpc[o]
  BY <1>1, <1>2, ReaderMoves
<1>4. UNCHANGED <<upc, idx, pos, sum>>
  BY <1>1 DEF updaterVars
<1>5. r \notin Sections(i) /\ Sections(i)' = Sections(i) \cup {r}
  BY <1>1, <1>3 DEF Sections
<1>6. Cardinality(Sections(i)') = Cardinality(Sections(i)) + 1
  BY <1>2, <1>5, SectionCount, FS_AddElement
<1>7. Cardinality(Sections(i)') <= Cardinality(Readers)
  <2>1. Sections(i)' \in SUBSET Readers
    BY DEF Sections
  <2> QED BY <2>1, SrcuConstants, FS_Subset
<1>8. \A u \in Updaters : ~(upc[u] = "scan" /\ idx[u] = i)
  BY <1>1 DEF Ordered, RankDrains, OldLocksDone
<1>9. PICK Sums : SumsUp(i, Sums)
  BY <1>2 DEF Counted
<1> PICK New : New = [k \in 1 .. NCPU + 1 |-> IF k <= cpu THEN Wrap(Sums[k] + 1) ELSE Sums[k]]
  OBVIOUS
<1>10. Totals(i, New)'
  <2>1. 1 \in {-1, 1} /\ Totals(i, Sums)
    BY <1>9 DEF SumsUp
  <2> QED BY <1>1, <1>2, <2>1, TotalsMove
<1>11. New[1] = Cardinality(Sections(i)')
  <2>1. Sums[1] = Cardinality(Sections(i)) /\ Cardinality(Sections(i)) \in Nat
    BY <1>2, <1>9, SectionCount DEF SumsUp
  <2>2. Wrap(Cardinality(Sections(i)) + 1) = Cardinality(Sections(i)) + 1
    BY <1>6, <1>7, <2>1, SrcuConstants DEF Wrap
  <2>3. New[1] = Wrap(Sums[1] + 1)
    BY <1>2, SrcuConstants
  <2> QED BY <1>6, <2>1, <2>2, <2>3
<1>12. SumsUp(i, New)'
  BY <1>4, <1>8, <1>10, <1>11 DEF SumsUp
<1>13. ASSUME NEW j \in {0, 1}, j # i
       PROVE  \E S : SumsUp(j, S)'
  <2>1. Sections(j)' = Sections(j)
    BY <1>1, <1>3, <1>13 DEF Sections
  <2>2. c[cpu][i] \in 0 .. Modulus - 1
    BY <1>2 DEF SrcuTypeOK
  <2>3. Wrap(c[cpu][i] + 1) \in 0 .. Modulus - 1
    BY <2>2, WrapStep
  <2> QED BY <1>1, <1>2, <1>4, <1>13, <2>1, <2>3, OtherRank
<1> QED BY <1>12, <1>13 DEF Counted

\* One that leaves lowers the sum of a scan that has not passed its CPU.
LEMMA ReaderLeaves ==
    ASSUME Ordered, Counted, NEW r \in Readers, srcu_read_unlock(r)
    PROVE  Counted'
<1>0. SrcuTypeOK
  BY DEF Ordered, RankDrains
<1> PICK i \in {0, 1} : i = ridx[r]
  BY <1>0 DEF SrcuTypeOK
<1>1. /\ rpc[r] = "cs"
      /\ UNCHANGED <<ridx, updaterVars>>
      /\ rpc' = [rpc EXCEPT ![r] = "unlocking"]
  BY DEF srcu_read_unlock
<1>2. PICK cpu \in CPUs : c' = [c EXCEPT ![cpu][i] = Wrap(c[cpu][i] - 1)]
  BY DEF srcu_read_unlock
<1>3. SrcuTypeOK /\ ridx \in [Readers -> {0, 1}]
  BY DEF Ordered, RankDrains, SrcuTypeOK
<1>4. rpc'[r] = "unlocking" /\ \A o \in Readers \ {r} : rpc'[o] = rpc[o]
  BY <1>1, <1>3, ReaderMoves
<1>5. UNCHANGED <<upc, idx, pos, sum>>
  BY <1>1 DEF updaterVars
<1>6. r \in Sections(i) /\ Sections(i)' = Sections(i) \ {r}
  BY <1>1, <1>4 DEF Sections
<1>7. /\ Cardinality(Sections(i)') = Cardinality(Sections(i)) - 1
      /\ Cardinality(Sections(i)') \in Nat /\ Cardinality(Sections(i)) \in 0 .. Modulus - 1
  <2>1. IsFiniteSet(Sections(i)) /\ Cardinality(Sections(i)) \in 0 .. Modulus - 1
    BY <1>3, SectionCount
  <2>2. IsFiniteSet(Sections(i) \ {r}) /\ Cardinality(Sections(i) \ {r}) = Cardinality(Sections(i)) - 1
    BY <1>6, <2>1, FS_RemoveElement
  <2>3. Cardinality(Sections(i) \ {r}) \in Nat
    BY <2>2, FS_CardinalityType
  <2> QED BY <1>6, <2>1, <2>2, <2>3
<1>8. PICK Sums : SumsUp(i, Sums)
  BY <1>3 DEF Counted
<1>9. \A k \in 1 .. NCPU + 1 : Sums[k] \in 0 .. Modulus - 1
  BY <1>8 DEF SumsUp, Totals
<1>10. cpu \in 1 .. NCPU /\ 1 <= cpu /\ 1 \in 1 .. NCPU + 1 /\ -1 \in {-1, 1}
  BY SrcuConstants
<1>11. \A x \in 0 .. Modulus - 1 : Wrap(x + (-1)) = Wrap(x - 1)
  BY SrcuConstants
<1> PICK New : New = [k \in 1 .. NCPU + 1 |-> IF k <= cpu THEN Wrap(Sums[k] + (-1)) ELSE Sums[k]]
  OBVIOUS
<1>12. Totals(i, New)'
  <2>1. Totals(i, Sums)
    BY <1>8 DEF SumsUp
  <2>2. c[cpu][i] \in 0 .. Modulus - 1
    <3>1. c \in [CPUs -> [{0, 1} -> 0 .. Modulus - 1]]
      BY <1>3 DEF SrcuTypeOK
    <3> QED BY <3>1
  <2>3. c' = [c EXCEPT ![cpu][i] = Wrap(c[cpu][i] + (-1))]
    BY <1>2, <1>11, <2>2
  <2> QED BY <1>3, <1>10, <2>1, <2>3, TotalsMove
<1>13. New[1] = Cardinality(Sections(i)')
  <2>1. Sums[1] = Cardinality(Sections(i))
    BY <1>8 DEF SumsUp
  <2>2. Wrap(Cardinality(Sections(i)) + (-1)) = Cardinality(Sections(i)) - 1
    <3> DEFINE n == Cardinality(Sections(i))
    <3>1. n \in 0 .. Modulus - 1 /\ n - 1 \in Nat
      BY <1>7
    <3> HIDE DEF n
    <3>2. Wrap(n + (-1)) = n - 1
      BY <3>1, SrcuConstants DEF Wrap
    <3> QED BY <3>2 DEF n
  <2>3. New[1] = Wrap(Sums[1] + (-1))
    BY <1>10
  <2> QED BY <1>7, <2>1, <2>2, <2>3
<1>14. ASSUME NEW u \in Updaters, upc'[u] = "scan", idx'[u] = i
       PROVE  Wrap(sum'[u] + New[pos'[u]]) \in Cardinality(Sections(i)') .. Cardinality(Readers)
  <2>1. sum'[u] = sum[u] /\ sum[u] \in 0 .. Modulus - 1 /\ pos'[u] = pos[u] /\ pos[u] \in 1 .. NCPU + 1
    BY <1>3, <1>5 DEF SrcuTypeOK
  <2>2. Wrap(sum[u] + Sums[pos[u]]) \in Cardinality(Sections(i)) .. Cardinality(Readers)
    BY <1>5, <1>8, <1>14 DEF SumsUp
  <2>3. CASE pos[u] <= cpu
    <3>1. New[pos[u]] = Wrap(Sums[pos[u]] + (-1))
      BY <2>1, <2>3
    <3>2. Wrap(sum[u] + Wrap(Sums[pos[u]] + (-1))) = Wrap(Wrap(sum[u] + Sums[pos[u]]) + (-1))
      <4>1. Sums[pos[u]] \in 0 .. Modulus - 1 /\ sum[u] \in 0 .. Modulus - 1
        BY <1>9, <2>1
      <4> QED BY <1>10, <4>1, WrapStep
    <3>3. Wrap(Wrap(sum[u] + Sums[pos[u]]) + (-1)) = Wrap(sum[u] + Sums[pos[u]]) - 1
      <4> DEFINE v == Wrap(sum[u] + Sums[pos[u]])
      <4>1. v \in Int /\ v >= 1 /\ v < Modulus
        BY <1>7, <2>2, SrcuConstants
      <4> HIDE DEF v
      <4>2. Wrap(v + (-1)) = v - 1
        BY <4>1, SrcuConstants DEF Wrap
      <4> QED BY <4>2 DEF v
    <3> QED BY <1>7, <2>1, <2>2, <3>1, <3>2, <3>3, SrcuConstants
  <2>4. CASE ~(pos[u] <= cpu)
    <3>1. New[pos[u]] = Sums[pos[u]]
      BY <2>1, <2>4
    <3> QED BY <1>7, <2>1, <2>2, <3>1, SrcuConstants
  <2> QED BY <2>3, <2>4
<1>15. SumsUp(i, New)'
  BY <1>12, <1>13, <1>14 DEF SumsUp
<1>16. ASSUME NEW j \in {0, 1}, j # i
       PROVE  \E S : SumsUp(j, S)'
  <2>1. Sections(j)' = Sections(j)
    BY <1>1, <1>4, <1>16 DEF Sections
  <2>2. c[cpu][i] \in 0 .. Modulus - 1 /\ 1 \in 0 .. Modulus - 1
    <3>1. c \in [CPUs -> [{0, 1} -> 0 .. Modulus - 1]]
      BY <1>3 DEF SrcuTypeOK
    <3> QED BY <3>1, AReader
  <2>3. Wrap(c[cpu][i] - 1) \in 0 .. Modulus - 1
    BY <2>2, WrapType
  <2> QED BY <1>2, <1>3, <1>5, <1>16, <2>1, <2>3, OtherRank
<1> QED BY <1>15, <1>16 DEF Counted

\* srcu_readers_active_idx() computes the total.
LEMMA ActiveIdx ==
    ASSUME SrcuTypeOK, NEW i \in {0, 1}, NEW Sums, Totals(i, Sums)
    PROVE  srcu_readers_active_idx(i) = Sums[1]
<1> DEFINE T(t) == t = [cpu \in 0..NCPU |-> IF cpu = 0 THEN 0 ELSE Wrap(t[cpu - 1] + c[cpu][i])]
<1>1. NCPU \in Nat /\ NCPU > 0
  BY SrcuConstants
<1>2. \A k \in 1 .. NCPU + 1 : Sums[k] \in 0 .. Modulus - 1
  BY DEF Totals
<1>3. \A cpu \in CPUs : c[cpu][i] \in 0 .. Modulus - 1
  <2>1. c \in [CPUs -> [{0, 1} -> 0 .. Modulus - 1]]
    BY DEF SrcuTypeOK
  <2> QED BY <2>1
<1> PICK g : g = [cpu \in 0..NCPU |-> Wrap(Sums[1] - Sums[cpu + 1])]
  OBVIOUS
<1>4. g[0] = 0
  <2>1. Sums[1] \in 0 .. Modulus - 1 /\ 0 \in 0..NCPU
    BY <1>1, <1>2
  <2>2. Wrap(Sums[1] - Sums[1]) = 0
    BY <2>1, WrapZero
  <2> QED BY <2>1, <2>2
<1>5. ASSUME NEW cpu \in CPUs
      PROVE  g[cpu] = Wrap(g[cpu - 1] + c[cpu][i])
  <2>1. /\ cpu \in 0..NCPU /\ cpu - 1 \in 0..NCPU /\ (cpu - 1) + 1 = cpu
        /\ 1 \in 1 .. NCPU + 1 /\ cpu + 1 \in 1 .. NCPU + 1
    BY <1>1
  <2>2. g[cpu] = Wrap(Sums[1] - Sums[cpu + 1]) /\ g[cpu - 1] = Wrap(Sums[1] - Sums[cpu])
    BY <2>1
  <2>3. Sums[cpu] = Wrap(c[cpu][i] + Sums[cpu + 1])
    BY DEF Totals
  <2>4. Sums[1] \in 0 .. Modulus - 1 /\ Sums[cpu + 1] \in 0 .. Modulus - 1
    BY <1>2, <2>1
  <2>5. Wrap(Wrap(Sums[1] - Wrap(c[cpu][i] + Sums[cpu + 1])) + c[cpu][i])
           = Wrap(Sums[1] - Sums[cpu + 1])
    BY <1>3, <2>4, WrapSums
  <2> QED BY <2>2, <2>3, <2>5
<1>6. T(g)
  <2>1. ASSUME NEW cpu \in 0..NCPU
        PROVE  g[cpu] = IF cpu = 0 THEN 0 ELSE Wrap(g[cpu - 1] + c[cpu][i])
    <3>1. CASE cpu = 0
      BY <1>4, <3>1
    <3>2. CASE cpu \in CPUs
      <4>1. cpu # 0
        BY <3>2
      <4> QED BY <1>5, <3>2, <4>1
    <3>3. cpu = 0 \/ cpu \in CPUs
      BY <1>1
    <3> QED BY <3>1, <3>2, <3>3
  <2> QED BY <2>1
<1>7. T(CHOOSE t : T(t))
  <2> HIDE DEF T
  <2> QED BY <1>6
<1> PICK total : T(total) /\ srcu_readers_active_idx(i) = total[NCPU]
  BY <1>7 DEF srcu_readers_active_idx
<1>8. ASSUME NEW k \in 0..NCPU, total[k] # g[k]
      PROVE  FALSE
  <2> DEFINE Wrong == {n \in 0..NCPU : total[n] # g[n]}
  <2>1. Wrong \in SUBSET Nat /\ Wrong # {}
    <3>1. k \in Wrong
      BY <1>8
    <3>2. \A n \in Wrong : n \in Nat
      OBVIOUS
    <3> QED BY <3>1, <3>2
  <2>2. PICK m \in Wrong : \A n \in Wrong : m <= n
    <3> HIDE DEF Wrong
    <3> QED BY <2>1, LeastNatural
  <2>3. m \in 0..NCPU /\ total[m] # g[m]
    OBVIOUS
  <2>4. total[0] = 0
    BY <1>1
  <2>5. m \in CPUs /\ m - 1 \in 0..NCPU /\ m - 1 < m
    BY <1>1, <1>4, <2>3, <2>4
  <2>6. total[m - 1] = g[m - 1]
    BY <2>2, <2>5
  <2>7. total[m] = Wrap(total[m - 1] + c[m][i])
    BY <2>3, <2>5
  <2> QED BY <1>5, <2>3, <2>5, <2>6, <2>7
<1>9. total[NCPU] = Wrap(Sums[1] - Sums[NCPU + 1])
  <2>1. NCPU \in 0..NCPU
    BY <1>1
  <2> QED BY <1>8, <2>1
<1>10. Wrap(Sums[1] - 0) = Sums[1]
  <2>1. Sums[1] \in 0 .. Modulus - 1
    BY <1>1, <1>2
  <2> QED BY <2>1, WrapZero
<1> QED BY <1>9, <1>10 DEF Totals

\* The counters are freed when nobody uses them.
LEMMA CleanupSrcuStruct ==
    ASSUME Ordered, Counted, cleanup_srcu_struct
    PROVE  Ordered' /\ Counted'
<1>1. /\ Windows = {} /\ \A u \in Updaters : upc[u] = "idle"
      /\ srcu_readers_active = 0
      /\ alive' = FALSE
      /\ UNCHANGED <<completed, c, readerVars, updaterVars, sched, owed>>
  BY DEF cleanup_srcu_struct
<1>2. SrcuTypeOK
  BY DEF Ordered, RankDrains
<1>3. UNCHANGED <<completed, c, rpc, ridx, rcpu, mutex, upc, idx, pos, sum, sched, owed>>
  BY <1>1 DEF readerVars, updaterVars
<1>4. ASSUME NEW i \in {0, 1}
      PROVE  srcu_readers_active_idx(i) = Cardinality(Sections(i))
  <2>1. PICK Sums : SumsUp(i, Sums)
    BY DEF Counted
  <2> QED BY <1>2, <2>1, ActiveIdx DEF SumsUp
<1>5. Sections(0) \cap Sections(1) = {} /\ Sections(0) \cup Sections(1) \in SUBSET Readers
  BY DEF Sections
<1>6. Sections(0) = {} /\ Sections(1) = {}
  <2> DEFINE n0 == Cardinality(Sections(0))
             n1 == Cardinality(Sections(1))
  <2>1. IsFiniteSet(Sections(0)) /\ IsFiniteSet(Sections(1)) /\ n0 \in Nat /\ n1 \in Nat
    BY SectionCount, SrcuConstants
  <2>2. Cardinality(Sections(0) \cap Sections(1)) = 0
    BY <1>5, FS_EmptySet
  <2>3. Cardinality(Sections(0) \cup Sections(1)) = n0 + n1 - Cardinality(Sections(0) \cap Sections(1))
    BY <2>1, FS_Union
  <2>4. Cardinality(Sections(0) \cup Sections(1)) <= Cardinality(Readers)
    BY <1>5, SrcuConstants, FS_Subset
  <2>5. Wrap(n0 + n1) = 0
    BY <1>1, <1>4 DEF srcu_readers_active
  <2> HIDE DEF n0, n1
  <2>6. n0 = 0 /\ n1 = 0
    BY <2>1, <2>2, <2>3, <2>4, <2>5, SrcuConstants DEF Wrap
  <2> QED BY <2>1, <2>6, FS_EmptySet DEF n0, n1
<1>7. \A r \in Readers : rpc[r] = "idle"
  BY <1>1, <1>2, <1>6 DEF Windows, Sections, SrcuTypeOK
<1>8. SrcuTypeOK'
  BY <1>1, <1>2, <1>3 DEF SrcuTypeOK
<1>9. OldLocksDone' /\ OldRankDrained' /\ Holder' /\ Ranks' /\ Waits'
  BY <1>3 DEF Ordered, RankDrains, OldLocksDone, OldRankDrained, Holder, Ranks, Waits
<1>10. Lagging' /\ Owes'
  BY <1>3 DEF Ordered, Lagging, Owes
<1>11. Covered'
  BY <1>3 DEF Ordered, Covered, Covers, Serves
<1>12. Freed'
  BY <1>1, <1>3, <1>7 DEF Freed
<1>13. Counted'
  BY <1>2, <1>3, CountersStay DEF Sections
<1> QED BY <1>8, <1>9, <1>10, <1>11, <1>12, <1>13 DEF Ordered, RankDrains

\* Empty counters are the sum of no critical sections.
LEMMA NobodyCounted ==
    ASSUME c = [cpu \in CPUs |-> [i \in {0, 1} |-> 0]],
           \A r \in Readers : rpc[r] = "idle", \A u \in Updaters : upc[u] = "idle"
    PROVE  Counted
<1> SUFFICES ASSUME NEW i \in {0, 1}
             PROVE  \E Sums : SumsUp(i, Sums)
  BY DEF Counted
<1> PICK Sums : Sums = [k \in 1 .. NCPU + 1 |-> 0]
  OBVIOUS
<1>1. NCPU \in Nat /\ NCPU > 0 /\ 0 \in 0 .. Modulus - 1 /\ Wrap(0 + 0) = 0
  BY SrcuConstants DEF Wrap
<1>2. \A cpu \in CPUs : Sums[cpu] = 0 /\ Sums[cpu + 1] = 0 /\ c[cpu][i] = 0
  <2>1. \A cpu \in CPUs : cpu \in 1 .. NCPU + 1 /\ cpu + 1 \in 1 .. NCPU + 1
    BY <1>1
  <2> QED BY <2>1
<1>3. Totals(i, Sums)
  BY <1>1, <1>2 DEF Totals
<1>4. Sections(i) = {}
  BY DEF Sections
<1>5. Sums[1] = Cardinality(Sections(i))
  BY <1>1, <1>4, FS_EmptySet
<1> QED BY <1>3, <1>5 DEF SumsUp

LEMMA InitSrcuStruct ==
    ASSUME Ordered, Counted, init_srcu_struct
    PROVE  Ordered' /\ Counted'
<1>1. /\ ~alive /\ completed' = 0 /\ alive' = TRUE
      /\ c' = [cpu \in CPUs |-> [i \in {0, 1} |-> 0]]
      /\ UNCHANGED <<readerVars, updaterVars, sched, owed>>
  BY DEF init_srcu_struct
<1>2. SrcuTypeOK /\ (\A r \in Readers : rpc[r] = "idle") /\ (\A u \in Updaters : upc[u] = "idle")
  BY <1>1 DEF Ordered, RankDrains, Freed
<1>3. UNCHANGED <<rpc, ridx, rcpu, mutex, upc, idx, pos, sum, sched, owed>>
  BY <1>1 DEF readerVars, updaterVars
<1>4. c' \in [CPUs -> [{0, 1} -> 0 .. Modulus - 1]]
  <2>1. 0 \in 0 .. Modulus - 1
    BY SrcuConstants
  <2> QED BY <1>1, <2>1
<1>5. SrcuTypeOK'
  BY <1>1, <1>2, <1>3, <1>4 DEF SrcuTypeOK
<1>6. OldLocksDone' /\ OldRankDrained' /\ Holder' /\ Ranks' /\ Waits' /\ Lagging'
  BY <1>2, <1>3 DEF Ordered, OldLocksDone, OldRankDrained, Holder, Ranks, Waits, Lagging
<1>7. Covered' /\ Owes'
  BY <1>2, <1>3 DEF Ordered, Covered, Owes
<1>8. Freed'
  BY <1>1 DEF Freed
<1>9. Counted'
  <2>1. ASSUME NEW i \in {0, 1}
        PROVE  \E Sums : SumsUp(i, Sums)'
    <3> PICK Sums : Sums = [k \in 1 .. NCPU + 1 |-> 0]
      OBVIOUS
    <3>1. NCPU \in Nat /\ NCPU > 0 /\ 0 \in 0 .. Modulus - 1 /\ Wrap(0 + 0) = 0
      BY SrcuConstants DEF Wrap
    <3>2. \A cpu \in CPUs : cpu \in 1 .. NCPU + 1 /\ cpu + 1 \in 1 .. NCPU + 1
      BY <3>1
    <3>3. \A cpu \in CPUs : Sums[cpu] = 0 /\ Sums[cpu + 1] = 0 /\ c'[cpu][i] = 0
      BY <1>1, <3>2
    <3>4. Totals(i, Sums)'
      BY <3>1, <3>3 DEF Totals
    <3>5. Sections(i)' = {}
      BY <1>2, <1>3 DEF Sections
    <3>6. Sums[1] = Cardinality(Sections(i)')
      BY <3>1, <3>5, FS_EmptySet
    <3> QED BY <1>2, <1>3, <3>4, <3>6 DEF SumsUp
  <2> QED BY <2>1 DEF Counted
<1> QED BY <1>5, <1>6, <1>7, <1>8, <1>9 DEF Ordered, RankDrains

------------------------------------------------------------------------------
LEMMA SrcuInitIInv ==
    ASSUME SrcuInit
    PROVE  SrcuIInv
<1>1. /\ \A r \in Readers : rpc[r] = "idle" /\ ridx[r] = 0 /\ rcpu[r] = 1
      /\ \A u \in Updaters : upc[u] = "idle" /\ owed[u] = {}
      /\ mutex = None /\ alive = TRUE /\ completed = 0
  BY DEF SrcuInit
<1>2. SrcuTypeOK
  <2>1. 0 \in 0 .. Modulus - 1 /\ 1 \in CPUs /\ 1 \in 1 .. NCPU + 1
    BY SrcuConstants
  <2>2. c \in [CPUs -> [{0, 1} -> 0 .. Modulus - 1]]
    BY <2>1 DEF SrcuInit
  <2>3. rcpu \in [Readers -> CPUs] /\ rpc \in [Readers -> ReaderPCs] /\ ridx \in [Readers -> {0, 1}]
    BY <2>1 DEF SrcuInit
  <2> QED BY <2>1, <2>2, <2>3 DEF SrcuInit, SrcuTypeOK
<1>3. OldLocksDone /\ OldRankDrained /\ Ranks /\ Waits /\ Lagging
  BY <1>1 DEF OldLocksDone, OldRankDrained, Ranks, Waits, Lagging
<1>4. Holder
  BY <1>1, SrcuConstants DEF Holder
<1>5. Covered /\ Owes /\ Freed
  BY <1>1 DEF Covered, Owes, Freed
<1>6. Counted
  <2>1. c = [cpu \in CPUs |-> [i \in {0, 1} |-> 0]]
    BY DEF SrcuInit
  <2> QED BY <1>1, <2>1, NobodyCounted
<1> QED BY <1>2, <1>3, <1>4, <1>5, <1>6 DEF SrcuIInv, Ordered, RankDrains

\* A step that changes nothing of what the invariant is about.
LEMMA SrcuStutter ==
    ASSUME SrcuIInv, UNCHANGED srcuVars
    PROVE  SrcuIInv'
<1>1. UNCHANGED <<completed, c, alive, rpc, ridx, rcpu, mutex, upc, idx, pos, sum, sched, owed>>
  BY DEF srcuVars, structVars, readerVars, updaterVars
<1>2. Ordered /\ Counted /\ SrcuTypeOK
  BY DEF SrcuIInv, Ordered, RankDrains
<1>3. RankDrains'
  BY <1>1, <1>2 DEF Ordered, RankDrains, SrcuTypeOK, OldLocksDone, OldRankDrained
<1>4. Holder' /\ Ranks' /\ Waits' /\ Lagging'
  BY <1>1, <1>2 DEF Ordered, Holder, Ranks, Waits, Lagging
<1>5. Covered' /\ Owes' /\ Freed'
  BY <1>1, <1>2 DEF Ordered, Covered, Covers, Serves, Owes, Freed
<1>6. Counted'
  BY <1>1, <1>2, CountersStay DEF Sections
<1> QED BY <1>3, <1>4, <1>5, <1>6 DEF SrcuIInv, Ordered

LEMMA ReaderStep ==
    ASSUME SrcuIInv, NEW r \in Readers, Reader(r)
    PROVE  SrcuIInv'
<1>1. Ordered /\ Counted /\ SrcuTypeOK
  BY DEF SrcuIInv, Ordered, RankDrains
<1>2. CASE read_hoist(r)
  <2>1. rpc[r] = "idle" /\ rpc' = [rpc EXCEPT ![r] = "hoisting"] /\ UNCHANGED <<c, ridx, updaterVars>>
    BY <1>2 DEF read_hoist, structVars
  <2>2. rpc'[r] = "hoisting" /\ \A o \in Readers \ {r} : rpc'[o] = rpc[o]
    BY <1>1, <2>1, ReaderMoves
  <2>3. Counted'
    BY <1>1, <2>1, <2>2, CountersStay DEF Sections, updaterVars
  <2> QED BY <1>1, <1>2, <2>3, ReadHoist DEF SrcuIInv
<1>3. CASE read_lock_sample(r)
  <2>1. /\ rpc[r] = "hoisting" /\ rpc' = [rpc EXCEPT ![r] = "locking"]
        /\ ridx' = [ridx EXCEPT ![r] = completed % 2] /\ UNCHANGED <<c, updaterVars>>
    BY <1>3 DEF read_lock_sample, structVars
  <2>2. completed % 2 \in {0, 1}
    BY <1>1, Parity DEF SrcuTypeOK
  <2>3. rpc'[r] = "locking" /\ \A o \in Readers \ {r} : rpc'[o] = rpc[o] /\ ridx'[o] = ridx[o]
    BY <1>1, <2>1, <2>2, ReaderMoves
  <2>4. Counted'
    BY <1>1, <2>1, <2>3, CountersStay DEF Sections, updaterVars
  <2> QED BY <1>1, <1>3, <2>4, ReadLockSample DEF SrcuIInv
<1>4. CASE read_lock_count(r)
  BY <1>1, <1>4, ReadLockCount, ReaderCounted DEF SrcuIInv
<1>5. CASE srcu_read_unlock(r)
  BY <1>1, <1>5, ReadUnlock, ReaderLeaves DEF SrcuIInv
<1>6. CASE read_drain(r)
  <2>1. /\ rpc[r] = "unlocking" /\ rpc' = [rpc EXCEPT ![r] = "idle"]
        /\ ridx' = [ridx EXCEPT ![r] = 0] /\ UNCHANGED <<c, updaterVars>>
    BY <1>6 DEF read_drain, structVars
  <2>2. 0 \in {0, 1}
    OBVIOUS
  <2>3. rpc'[r] = "idle" /\ \A o \in Readers \ {r} : rpc'[o] = rpc[o] /\ ridx'[o] = ridx[o]
    BY <1>1, <2>1, <2>2, ReaderMoves
  <2>4. Counted'
    BY <1>1, <2>1, <2>3, CountersStay DEF Sections, updaterVars
  <2> QED BY <1>1, <1>6, <2>4, ReadDrain DEF SrcuIInv
<1> QED BY <1>2, <1>3, <1>4, <1>5, <1>6 DEF Reader

LEMMA UpdaterStep ==
    ASSUME SrcuIInv, NEW u \in Updaters, sync_call(u) \/ Synchronize(u) \/ caller_frees(u)
    PROVE  SrcuIInv'
<1>1. Ordered /\ Counted /\ SrcuTypeOK
  BY DEF SrcuIInv, Ordered, RankDrains
<1>2. Ordered'
  <2>1. CASE sync_lock(u)
    BY <1>1, <2>1, SyncLockOthersDidIt, SyncLockTaken
  <2> QED BY <1>1, <2>1, SyncCall, SyncPublish, SyncFlip, ScanStart, ScanAdd, ScanEnd, SyncReturn,
             CallerFrees DEF Synchronize
<1>3. UNCHANGED <<c, rpc, ridx>>
  BY DEF Synchronize, sync_call, sync_publish, sync_lock, sync_flip, scan_start, scan_add, scan_end,
         sync_return, caller_frees, structVars, readerVars
<1>4. \A i \in {0, 1} : Sections(i)' = Sections(i)
  BY <1>3 DEF Sections
<1>5. \A v \in Updaters : upc'[v] = "scan" =>
        /\ idx'[v] = idx[v]
        /\ \/ pos'[v] = 1 /\ sum'[v] = 0
           \/ upc[v] = "scan" /\ pos'[v] = pos[v] /\ sum'[v] = sum[v]
           \/ /\ upc[v] = "scan" /\ pos[v] \in CPUs /\ pos'[v] = pos[v] + 1
              /\ sum'[v] = Wrap(sum[v] + c[pos[v]][idx[v]])
  <2> DEFINE Goes(v) ==
        upc'[v] = "scan" =>
        /\ idx'[v] = idx[v]
        /\ \/ pos'[v] = 1 /\ sum'[v] = 0
           \/ upc[v] = "scan" /\ pos'[v] = pos[v] /\ sum'[v] = sum[v]
           \/ /\ upc[v] = "scan" /\ pos[v] \in CPUs /\ pos'[v] = pos[v] + 1
              /\ sum'[v] = Wrap(sum[v] + c[pos[v]][idx[v]])
  <2>1. /\ upc \in [Updaters -> UpdaterPCs] /\ idx \in [Updaters -> Nat]
        /\ pos \in [Updaters -> 1 .. NCPU + 1] /\ sum \in [Updaters -> 0 .. Modulus - 1]
    BY <1>1 DEF SrcuTypeOK
  <2>2. ASSUME scan_start(u), NEW v \in Updaters PROVE Goes(v)
    BY <2>1, <2>2 DEF scan_start, goto
  <2>3. ASSUME scan_add(u), NEW v \in Updaters PROVE Goes(v)
    BY <2>1, <2>3 DEF scan_add
  <2>4. ASSUME ~scan_start(u), ~scan_add(u), NEW v \in Updaters PROVE Goes(v)
    <3>1. \/ upc' = [upc EXCEPT ![u] = "called"] /\ UNCHANGED <<pos, sum>>
                /\ \A w \in Updaters \ {u} : idx'[w] = idx[w]
          \/ upc' = [upc EXCEPT ![u] = "published"] /\ UNCHANGED <<idx, pos, sum>>
          \/ upc' = [upc EXCEPT ![u] = "sched1"] /\ UNCHANGED <<idx, pos, sum>>
          \/ upc' = [upc EXCEPT ![u] = "sched2"] /\ UNCHANGED <<pos, sum>>
                /\ \A w \in Updaters \ {u} : idx'[w] = idx[w]
          \/ upc' \in {[upc EXCEPT ![u] = "sleep"], [upc EXCEPT ![u] = "sched3"]} /\ UNCHANGED idx
                /\ \A w \in Updaters \ {u} : pos'[w] = pos[w] /\ sum'[w] = sum[w]
          \/ upc' = [upc EXCEPT ![u] = "returned"] /\ UNCHANGED <<pos, sum>>
                /\ \A w \in Updaters \ {u} : idx'[w] = idx[w]
          \/ upc' = [upc EXCEPT ![u] = "idle"] /\ UNCHANGED <<idx, pos, sum>>
      BY <2>1, <2>4 DEF Synchronize, sync_call, sync_publish, sync_lock, sync_flip, scan_end,
                        sync_return, caller_frees, goto
    <3>2. upc'[v] = "scan" => v # u /\ upc[v] = "scan"
      BY <2>1, <3>1
    <3> QED BY <3>1, <3>2
  <2> QED BY <2>2, <2>3, <2>4
<1>6. Counted'
  BY <1>1, <1>3, <1>4, <1>5, CountersStay
<1> QED BY <1>2, <1>6 DEF SrcuIInv

\* The invariant that the properties below rest on: the grace period under way
\* covers the readers that its updater, and those it will relieve, wait for,
\* and the counters add up to the critical sections.
THEOREM SrcuInvariant == SrcuSpec => []SrcuIInv
<1>1. SrcuIInv /\ [SrcuNext]_srcuVars => SrcuIInv'
  <2> SUFFICES ASSUME SrcuIInv, [SrcuNext]_srcuVars
               PROVE  SrcuIInv'
    OBVIOUS
  <2>1. CASE \E r \in Readers : Reader(r)
    BY <2>1, ReaderStep
  <2>2. CASE \E u \in Updaters : sync_call(u) \/ Synchronize(u) \/ caller_frees(u)
    BY <2>2, UpdaterStep
  <2>3. CASE cleanup_srcu_struct
    BY <2>3, CleanupSrcuStruct DEF SrcuIInv
  <2>4. CASE init_srcu_struct
    BY <2>4, InitSrcuStruct DEF SrcuIInv
  <2>5. CASE UNCHANGED srcuVars
    BY <2>5, SrcuStutter
  <2> QED BY <2>1, <2>2, <2>3, <2>4, <2>5 DEF SrcuNext
<1> QED BY <1>1, SrcuInitIInv, PTL DEF SrcuSpec

\* kernel/srcu.c, synchronize_srcu(): the rank that is waited for only drains,
\* and is empty when the sum of its counters, read one CPU after the other
\* while readers come and go, is 0.
THEOREM SrcuRankDrains == SrcuSpec => []RankDrains
<1>1. SrcuIInv => RankDrains
  BY DEF SrcuIInv, Ordered
<1> QED BY <1>1, SrcuInvariant, PTL

\* When synchronize_srcu() returns, after its own flip or by the early exit for
\* those whose work was done by others, no reader holds what the caller unlinked.
THEOREM SrcuGracePeriod == SrcuSpec => []GracePeriod
<1>1. SrcuIInv => GracePeriod
  BY DEF SrcuIInv, Ordered, Owes, GracePeriod
<1> QED BY <1>1, SrcuInvariant, PTL

\* cleanup_srcu_struct(): the counters are freed only when no critical section
\* and no other use of them is left.
THEOREM SrcuNotFreedInUse == SrcuSpec => []NotFreedInUse
<1>1. SrcuIInv => NotFreedInUse
  BY DEF SrcuIInv, Ordered, Freed, NotFreedInUse
<1> QED BY <1>1, SrcuInvariant, PTL

(***************************************************************************)
(* Completions, for any finite set of tasks.                               *)
(***************************************************************************)

\* A waiter that is on its way back to the lock is not asleep.
RelockAwake == \A t \in Tasks : pc[t] = "relock" => state[t] = TASK_RUNNING

\* That a waiter which takes an event leaves enough others awake depends on
\* its being awake itself, and that on where it is in its loop.
CompletionIInv == /\ Consistent
        /\ RelockAwake
        /\ NoWaiterForgotten

USE DEF TASK_RUNNING, TASK_INTERRUPTIBLE, TASK_UNINTERRUPTIBLE, TASK_KILLABLE,
        TASK_ALL

\* The types of what the proofs compute with.
LEMMA CompletionTypes ==
    ASSUME CompletionIInv
    PROVE  /\ wait \in Seq(Tasks) /\ NoDup(wait) /\ Len(wait) \in Nat
           /\ done \in Nat /\ done < Modulus
           /\ Members(wait) \subseteq Tasks
           /\ Awake \subseteq Tasks
           /\ \A t \in Tasks : t \in Members(wait) <=> Waiting(t)
<1>1. wait \in Seq(Tasks) /\ NoDup(wait) /\ Len(wait) \in Nat
  BY DEF CompletionIInv, Consistent, CompletionTypeOK, QueueExact
<1>2. done \in Nat /\ done < Modulus
  BY CompletionAssumption DEF CompletionIInv, Consistent, CompletionTypeOK
<1>3. Members(wait) \subseteq Tasks
  BY <1>1 DEF Members
<1>4. Awake \subseteq Tasks
  BY <1>3 DEF Awake
<1>5. \A t \in Tasks : t \in Members(wait) <=> Waiting(t)
  BY DEF CompletionIInv, Consistent, QueueExact
<1> QED BY <1>1, <1>2, <1>3, <1>4, <1>5

\* Sets of tasks can be counted.
LEMMA TaskSets ==
    ASSUME NEW S \in SUBSET Tasks
    PROVE  /\ Cardinality(S) \in Nat
           /\ \A x : x \notin S => Cardinality(S \cup {x}) = Cardinality(S) + 1
           /\ \A x \in S : Cardinality(S \ {x}) = Cardinality(S) - 1
           /\ \A R \in SUBSET S : Cardinality(R) <= Cardinality(S)
<1>1. IsFiniteSet(S)
  BY FS_Subset, CompletionAssumption
<1>2. Cardinality(S) \in Nat
  BY <1>1, FS_CardinalityType
<1>3. \A x : x \notin S => Cardinality(S \cup {x}) = Cardinality(S) + 1
  BY <1>1, FS_AddElement
<1>4. \A x \in S : Cardinality(S \ {x}) = Cardinality(S) - 1
  BY <1>1, FS_RemoveElement
<1>5. \A R \in SUBSET S : Cardinality(R) <= Cardinality(S)
  BY <1>1, FS_Subset
<1> QED BY <1>2, <1>3, <1>4, <1>5

\* A wait queue has as many waiters as it has entries.
LEMMA QueueLength ==
    ASSUME NEW q \in Seq(Tasks), NoDup(q)
    PROVE  Cardinality(Members(q)) = Len(q)
<1>1. Len(q) \in 0..Len(q)
  OBVIOUS
<1> QED BY <1>1, PrefixCardinality DEF Members

------------------------------------------------------------------------------
\* A completion without events or waiters satisfies the invariant.
LEMMA CompletionInitIInv == CompletionInit => CompletionIInv
<1> SUFFICES ASSUME CompletionInit PROVE CompletionIInv
  OBVIOUS
<1> USE DEF CompletionInit, WaitQueueInit, TaskInit
<1>1. CompletionTypeOK
  <2>1. TaskTypeOK
    BY DEF TaskTypeOK, Signals
  <2>2. on_rq \in [Tasks -> BOOLEAN]
    BY Zenon
  <2>3. 0 \in 0 .. Modulus - 1
    BY CompletionAssumption
  <2>4. frame \in [Tasks -> Frames]
    BY DEF Frames, NoFrame, SleepStates
  <2> QED BY <2>1, <2>2, <2>3, <2>4 DEF CompletionTypeOK, WaitQueueTypeOK
<1>2. QueueExact
  BY DEF QueueExact, Members, NoDup, Waiting
<1>3. RelockAwake
  BY DEF RelockAwake
<1>4. Awake = {}
  BY DEF Awake, Members
<1>5. NoWaiterForgotten
  BY <1>4, FS_EmptySet DEF NoWaiterForgotten
<1> QED BY <1>1, <1>2, <1>3, <1>5 DEF CompletionIInv, Consistent

\* The end of a wait: t leaves the queue, if it is on it, awake, with an event
\* or after there was none.
LEMMA LeaveStep ==
    ASSUME CompletionIInv, NEW t \in Tasks, NEW q, NEW left,
           leave(t, q, left), UNCHANGED <<pending, on_rq>>,
           q \in Seq(Tasks), NoDup(q), Members(q) = Members(wait) \ {t},
           \/ done = 0 /\ left = 0
           \/ done # 0 /\ left = done - 1 /\ state[t] = TASK_RUNNING
           \/ done # 0 /\ left = done - 1 /\ pc[t] = "idle"
    PROVE  CompletionIInv'
<1> USE DEF leave
<1>1. left \in 0 .. Modulus - 1
  BY CompletionTypes, CompletionAssumption
<1>2. /\ pc' = [pc EXCEPT ![t] = "idle"]
      /\ pc \in [Tasks -> {"idle", "sched", "relock"}]
      /\ \A u \in Tasks \ {t} : pc'[u] = pc[u]
      /\ pc'[t] = "idle"
  BY DEF CompletionIInv, Consistent, CompletionTypeOK
<1>3. CompletionTypeOK'
  <2>1. NoFrame \in Frames
    BY DEF NoFrame, Frames, SleepStates
  <2> QED BY <1>1, <2>1
          DEF CompletionIInv, Consistent, CompletionTypeOK, WaitQueueTypeOK, TaskTypeOK
<1>4. QueueExact'
  <2>1. \A u \in Tasks \ {t} : Waiting(u)' <=> Waiting(u)
    BY <1>2 DEF Waiting
  <2>2. ~Waiting(t)'
    BY <1>2 DEF Waiting
  <2> QED BY <2>1, <2>2 DEF CompletionIInv, Consistent, QueueExact
<1>5. RelockAwake'
  BY <1>2 DEF CompletionIInv, RelockAwake
<1>6. NoWaiterForgotten'
  <2>1. Awake' = Awake \ {t}
    BY DEF Awake
  <2>2. Awake' \subseteq Tasks
    BY <2>1, CompletionTypes
  <2>3. Cardinality(Awake') \in Nat /\ Cardinality(Awake) \in Nat
    BY <2>2, CompletionTypes, TaskSets
  <2>4. Len(q) = Cardinality(Members(q)) /\ Len(wait) = Cardinality(Members(wait))
    BY CompletionTypes, QueueLength
  <2>5. Len(q) \in Nat /\ Len(wait) \in Nat /\ done \in Nat
    BY CompletionTypes
  <2>6. CASE done = 0 /\ left = 0
    BY <2>3, <2>5, <2>6 DEF NoWaiterForgotten
  <2>7. CASE done # 0 /\ left = done - 1 /\ t \in Members(wait) /\ state[t] = TASK_RUNNING
    <3>1. t \in Awake
      BY <2>7 DEF Awake
    <3>2. Cardinality(Awake') = Cardinality(Awake) - 1
      BY <2>1, <3>1, CompletionTypes, TaskSets
    <3>3. Len(q) = Len(wait) - 1
      BY <2>4, <2>7, CompletionTypes, TaskSets
    <3>4. Cardinality(Awake) >= (IF done < Len(wait) THEN done ELSE Len(wait))
      BY DEF CompletionIInv, NoWaiterForgotten
    <3>5. Cardinality(Awake') >= (IF left < Len(q) THEN left ELSE Len(q))
      BY <2>3, <2>5, <2>7, <3>2, <3>3, <3>4
    <3> QED BY <3>5 DEF NoWaiterForgotten
  <2>8. CASE done # 0 /\ left = done - 1 /\ t \notin Members(wait)
    <3>1. Awake' = Awake /\ Members(q) = Members(wait)
      BY <2>1, <2>8 DEF Awake
    <3>2. Len(q) = Len(wait)
      BY <2>4, <3>1
    <3>3. Cardinality(Awake) >= (IF done < Len(wait) THEN done ELSE Len(wait))
      BY DEF CompletionIInv, NoWaiterForgotten
    <3>4. Cardinality(Awake') >= (IF left < Len(q) THEN left ELSE Len(q))
      BY <2>3, <2>5, <2>8, <3>1, <3>2, <3>3
    <3> QED BY <3>4 DEF NoWaiterForgotten
  <2> QED BY <2>6, <2>7, <2>8, CompletionTypes DEF Waiting
<1> QED BY <1>3, <1>4, <1>5, <1>6 DEF CompletionIInv, Consistent

\* A round of the loop with done = 0: t leaves on a signal or announces its
\* sleep; q is the queue with t on it.
LEMMA RoundStep ==
    ASSUME CompletionIInv, NEW t \in Tasks, NEW q, NEW f \in Frames,
           wait_round(t, q, f), UNCHANGED <<pending, on_rq>>, done = 0,
           q \in Seq(Tasks), NoDup(q), Members(q) = Members(wait) \cup {t}
    PROVE  CompletionIInv'
<1>1. CASE leave(t, list_del(q, t), done)
  <2>1. t \in Members(q)
    OBVIOUS
  <2>2. /\ list_del(q, t) \in Seq(Tasks) /\ NoDup(list_del(q, t))
        /\ Members(list_del(q, t)) = Members(q) \ {t}
    BY <2>1, ListDelProperties
  <2>3. Members(list_del(q, t)) = Members(wait) \ {t}
    BY <2>2
  <2> QED BY <1>1, <2>2, <2>3, LeaveStep
<1>2. CASE /\ wait' = q
           /\ state' = [state EXCEPT ![t] = f.state]
           /\ pc' = [pc EXCEPT ![t] = "sched"]
           /\ frame' = [frame EXCEPT ![t] = f]
           /\ UNCHANGED done
  <2> USE <1>2
  <2>1. f.state \in SleepStates
    BY DEF Frames
  <2>2. CompletionTypeOK'
    BY <2>1 DEF CompletionIInv, Consistent, CompletionTypeOK, WaitQueueTypeOK, TaskTypeOK
  <2>3. /\ \A u \in Tasks \ {t} : pc'[u] = pc[u] /\ state'[u] = state[u]
        /\ pc'[t] = "sched"
    BY DEF CompletionIInv, Consistent, CompletionTypeOK, WaitQueueTypeOK, TaskTypeOK
  <2>4. QueueExact'
    <3>1. \A u \in Tasks \ {t} : Waiting(u)' <=> Waiting(u)
      BY <2>3 DEF Waiting
    <3>2. Waiting(t)'
      BY <2>3 DEF Waiting
    <3> QED BY <3>1, <3>2 DEF CompletionIInv, Consistent, QueueExact
  <2>5. RelockAwake'
    BY <2>3 DEF CompletionIInv, RelockAwake
  <2>6. NoWaiterForgotten'
    <3>1. Awake' \subseteq Tasks
      BY CompletionTypes DEF Awake
    <3>2. Cardinality(Awake') \in Nat /\ Len(q) \in Nat
      BY <3>1, TaskSets
    <3> QED BY <3>2 DEF NoWaiterForgotten
  <2> QED BY <2>2, <2>4, <2>5, <2>6 DEF CompletionIInv, Consistent
<1> QED BY <1>1, <1>2 DEF wait_round

\* A call of one of the wait functions.
LEMMA WaitCallStep ==
    ASSUME CompletionIInv, NEW t \in Tasks, NEW st \in SleepStates,
           NEW tmo \in {"max", "finite"}, wait_for_common(t, st, tmo)
    PROVE  CompletionIInv'
<1>1. pc[t] = "idle" /\ UNCHANGED <<pending, on_rq>>
  BY DEF wait_for_common
<1>2. t \notin Members(wait)
  BY <1>1, CompletionTypes DEF Waiting
<1>3. CASE done # 0 /\ leave(t, wait, done - 1)
  <2>1. Members(wait) = Members(wait) \ {t}
    BY <1>2
  <2> QED BY <1>1, <1>3, <2>1, CompletionTypes, LeaveStep
<1>4. CASE done = 0 /\ wait_round(t, list_add_tail(wait, t), [state |-> st, timeout |-> tmo])
  <2>1. [state |-> st, timeout |-> tmo] \in Frames
    BY DEF Frames
  <2>2. /\ list_add_tail(wait, t) \in Seq(Tasks) /\ NoDup(list_add_tail(wait, t))
        /\ Members(list_add_tail(wait, t)) = Members(wait) \cup {t}
    BY <1>2, CompletionTypes, AddTailProperties
  <2> QED BY <1>1, <1>4, <2>1, <2>2, RoundStep
<1> QED BY <1>3, <1>4 DEF wait_for_common

\* A waiter that has the lock again.
LEMMA RelockStep ==
    ASSUME CompletionIInv, NEW t \in Tasks, wait_relock(t)
    PROVE  CompletionIInv'
<1>1. pc[t] = "relock" /\ UNCHANGED <<pending, on_rq>>
  BY DEF wait_relock
<1>2. t \in Members(wait) /\ state[t] = TASK_RUNNING
  BY <1>1, CompletionTypes DEF Waiting, CompletionIInv, RelockAwake
<1>3. /\ list_del(wait, t) \in Seq(Tasks) /\ NoDup(list_del(wait, t))
      /\ Members(list_del(wait, t)) = Members(wait) \ {t}
  BY <1>2, CompletionTypes, ListDelProperties
<1>4. CASE done # 0 /\ leave(t, list_del(wait, t), done - 1)
  BY <1>1, <1>2, <1>3, <1>4, LeaveStep
<1>5. CASE done = 0 /\ leave(t, list_del(wait, t), 0)
  BY <1>1, <1>3, <1>5, LeaveStep
<1>6. CASE done = 0 /\ wait_round(t, wait, frame[t])
  <2>1. frame[t] \in Frames
    BY DEF CompletionIInv, Consistent, CompletionTypeOK
  <2>2. Members(wait) = Members(wait) \cup {t}
    BY <1>2
  <2> QED BY <1>1, <1>6, <2>1, <2>2, CompletionTypes, RoundStep
<1> QED BY <1>4, <1>5, <1>6 DEF wait_relock

\* A step that leaves events and queue alone and puts nobody to sleep.
LEMMA NobodySleepsStep ==
    ASSUME CompletionIInv, CompletionTypeOK', UNCHANGED <<done, wait>>,
           \A u \in Tasks : state[u] = TASK_RUNNING => state'[u] = TASK_RUNNING,
           \A u \in Tasks : pc'[u] = "idle" <=> pc[u] = "idle",
           \A u \in Tasks : pc'[u] = "relock"
                               => pc[u] = "relock" \/ state'[u] = TASK_RUNNING
    PROVE  CompletionIInv'
<1>1. QueueExact'
  BY DEF CompletionIInv, Consistent, QueueExact, Waiting
<1>2. RelockAwake'
  BY DEF CompletionIInv, RelockAwake
<1>3. NoWaiterForgotten'
  <2>1. Awake \subseteq Awake' /\ Awake' \subseteq Tasks
    BY CompletionTypes DEF Awake
  <2>2. Cardinality(Awake) <= Cardinality(Awake')
    BY <2>1, TaskSets
  <2>3. Cardinality(Awake) \in Nat /\ Cardinality(Awake') \in Nat
    BY <2>1, CompletionTypes, TaskSets
  <2>4. Cardinality(Awake) >= (IF done < Len(wait) THEN done ELSE Len(wait))
    BY DEF CompletionIInv, NoWaiterForgotten
  <2>5. Cardinality(Awake') >= (IF done < Len(wait) THEN done ELSE Len(wait))
    BY <2>2, <2>3, <2>4, CompletionTypes
  <2> QED BY <2>5 DEF NoWaiterForgotten
<1> QED BY <1>1, <1>2, <1>3 DEF CompletionIInv, Consistent

\* schedule_timeout(), its timer and the signals put nobody to sleep who had
\* not announced it under the lock.
LEMMA SleepStep ==
    ASSUME CompletionIInv, NEW t \in Tasks,
           \/ timeout_sleep(t) \/ schedule_timeout(t) \/ process_timeout(t)
           \/ Signal(t) \/ HandleSignal(t)
    PROVE  CompletionIInv'
<1>1. /\ state \in [Tasks -> SleepStates \cup {TASK_RUNNING}]
      /\ pending \in [Tasks -> Signals]
      /\ on_rq \in [Tasks -> BOOLEAN]
      /\ pc \in [Tasks -> {"idle", "sched", "relock"}]
      /\ frame \in [Tasks -> Frames]
  BY DEF CompletionIInv, Consistent, CompletionTypeOK, WaitQueueTypeOK, TaskTypeOK
<1>2. CASE timeout_sleep(t)
  <2>1. /\ UNCHANGED <<state, pending, done, wait, pc, frame>>
        /\ on_rq' \in [Tasks -> BOOLEAN]
    BY <1>1, <1>2 DEF timeout_sleep, schedule_out, taskVars, eventVars
  <2>2. CompletionTypeOK'
    BY <2>1 DEF CompletionIInv, Consistent, CompletionTypeOK, WaitQueueTypeOK, TaskTypeOK
  <2> QED BY <2>1, <2>2, NobodySleepsStep
<1>3. CASE schedule_timeout(t)
  <2>1. /\ UNCHANGED <<pending, on_rq, done, wait>>
        /\ state' = [state EXCEPT ![t] = TASK_RUNNING]
        /\ pc' = [pc EXCEPT ![t] = "relock"] /\ pc[t] = "sched"
    BY <1>3 DEF schedule_timeout, schedule_in, schedule
  <2>2. frame' \in [Tasks -> Frames]
    <3>1. PICK left \in {frame[t].timeout} \cup
                        (IF frame[t].timeout = "finite" THEN {"expired"} ELSE {}) :
             frame' = [frame EXCEPT ![t] = [state |-> @.state, timeout |-> left]]
      BY <1>3 DEF schedule_timeout
    <3>2. frame[t].state \in SleepStates
          /\ frame[t].timeout \in {"max", "finite", "expired"}
      BY <1>1 DEF Frames
    <3>3. left \in {"max", "finite", "expired"}
      BY <3>2
    <3>4. [state |-> frame[t].state, timeout |-> left] \in Frames
      BY <3>2, <3>3 DEF Frames
    <3> QED BY <1>1, <3>1, <3>4
  <2>3. CompletionTypeOK'
    BY <2>1, <2>2 DEF CompletionIInv, Consistent, CompletionTypeOK, WaitQueueTypeOK, TaskTypeOK
  <2> QED BY <1>1, <2>1, <2>3, NobodySleepsStep
<1>4. CASE process_timeout(t)
  <2>1. /\ UNCHANGED <<pending, done, wait, pc>>
        /\ state' = [u \in Tasks |-> IF u \in {t} /\ state[u] \cap TASK_ALL # {}
                                     THEN TASK_RUNNING ELSE state[u]]
        /\ on_rq' = [u \in Tasks |-> on_rq[u] \/ state'[u] = TASK_RUNNING]
    BY <1>4 DEF process_timeout, wake_up_all
  <2>2. frame' \in [Tasks -> Frames]
    <3>1. [state |-> frame[t].state, timeout |-> "expired"] \in Frames
      BY <1>1 DEF Frames
    <3> QED BY <1>1, <1>4, <3>1 DEF process_timeout
  <2>3. state' \in [Tasks -> SleepStates \cup {TASK_RUNNING}]
    BY <1>1, <2>1
  <2>4. on_rq' \in [Tasks -> BOOLEAN]
    BY <1>1, <2>1, Zenon
  <2>5. CompletionTypeOK'
    BY <2>1, <2>2, <2>3, <2>4
       DEF CompletionIInv, Consistent, CompletionTypeOK, WaitQueueTypeOK, TaskTypeOK
  <2>6. \A u \in Tasks : state[u] = TASK_RUNNING => state'[u] = TASK_RUNNING
    BY <2>1
  <2> QED BY <2>1, <2>5, <2>6, NobodySleepsStep
<1>5. CASE Signal(t)
  <2>1. PICK sig \in {"signal", "fatal"} : deliver_signal(t, sig)
    BY <1>5 DEF Signal
  <2>2. /\ UNCHANGED <<done, wait, pc, frame>>
        /\ pending' \in [Tasks -> Signals]
    BY <1>1, <1>5, <2>1 DEF Signal, eventVars, deliver_signal, signal_wake_up, Signals
  <2>3. on_rq' \in [Tasks -> BOOLEAN]
    <3>1. on_rq' = [on_rq EXCEPT ![t] = on_rq[t] \/ state'[t] = TASK_RUNNING]
      BY <2>1 DEF deliver_signal
    <3>2. (on_rq[t] \/ state'[t] = TASK_RUNNING) \in BOOLEAN
      BY Zenon
    <3> HIDE DEF TASK_RUNNING
    <3> QED BY <1>1, <3>1, <3>2, Zenon
  <2>4. /\ state' \in [Tasks -> SleepStates \cup {TASK_RUNNING}]
        /\ \A u \in Tasks : state[u] = TASK_RUNNING => state'[u] = TASK_RUNNING
    <3>1. PICK mask : state' = try_to_wake_up(t, mask)
      BY <2>1 DEF deliver_signal, signal_wake_up
    <3>2. TaskTypeOK
      BY DEF CompletionIInv, Consistent, CompletionTypeOK, WaitQueueTypeOK
    <3> QED BY <3>1, <3>2 DEF try_to_wake_up, TaskTypeOK
  <2>5. CompletionTypeOK'
    BY <2>2, <2>3, <2>4 DEF CompletionIInv, Consistent, CompletionTypeOK, WaitQueueTypeOK, TaskTypeOK
  <2> QED BY <2>2, <2>4, <2>5, NobodySleepsStep
<1>6. CASE HandleSignal(t)
  <2>1. /\ UNCHANGED <<state, on_rq, done, wait, pc, frame>>
        /\ pending' \in [Tasks -> Signals]
    BY <1>1, <1>6 DEF HandleSignal, eventVars, Signals
  <2>2. CompletionTypeOK'
    BY <2>1 DEF CompletionIInv, Consistent, CompletionTypeOK, WaitQueueTypeOK, TaskTypeOK
  <2> QED BY <2>1, <2>2, NobodySleepsStep
<1> QED BY <1>2, <1>3, <1>4, <1>5, <1>6

\* Taking an event without waiting for it.
LEMMA TryWaitStep ==
    ASSUME CompletionIInv, NEW t \in Tasks, try_wait_for_completion(t)
    PROVE  CompletionIInv'
<1>1. /\ UNCHANGED <<state, pending, on_rq, wait, pc, frame>>
      /\ done # 0 /\ done' = done - 1
  BY DEF try_wait_for_completion, wqVars, taskVars
<1>2. done' \in 0 .. Modulus - 1
  BY <1>1, CompletionTypes, CompletionAssumption
<1>3. CompletionTypeOK'
  BY <1>1, <1>2 DEF CompletionIInv, Consistent, CompletionTypeOK, WaitQueueTypeOK, TaskTypeOK
<1>4. QueueExact' /\ RelockAwake' /\ Awake' = Awake
  BY <1>1 DEF CompletionIInv, Consistent, QueueExact, RelockAwake, Awake, Waiting
<1>5. NoWaiterForgotten'
  <2>1. Cardinality(Awake) \in Nat
    BY CompletionTypes, TaskSets
  <2>2. Cardinality(Awake) >= (IF done < Len(wait) THEN done ELSE Len(wait))
    BY DEF CompletionIInv, NoWaiterForgotten
  <2>3. Cardinality(Awake) >= (IF done - 1 < Len(wait) THEN done - 1 ELSE Len(wait))
    BY <1>1, <2>1, <2>2, CompletionTypes
  <2> QED BY <1>1, <1>4, <2>3 DEF NoWaiterForgotten
<1> QED BY <1>3, <1>4, <1>5 DEF CompletionIInv, Consistent

\* With nr = 0 __wake_up_common() calls every entry of the queue.
LEMMA ScansAll ==
    ASSUME NEW q, NEW ex, NEW su
    PROVE  Scanned(q, 0, ex, su) = Members(q)
BY DEF Scanned, Members

\* With nr = 1 it gets at least as far as the first task it can take off a
\* sleep, even when others announced one and still run.
LEMMA ScansUpToFirst ==
    ASSUME NEW q \in Seq(Tasks), NEW su, NEW k \in 1..Len(q),
           \A j \in 1 .. k - 1 : q[j] \notin su
    PROVE  q[k] \in Scanned(q, 1, Tasks, su)
<1>1. {j \in 1 .. k - 1 : q[j] \in Tasks \cap su} = {}
  OBVIOUS
<1>2. Cardinality({j \in 1 .. k - 1 : q[j] \in Tasks \cap su}) < 1
  <2>1. Cardinality({}) = 0 /\ 0 < 1
    BY FS_EmptySet
  <2> QED BY <1>1, <2>1
<1> QED BY <1>2 DEF Scanned

\* complete() and complete_all() wake as many waiters as they add events, or
\* all there are.
LEMMA PostStep ==
    ASSUME CompletionIInv, NEW n \in Nat, NEW nr, post(n, nr),
           nr = 0 \/ (nr = 1 /\ n = 1)
    PROVE  CompletionIInv'
<1> DEFINE S == Scanned(wait, nr, Tasks, WakesUp(TASK_NORMAL))
<1>1. /\ UNCHANGED <<pending, wait, pc, frame>>
      /\ done' = done + n /\ done + n < Modulus
      /\ state' = [t \in Tasks |-> IF t \in S /\ state[t] \cap TASK_NORMAL # {}
                                   THEN TASK_RUNNING ELSE state[t]]
      /\ on_rq' = [t \in Tasks |-> on_rq[t] \/ state'[t] = TASK_RUNNING]
  BY DEF post, wake_up_common, wake_up_all
<1>2. state \in [Tasks -> SleepStates \cup {TASK_RUNNING}]
  BY DEF CompletionIInv, Consistent, CompletionTypeOK, WaitQueueTypeOK, TaskTypeOK
<1> HIDE DEF S
<1>3. /\ state' \in [Tasks -> SleepStates \cup {TASK_RUNNING}]
      /\ \A t \in Tasks : state[t] = TASK_RUNNING => state'[t] = TASK_RUNNING
      /\ \A t \in Tasks : t \in S => state'[t] = TASK_RUNNING
  BY <1>1, <1>2 DEF SleepStates, TASK_NORMAL
<1>4. CompletionTypeOK'
  <2>1. on_rq' \in [Tasks -> BOOLEAN]
    BY <1>1, Zenon DEF CompletionIInv, Consistent, CompletionTypeOK, WaitQueueTypeOK
  <2>2. done' \in 0 .. Modulus - 1
    BY <1>1, CompletionTypes, CompletionAssumption
  <2> QED BY <1>1, <1>3, <2>1, <2>2
          DEF CompletionIInv, Consistent, CompletionTypeOK, WaitQueueTypeOK, TaskTypeOK
<1>5. QueueExact'
  BY <1>1 DEF CompletionIInv, Consistent, QueueExact, Waiting
<1>6. RelockAwake'
  BY <1>1, <1>3 DEF CompletionIInv, RelockAwake
<1>7. NoWaiterForgotten'
  <2>1. /\ Awake \subseteq Awake' /\ Awake' \subseteq Tasks
        /\ Awake' \subseteq Members(wait)
    BY <1>1, <1>3, CompletionTypes DEF Awake
  <2>2. /\ Cardinality(Awake) \in Nat /\ Cardinality(Awake') \in Nat
        /\ Len(wait) \in Nat /\ done \in Nat
    BY <2>1, CompletionTypes, TaskSets
  <2>3. CASE Awake' = Members(wait)
    <3>1. Cardinality(Awake') = Len(wait)
      BY <2>3, CompletionTypes, QueueLength
    <3>2. Cardinality(Awake') >= (IF done + n < Len(wait) THEN done + n ELSE Len(wait))
      BY <2>2, <3>1
    <3> QED BY <1>1, <3>2 DEF NoWaiterForgotten
  <2>4. CASE nr = 0
    <3>1. S = Members(wait)
      BY <2>4, ScansAll DEF S
    <3>2. Awake' = Members(wait)
      BY <3>1, <1>1, <1>3, CompletionTypes DEF Awake
    <3> QED BY <3>2, <2>3
  <2>5. CASE nr = 1 /\ n = 1 /\ Awake' # Members(wait)
    <3> DEFINE W == {i \in 1..Len(wait) : state[wait[i]] # TASK_RUNNING}
    <3>1. PICK m \in 0..Len(wait) : /\ \A i \in 1..m : i \notin W
                                    /\ m < Len(wait) => m + 1 \in W
      <4>1. W \in SUBSET (1..Len(wait))
        OBVIOUS
      <4> HIDE DEF W
      <4> QED BY <2>2, <4>1, FirstOfKind
    <3>2. m < Len(wait)
      <4> SUFFICES ASSUME m = Len(wait) PROVE FALSE
        BY <2>2
      <4>1. \A i \in 1..Len(wait) : state[wait[i]] = TASK_RUNNING
        BY <3>1
      <4>2. \A u \in Members(wait) : state[u] = TASK_RUNNING
        BY <4>1 DEF Members
      <4>3. Members(wait) \subseteq Awake
        BY <4>2 DEF Awake
      <4> QED BY <4>3, <2>1, <2>5
    <3> DEFINE u == wait[m + 1]
    <3>3. m + 1 \in 1..Len(wait) /\ (m + 1) - 1 = m /\ 1..m \subseteq 1..Len(wait)
      BY <2>2, <3>2
    <3>4. u \in Members(wait) /\ state[u] # TASK_RUNNING
      BY <3>1, <3>2, <3>3 DEF Members
    <3>5. \A j \in 1..m : wait[j] \notin WakesUp(TASK_NORMAL)
      BY <3>1, <3>3 DEF WakesUp
    <3>6. u \in S
      BY <2>5, <3>3, <3>5, CompletionTypes, ScansUpToFirst DEF S
    <3>7. u \in Awake' /\ u \notin Awake
      BY <3>4, <3>6, <1>1, <1>3, CompletionTypes DEF Awake
    <3> HIDE DEF u
    <3>8. Cardinality(Awake \cup {u}) = Cardinality(Awake) + 1
      BY <3>7, CompletionTypes, TaskSets
    <3>9. Awake \cup {u} \in SUBSET Awake'
      BY <2>1, <3>7
    <3>10. Cardinality(Awake \cup {u}) <= Cardinality(Awake')
      BY <2>1, <3>9, TaskSets
    <3>11. Cardinality(Awake) >= (IF done < Len(wait) THEN done ELSE Len(wait))
      BY DEF CompletionIInv, NoWaiterForgotten
    <3>12. Cardinality(Awake') >= (IF done + 1 < Len(wait) THEN done + 1 ELSE Len(wait))
      BY <2>2, <3>8, <3>10, <3>11
    <3> QED BY <1>1, <2>5, <3>12 DEF NoWaiterForgotten
  <2> QED BY <2>3, <2>4, <2>5
<1> QED BY <1>4, <1>5, <1>6, <1>7 DEF CompletionIInv, Consistent

\* INIT_COMPLETION() with nobody on the queue.
LEMMA ReinitStep ==
    ASSUME CompletionIInv, INIT_COMPLETION
    PROVE  CompletionIInv'
<1>1. /\ UNCHANGED <<state, pending, on_rq, wait, pc, frame>>
      /\ done' = 0
  BY DEF INIT_COMPLETION, wqVars, taskVars
<1>2. 0 \in 0 .. Modulus - 1
  BY CompletionAssumption
<1>3. CompletionTypeOK'
  BY <1>1, <1>2 DEF CompletionIInv, Consistent, CompletionTypeOK, WaitQueueTypeOK, TaskTypeOK
<1>4. QueueExact' /\ RelockAwake' /\ Awake' = Awake
  BY <1>1 DEF CompletionIInv, Consistent, QueueExact, RelockAwake, Awake, Waiting
<1>5. NoWaiterForgotten'
  <2>1. Cardinality(Awake) \in Nat /\ Len(wait) \in Nat
    BY CompletionTypes, TaskSets
  <2> QED BY <1>1, <1>4, <2>1 DEF NoWaiterForgotten
<1> QED BY <1>3, <1>4, <1>5 DEF CompletionIInv, Consistent

------------------------------------------------------------------------------
\* Every step keeps the invariant.
LEMMA CompletionNextIInv == CompletionIInv /\ [CompletionNext]_completionVars => CompletionIInv'
<1> SUFFICES ASSUME CompletionIInv, [CompletionNext]_completionVars PROVE CompletionIInv'
  OBVIOUS
<1>1. ASSUME NEW t \in Tasks, WaitCall(t) PROVE CompletionIInv'
  <2>1. /\ TASK_UNINTERRUPTIBLE \in SleepStates
        /\ TASK_INTERRUPTIBLE \in SleepStates
        /\ TASK_KILLABLE \in SleepStates
    BY DEF SleepStates
  <2>2. PICK st \in SleepStates, tmo \in {"max", "finite"} : wait_for_common(t, st, tmo)
    BY <1>1, <2>1
       DEF WaitCall, wait_for_completion, wait_for_completion_timeout,
           wait_for_completion_interruptible,
           wait_for_completion_interruptible_timeout, wait_for_completion_killable
  <2> QED BY <2>2, WaitCallStep
<1>2. ASSUME NEW t \in Tasks, try_wait_for_completion(t) PROVE CompletionIInv'
  BY <1>2, TryWaitStep
<1>3. ASSUME NEW t \in Tasks, KernelStep(t) \/ Signal(t) \/ HandleSignal(t)
      PROVE  CompletionIInv'
  BY <1>3, SleepStep, RelockStep DEF KernelStep
<1>4. CASE complete
  BY <1>4, PostStep DEF complete
<1>5. CASE complete_all
  <2>1. (Modulus - 1) \div 2 \in Nat
    BY CompletionAssumption
  <2> QED BY <1>5, <2>1, PostStep DEF complete_all
<1>6. CASE INIT_COMPLETION
  BY <1>6, ReinitStep
<1>7. CASE UNCHANGED completionVars
  <2>1. UNCHANGED <<state, pending, on_rq, done, wait, pc, frame>>
    BY <1>7 DEF completionVars, wqVars, taskVars, eventVars
  <2> QED BY <2>1
          DEF CompletionIInv, Consistent, CompletionTypeOK, WaitQueueTypeOK, TaskTypeOK, QueueExact,
              RelockAwake, NoWaiterForgotten, Awake, Waiting
<1> QED BY <1>1, <1>2, <1>3, <1>4, <1>5, <1>6, <1>7 DEF CompletionNext

\* The invariant holds in every reachable state of a completion.
THEOREM CompletionInvariant == CompletionSpec => []CompletionIInv
<1>1. CompletionInit => CompletionIInv
  BY CompletionInitIInv
<1>2. CompletionIInv /\ [CompletionNext]_completionVars => CompletionIInv'
  BY CompletionNextIInv
<1> QED BY <1>1, <1>2, PTL DEF CompletionSpec

\* x->done stays an unsigned number below its modulus, and the wait queue is
\* the set of the tasks inside do_wait_for_common(), each once.
THEOREM CompletionConsistent == CompletionSpec => []Consistent
BY CompletionInvariant, PTL DEF CompletionIInv

\* However many tasks wait, whoever times out, is signalled or takes an event
\* without waiting: complete() never leaves an event beside a sleeper while
\* fewer waiters are awake than there are events.
THEOREM CompletionNoWaiterForgotten == CompletionSpec => []NoWaiterForgotten
BY CompletionInvariant, PTL DEF CompletionIInv
==============================================================================
