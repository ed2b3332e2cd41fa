-------------------------------- MODULE Kfifo --------------------------------
(***************************************************************************)
(* The byte FIFO of kernel/kfifo.c.  fifo->in and fifo->out are unsigned   *)
(* ints that run freely and wrap; only their difference and their low bits *)
(* are used.                                                               *)
(*                                                                         *)
(* Two ways to use it: one writer and one reader without a lock            *)
(* (__kfifo_put, __kfifo_get), who sample the other side's index, copy     *)
(* byte by byte and publish their own index; or any number of callers      *)
(* through fifo->lock (kfifo_put, kfifo_get, kfifo_reset), each call one   *)
(* step.  smp_mb(), smp_rmb() and smp_wmb() keep the three parts of a call *)
(* in order; the model is sequentially consistent.                         *)
(***************************************************************************)
EXTENDS MachineInt, Sequences

CONSTANTS Data,       \* the values of a byte
          Sizes,      \* bound: the sizes kfifo_alloc() is called with
          MaxLen      \* bound: the largest len of a call

Pow2[k \in Nat] == IF k = 0 THEN 1 ELSE 2 * Pow2[k - 1]

\* The smallest power of two that is not below n, for n > 0.
roundup_pow_of_two(n) == Pow2[CHOOSE k \in 0..n :
                                 Pow2[k] >= n /\ (k = 0 \/ Pow2[k - 1] < n)]

\* kfifo_alloc() panics on a size of 0 or above 2^31, so that 2^32 is a
\* multiple, at least twice, of the size it rounds up to.
ASSUME KfifoAssumption ==
    /\ Modulus \in Nat /\ MaxLen \in Nat
    /\ \A n \in Sizes : /\ n \in Nat \ {0}
                        /\ roundup_pow_of_two(n) \in Nat \ {0}
                        /\ \E m \in 2..Modulus : Modulus = m * roundup_pow_of_two(n)

VARIABLES size, in, out,    \* the fields of struct kfifo
          buffer,           \* fifo->buffer
          wbytes, wdone,    \* what a put copies (<<>>: no put), how much it has
          rlen, rbytes,     \* how much a get copies (0: no get), what it has
          given, got        \* the bytes the last put took and the last get returned

fifoVars == <<size, in, out, buffer>>
vars == <<fifoVars, wbytes, wdone, rlen, rbytes, given, got>>

min(a, b) == IF a < b THEN a ELSE b

kfifo_len == Wrap(in - out)
\* Faulty variant: one byte too much room.
kfifo_avail_off_by_one == Wrap(size - in + out + 1)

\* The room a put finds.
kfifo_avail == Wrap(size - in + out)

\* Where the two memcpy() of a call place, or find, byte k of the data that
\* starts at index i: up to the end of the buffer, then from its beginning.
Slot(i, k) == LET l == size - (i % size)
              IN  IF k < l THEN (i % size) + k ELSE k - l

TypeOK ==
    /\ size \in {roundup_pow_of_two(n) : n \in Sizes}
    /\ in \in 0 .. Modulus - 1
    /\ out \in 0 .. Modulus - 1
    /\ buffer \in [0 .. size - 1 -> Data]
    /\ wbytes \in Seq(Data) /\ wdone \in 0..Len(wbytes)
    /\ rlen \in Nat /\ rbytes \in Seq(Data) /\ Len(rbytes) <= rlen
    /\ given \in Seq(Data) /\ got \in Seq(Data)

\* kfifo_alloc() and kfifo_init(); the buffer is not cleared.
Init ==
    /\ size \in {roundup_pow_of_two(n) : n \in Sizes}
    /\ in = 0
    /\ out = 0
    /\ buffer \in [0 .. size - 1 -> Data]
    /\ wbytes = <<>> /\ wdone = 0
    /\ rlen = 0 /\ rbytes = <<>>
    /\ given = <<>> /\ got = <<>>

------------------------------------------------------------------------------
\* __kfifo_put() samples fifo->out.  A put without room does nothing.
put_sample ==
    /\ wbytes = <<>>
    /\ \E n \in 1..MaxLen : \E bytes \in [1..n -> Data] :
          wbytes' = SubSeq(bytes, 1, min(n, kfifo_avail))
    /\ UNCHANGED <<fifoVars, wdone, rlen, rbytes, given, got>>

\* Faulty variant: the second memcpy() is forgotten.
put_copy_once ==
    /\ wdone < Len(wbytes)
    /\ buffer' = IF (in % size) + wdone >= size THEN buffer
                 ELSE [buffer EXCEPT ![(in % size) + wdone] = wbytes[wdone + 1]]
    /\ wdone' = wdone + 1
    /\ UNCHANGED <<size, in, out, wbytes, rlen, rbytes, given, got>>

put_copy ==
    /\ wdone < Len(wbytes)
    /\ buffer' = [buffer EXCEPT ![Slot(in, wdone)] = wbytes[wdone + 1]]
    /\ wdone' = wdone + 1
    /\ UNCHANGED <<size, in, out, wbytes, rlen, rbytes, given, got>>

put_publish ==
    /\ wbytes # <<>> /\ wdone = Len(wbytes)
    /\ in' = Wrap(in + Len(wbytes))
    /\ given' = wbytes
    /\ wbytes' = <<>> /\ wdone' = 0
    /\ UNCHANGED <<size, out, buffer, rlen, rbytes, got>>

\* __kfifo_get() samples fifo->in.
get_sample ==
    /\ rlen = 0
    /\ \E n \in 1..MaxLen : rlen' = min(n, kfifo_len)
    /\ UNCHANGED <<fifoVars, wbytes, wdone, rbytes, given, got>>

get_copy ==
    /\ Len(rbytes) < rlen
    /\ rbytes' = Append(rbytes, buffer[Slot(out, Len(rbytes))])
    /\ UNCHANGED <<fifoVars, wbytes, wdone, rlen, given, got>>

get_publish ==
    /\ rlen > 0 /\ Len(rbytes) = rlen
    /\ out' = Wrap(out + rlen)
    /\ got' = rbytes
    /\ rlen' = 0 /\ rbytes' = <<>>
    /\ UNCHANGED <<size, in, buffer, wbytes, wdone, given>>

LockFreeNext == \/ put_sample \/ put_copy \/ put_publish
                \/ get_sample \/ get_copy \/ get_publish

\* One reader and one writer, no lock.
Spec == Init /\ [][LockFreeNext]_vars

------------------------------------------------------------------------------
\* The calls that take fifo->lock.
kfifo_put ==
    \E n \in 1..MaxLen : \E bytes \in [1..n -> Data] :
       LET len == min(n, kfifo_avail)
       IN  /\ buffer' = [s \in 0 .. size - 1 |->
                            IF \E k \in 0 .. len - 1 : Slot(in, k) = s
                            THEN bytes[1 + CHOOSE k \in 0 .. len - 1 : Slot(in, k) = s]
                            ELSE buffer[s]]
           /\ in' = Wrap(in + len)
           /\ given' = SubSeq(bytes, 1, len)
           /\ UNCHANGED <<size, out, wbytes, wdone, rlen, rbytes, got>>

\* Faulty variant: the whole FIFO is emptied.
kfifo_get_empties ==
    \E n \in 1..MaxLen :
       /\ got' = [k \in 1..min(n, kfifo_len) |-> buffer[Slot(out, k - 1)]]
       /\ in' = 0
       /\ out' = 0
       /\ UNCHANGED <<size, buffer, wbytes, wdone, rlen, rbytes, given>>

\* An empty FIFO starts again at index 0.
kfifo_get ==
    \E n \in 1..MaxLen :
       LET len   == min(n, kfifo_len)
           empty == in = Wrap(out + len)
       IN  /\ got' = [k \in 1..len |-> buffer[Slot(out, k - 1)]]
           /\ in' = IF empty THEN 0 ELSE in
           /\ out' = IF empty THEN 0 ELSE Wrap(out + len)
           /\ UNCHANGED <<size, buffer, wbytes, wdone, rlen, rbytes, given>>

kfifo_reset ==
    /\ in' = 0
    /\ out' = 0
    /\ UNCHANGED <<size, buffer, wbytes, wdone, rlen, rbytes, given, got>>

LockedNext == kfifo_put \/ kfifo_get \/ kfifo_reset

\* Any number of callers through fifo->lock.
LockedSpec == Init /\ [][LockedNext]_vars

------------------------------------------------------------------------------
\* The bytes that are inside, oldest first.
Contents == [k \in 1..kfifo_len |-> buffer[Slot(out, k - 1)]]

\* The indices never run more than size apart although they wrap, and a call
\* under way keeps to the room, or the bytes, that it saw when it sampled the
\* other side's index: that index can only have moved in its favour.
WithinBounds ==
    /\ kfifo_len <= size
    /\ Len(wbytes) <= size - kfifo_len
    /\ rlen <= kfifo_len

\* The reader's copy is the front of the FIFO throughout: the writer, who is
\* copying at the same time, does not touch it.
CopyIntact == rbytes = SubSeq(Contents, 1, Len(rbytes))

\* The abstract queue holds the bytes between the two indices.
Queue == INSTANCE ByteQueue
            WITH capacity <- size, queue <- Contents,
                 accepted <- given, fetched <- got, MaxSize <- Modulus

\* __kfifo_put() and __kfifo_get() are a bounded queue of bytes: what is put
\* comes out in order, unchanged, once, and nothing else does.
QueueSpec == Queue!Spec

\* So are the calls under fifo->lock, where kfifo_reset() may empty it and
\* kfifo_get()'s restart at index 0 must not be noticed.
ResettableQueueSpec == Queue!ResettableSpec
==============================================================================
