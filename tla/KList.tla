-------------------------------- MODULE KList --------------------------------
(***************************************************************************)
(* The linked list of include/linux/list.h as the wait queues use it: a    *)
(* sequence of entries without repetition, first entry first.              *)
(***************************************************************************)
EXTENDS Naturals, Sequences, FiniteSets

Members(q) == {q[i] : i \in 1..Len(q)}

NoDup(q) == \A i, j \in 1..Len(q) : q[i] = q[j] => i = j

list_add_tail(q, t) == Append(q, t)

\* Unlink the entry of t, which is on the list.
list_del(q, t) ==
    LET at == CHOOSE i \in 1..Len(q) : q[i] = t
    IN  [i \in 1 .. Len(q) - 1 |-> IF i < at THEN q[i] ELSE q[i + 1]]

\* Unlink the entries of ts that are on the list; the k-th entry is then the
\* k-th of those that stay.
list_del_all(q, ts) ==
    LET stay == {i \in 1..Len(q) : q[i] \notin ts}
        upto(i) == Cardinality({j \in stay : j <= i})
    IN  IF stay = 1..Len(q) THEN q
        ELSE [k \in 1 .. Cardinality(stay) |-> q[CHOOSE i \in stay : upto(i) = k]]
==============================================================================
