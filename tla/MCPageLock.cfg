\* Three tasks on one page; waiters for its two bits share a wait queue.
CONSTANTS
  Tasks = {t1, t2, t3}
  Pages = {p1}
  Bits = {"locked", "writeback"}
  Victims = {t1}
SPECIFICATION FairSpec
INVARIANTS Consistent NoWaiterForgotten
PROPERTY ServedWhenQuiet
