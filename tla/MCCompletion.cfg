\* Three waiters, one of which may be signalled; done wraps at 7, so that
\* complete_all() adds 3.
CONSTANTS
  Tasks = {t1, t2, t3}
  Modulus = 7
  Victims = {t1}
SPECIFICATION CompletionFairSpec
INVARIANTS Consistent NoWaiterForgotten
PROPERTY DrainedWhenQuiet
