\* Two CPUs, one work, two clients that queue, delay, flush and cancel it
\* with its timer, a callback that queues its own work and flushes its own
\* workqueue.
CONSTANTS
  NCPU = 2
  Works = {w1}
  Clients = {t1, t2}
  Admin = admin_task
  NULL = NULL
  HotCPUs = {}
  Single = {TRUE, FALSE}
  MaxDepth = 2
  Ops = {"requeue", "delayed", "flush", "flush_work", "cancel_delayed"}
SPECIFICATION Spec
SYMMETRY Symmetry
INVARIANTS Consistent PendingHasOneOwner CancelledIsQuiet FlushesCover BarrierAlive
