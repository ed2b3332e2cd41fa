\* A callback that flushes its own workqueue, and cancel_work_sync().
CONSTANTS
  NCPU = 1
  Works = {w1}
  Clients = {t1}
  Admin = admin_task
  NULL = NULL
  HotCPUs = {}
  Single = {TRUE}
  MaxDepth = 2
  Ops = {"cancel"}
SPECIFICATION Spec
INVARIANT CancelBlocks
