\* A CPU that comes and goes, delayed works and destroy_workqueue().
CONSTANTS
  NCPU = 2
  Works = {w1}
  Clients = {t1}
  Admin = admin_task
  NULL = NULL
  HotCPUs = {2}
  Single = {FALSE}
  MaxDepth = 1
  Ops = {"requeue", "delayed", "flush", "flush_work", "cancel", "destroy"}
SPECIFICATION FairSpec
INVARIANT NothingStranded
PROPERTIES FlushReturns SettledWhenQuiet
