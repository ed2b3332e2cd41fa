\* Two CPUs, one of which is interrupted and comes and goes, a task and an
\* interrupt handler.
CONSTANTS
  NCPU = 2
  Tasklets = {x1}
  Tasks = {t1}
  Irqs = {i1}
  NULL = NULL
  HotCPUs = {1}
  PinCPUs = {1}
  Softirqs = {5}
  MaxRestart = 2
SPECIFICATION FairSpec
INVARIANTS Consistent BitsHaveOneOwner DisabledIsQuiet KilledIsQuiet
PROPERTIES ScheduledRuns SettledWhenQuiet
