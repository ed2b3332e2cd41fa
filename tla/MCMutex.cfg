\* Three tasks, two of which may be signalled, on each of the four fastpaths.
CONSTANTS
  Tasks = {t1, t2, t3}
  Archs = {"armv6", "xchg", "dec", "null"}
  Victims = {t1, t2}
SPECIFICATION FairSpec
INVARIANTS MutualExclusion WakeupPromised
PROPERTIES LockSpec ServedWhenQuiet
