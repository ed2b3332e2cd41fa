\* Four tasks: enough for two readers to be woken together past a writer.
CONSTANTS
  Tasks = {t1, t2, t3, t4}
SPECIFICATION FairSpec
INVARIANTS Consistent HandoffSeen FramesAlive
PROPERTIES FifoSpec NoStarvation
