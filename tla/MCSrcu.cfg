\* Two readers and two updaters, enough for the early exit.
SPECIFICATION SrcuFairSpec
CONSTANTS
    Readers = {r1, r2}
    Updaters = {u1, u2}
    NCPU = 2
    Modulus = 4
    MaxCompleted = 2
    None = None
INVARIANTS RankDrains GracePeriod NotFreedInUse
PROPERTY GracePeriodEnds
