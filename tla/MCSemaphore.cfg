\* Three tasks, one permit and one surplus up.
CONSTANTS
  Tasks = {t1, t2, t3}
  InitCount = 1
  MaxSurplus = 1
SPECIFICATION FairSpec
INVARIANTS PermitsConserved GrantedIsAwake
PROPERTIES FifoSpec NoStarvation
