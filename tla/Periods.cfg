SPECIFICATION Spec
CONSTANTS
  Requests = {r1, r2}
  LastMonth = 3
  MaxEntries = 1
  MaxAmount = 2
SYMMETRY RequestSymmetry
\* TypeOK and ClosedOnlyOnceEnded are theorems of PeriodsProofs.
PROPERTIES FrozenOnceClosed
CHECK_DEADLOCK FALSE
