SPECIFICATION Spec
CONSTANTS
  Tasks = {t1, t2}
  MaxRetries = 2
  BatchSize = 2
  MaxSends = 2
  MaxFaults = 1
INVARIANTS
  OneMailPerSlot
  RetryIsSafe
  
SYMMETRY TaskSymmetry
CHECK_DEADLOCK FALSE
