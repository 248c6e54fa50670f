SPECIFICATION Spec
CONSTANTS
  Lowest = 157
  Highest = 41000
INVARIANTS
  NeverTooFast
  HostDivInRange
  NotSlowerThanNeeded
  SettersIndependent
  CommandWord
CHECK_DEADLOCK FALSE
