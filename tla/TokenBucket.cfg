SPECIFICATION FairSpec
CONSTANTS
  Callers = {c1, c2, c3}
  Rpm = 3
  Capacity = 3
  TicksPerToken = 2
INVARIANTS
  BurstPlusRate
PROPERTIES
  ImplementsPacer
  SomeoneGetsThrough
