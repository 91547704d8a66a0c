SPECIFICATION FairSpec
CONSTANTS
  Scale = 2
  CounterValues = 4
  MaxChanges = 1
  Nil = Nil
  r1 = r1
  r2 = r2
  Zones <- MCZones
  Requests <- MCRequests
INVARIANTS
  TypeOK
  NeverPanics
  HostsWhenPublished
  ExactProportions
PROPERTIES
  Converges
