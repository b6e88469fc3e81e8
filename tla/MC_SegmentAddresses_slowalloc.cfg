CONSTANTS
  Segments = {s1}
  Requests = {r1, r2, r3}
  PrefixSize = 4
  NumReserved = 0
  DrainPeriod = 2
  MaxAllocTicks = 3
  NoRequest = NoRequest
  NoAddr = NoAddr
  NoVpc = NoVpc
  SegVpc <- MCSegVpc
SPECIFICATION Spec
INVARIANT DeletionComplete
