CONSTANTS
  Segments = {s1, s2}
  Requests = {r1, r2}
  PrefixSize = 4
  NumReserved = 2
  DrainPeriod = 2
  MaxAllocTicks = 1
  NoRequest = NoRequest
  NoAddr = NoAddr
  NoVpc = NoVpc
  SegVpc <- MCSegVpc
SPECIFICATION Spec
INVARIANT TypeOK DeletionComplete NoDuplicateAddress AllOrNothing ReportedStateMatchesValidate
PROPERTY MarkedSegmentRemoved
