\* Three DPUs, a host interface, three requests for any DPU; the requests overlap or not, and the second transaction may fail or not.
CONSTANTS
  Calls = {c1, c2, c3}
  Dpus <- MCDpus
  Ifaces = {"i0", "i1", "i2", "i3"}
  Attached <- MCAttached
  Primary0 = "i1"
  HasInstance = TRUE
  ConcurrentModes = {TRUE, FALSE}
  DbFailModes = {TRUE, FALSE}
  MaxVersion = 3
  NoDpu = NoDpu
  NoIface = NoIface
SPECIFICATION Spec
INVARIANT TypeOK SequentialBootMatchesPrimary
\* Every request ends in done or failed; the host then has nothing to do.
CHECK_DEADLOCK FALSE
