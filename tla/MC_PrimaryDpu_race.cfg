\* Three DPUs, a host interface, three requests for any DPU, running at once.
CONSTANTS
  Calls = {c1, c2, c3}
  Dpus <- MCDpus
  Ifaces = {"i0", "i1", "i2", "i3"}
  Attached <- MCAttached
  Primary0 = "i1"
  HasInstance = TRUE
  ConcurrentModes = {TRUE}
  DbFailModes = {FALSE}
  MaxVersion = 3
  NoDpu = NoDpu
  NoIface = NoIface
SPECIFICATION Spec
INVARIANT BootMatchesPrimary
\* Every request ends in done or failed; the host then has nothing to do.
CHECK_DEADLOCK FALSE
