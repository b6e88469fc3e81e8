CONSTANTS
  Objects = {o1}
  Workers = {w1, w2}
  States <- MCStates
  InitState = "S1"
  Ops <- MCOps
  MaxVersion = 2
  MaxBatch = 2
  LeaseMayLapse = FALSE
  NoOwner = NoOwner
  NoObject = NoObject
  NoTxn = NoTxn
  NoResult = NoResult
  Absent = Absent
SPECIFICATION Spec
INVARIANT TypeOK AtomicFinalize HistoryMatchesState
PROPERTY LeaseEventuallyFree
CHECK_DEADLOCK FALSE
