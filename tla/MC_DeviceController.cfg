\* One switch and one rack, one worker, one crash.
CONSTANTS
  Objects = {d1, r1}
  Racks = {r1}
  Workers = {w1}
  MaxVersion = 5
  MaxCrashes = 1
  NoOwner = NoOwner
  NoObject = NoObject
  NoTxn = NoTxn
  NoResult = NoResult
  Absent = Absent
SPECIFICATION Spec
INVARIANT TypeOK
PROPERTY RemovedOnlyWhenMarked MarkedDeviceRemoved
\* Once every switch is removed and every rack is idle nothing is left to do.
CHECK_DEADLOCK FALSE
