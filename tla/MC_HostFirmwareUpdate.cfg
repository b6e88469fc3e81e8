\* Three hosts, none disabled, two concurrent updates, two configurations;
\* a pass may fail after its snapshot.
CONSTANTS
  Hosts = {h1, h2, h3}
  Disabled = {}
  MaxConcurrent = 2
  MaxConfigs = 2
  PassMayFail = TRUE
SPECIFICATION Spec
INVARIANT TypeOK WithinConcurrencyLimit
PROPERTY FirmwareEventuallyDesired
\* Once every host runs the last configuration the manager's passes change nothing.
CHECK_DEADLOCK FALSE
