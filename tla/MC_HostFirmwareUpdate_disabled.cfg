\* Three hosts, one with autoupdate disabled, two concurrent updates, two
\* configurations; passes do not fail, so the break alone stops the updates.
CONSTANTS
  Hosts = {h1, h2, h3}
  Disabled = {h1}
  MaxConcurrent = 2
  MaxConfigs = 2
  PassMayFail = FALSE
SPECIFICATION Spec
PROPERTY FirmwareEventuallyCurrent
CHECK_DEADLOCK FALSE
