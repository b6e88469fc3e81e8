\* One host, two contexts, up to three runs requested one after another,
\* with validation enabled or disabled.
CONSTANTS
  Contexts <- MCContexts
  MaxRuns = 3
  AllowOverlap = FALSE
SPECIFICATION Spec
INVARIANT TypeOK RequestMatchesActiveRun
PROPERTY RequestServed
\* Once every run is requested and finished the host idles in Ready.
CHECK_DEADLOCK FALSE
