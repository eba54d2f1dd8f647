\* Every configuration, with three texts, of which one makes update() throw at once and
\* one on its tooltip, and two requests.  A destroyed module makes no step.
SPECIFICATION FairSpec
CONSTANTS
  Waker = {main}
  Main = main
  Text = {plain, broken, untold}
  Malformed = {broken}
  BadTooltip = {untold}
  Hidden = hidden
  MaxRequests = 2
  MaxIntervals = 1
  MaxFailures = 1
  MaxWritten = 3
INVARIANTS CustomTypeOK OutputBeforeExit ShownAtRest
PROPERTIES RequestShown ScriptRestarts
CHECK_DEADLOCK FALSE
