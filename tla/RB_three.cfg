SPECIFICATION Spec
CONSTANTS
  c1 = c1
  c2 = c2
  c3 = c3
  r1 = r1
  r2 = r2
  t1 = t1
  o1 = o1
  NoRun = NoRun
  NoTrace = NoTrace
  NoOutcome = NoOutcome
  NoRequest = NoRequest
  Runs = {r1, r2}
  Traces = {t1}
  Outcomes = {o1}
  Calls <- ThreeCalls
  Requests <- ThreeRequests
  MaxItems = 1
  IdleTimeout = 1
  MaxClock = 1
  Cancellable = {}
  WriterMayFail = TRUE
  DrainFirst = FALSE
SYMMETRY CallSymmetry
PROPERTY
  KeepsLog
