SPECIFICATION FairSpec
CONSTANTS
  Initial = 2
  Max = 5
  MaxElapsed = 12
  Multiplier = 2
  Jitter = 50
  DefaultInitial = 2
  SendTimeout = 3
  Lag = 2
  MayEnd = TRUE
  Wires = {"grpc", "http"}
INVARIANTS
  TypeOK
  WithinBudget
  StopsSoonAfterEnd
  RetriesToTheEnd
  ClosedFormBackoff
PROPERTIES
  Returns
  KeepsPromise
