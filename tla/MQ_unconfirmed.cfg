SPECIFICATION Spec
CONSTANTS
  Calls = {c1}
  NoCall = NoCall
  Deadlines = {c1}
  MaxTries = 1
INVARIANT SuccessIsConfirmed
