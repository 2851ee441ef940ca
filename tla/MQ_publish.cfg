SPECIFICATION FairSpec
CONSTANTS
  Calls = {c1, c2}
  NoCall = NoCall
  Deadlines = {c1}
  MaxTries = 2
INVARIANTS
  TypeOK
  OneConnectAtATime
  SuccessWasTaken
PROPERTY CallsReturn
