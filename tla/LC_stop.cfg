SPECIFICATION FairSpec
CONSTANTS
  FlagSets <- MCFlagSets
  SinkLists <- MCSinkLists
  GrpcCalls = {g1}
  HttpCalls = {h1, h2}
  Hung = {h2}
INVARIANTS
  TypeOK
  BuiltAsExpected
  NothingLeaks
  DrainedWorkIsShown
  ProbesDuringDrain
PROPERTY StopsWhenAsked
