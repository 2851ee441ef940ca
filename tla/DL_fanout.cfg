SPECIFICATION Spec
CONSTANTS
  s1 = s1
  s2 = s2
  s3 = s3
  p1 = p1
  p2 = p2
  Calls = {c1, c2}
  NoCall = NoCall
  NoPayload = NoPayload
  Payloads <- Two
  Malformed <- Garbled
  Leaves <- Fan
  Retrying <- Forwarding
  Unsure <- Forwarding
  Endless <- None
  MaxSends = 1
  Impatient = TRUE
  SlowAnswers = TRUE
SYMMETRY CallSymmetry
INVARIANTS
  TypeOK
  OneCopyEach
  MetersAddUp
PROPERTY
  AtLeastOneSink
