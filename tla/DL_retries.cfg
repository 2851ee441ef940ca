SPECIFICATION Spec
CONSTANTS
  s1 = s1
  s2 = s2
  s3 = s3
  p1 = p1
  p2 = p2
  Calls = {c1, c2}
  NoCall = NoCall
  NoPayload = NoPayload
  Payloads <- Two
  Malformed <- None
  Leaves <- ForwardOnly
  Retrying <- Forwarding
  Unsure <- None
  Endless <- None
  MaxSends = 2
  Impatient = FALSE
  SlowAnswers = FALSE
INVARIANT RetriesAddUp
