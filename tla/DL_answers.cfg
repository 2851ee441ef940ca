SPECIFICATION FairSpec
CONSTANTS
  s1 = s1
  s2 = s2
  s3 = s3
  p1 = p1
  p2 = p2
  Calls = {c1}
  NoCall = NoCall
  NoPayload = NoPayload
  Payloads <- Two
  Malformed <- Garbled
  Leaves <- Wide
  Retrying <- Retriers
  Unsure <- Forwarding
  Endless <- Unbounded
  MaxSends = 2
  Impatient = TRUE
  SlowAnswers = FALSE
PROPERTY CallsAreAnswered
