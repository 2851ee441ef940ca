SPECIFICATION Spec
CONSTANTS
  w1 = w1
  w2 = w2
  w3 = w3
  sA = sA
  sB = sB
  a = a
  b = b
  c = c
  x = x
  NoId = NoId
  Ids = {a, b, c, x}
  NoOne = NoOne
  Writers <- MCWriters
  SinkOf <- MCSinkOf
  Jobs <- MCJobs
INVARIANTS
  WholeWrites
  BlocksShowTheTree
