SPECIFICATION FairPipeSpec
CONSTANTS
  Responses = {r1, r2, r3}
  Bytes = {0, 1, 2}
  Buffers = {0, 1, 2}
  MaxProcs = 2
  NULL = NULL
  Garbage = Garbage
INVARIANT PipesTypeOK
INVARIANT OwnersRight
INVARIANT DeliveredWhole
PROPERTY EventuallyDropped
