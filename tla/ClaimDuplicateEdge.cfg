\* Two callers that send the same edges at once, and the builder after them.
CONSTANTS
  c1 = c1
  c2 = c2
  dA = dA
  dB = dB
  x = x
  y = y
  t1 = t1
  t2 = t2
  t3 = t3
  Client = {c1, c2}
  Device = {dA, dB}
  Account = {x, y}
  Batch <- Batches
  Recorded <- Settled
  NoDevice = NoDevice
  Unseen = Unseen
  Idle = Idle
  Rank <- Order
  MinAccounts = 1
  FirstId = 1
  SignedOff = dB
  NoId = NoId
SYMMETRY Clients
SPECIFICATION Spec
INVARIANT DuplicateEdgeHarmless
