CONSTANTS
  c1 = c1
  c2 = c2
  e1 = e1
  e2 = e2
  e3 = e3
  e4 = e4
  e5 = e5
  g1 = g1
  g2 = g2
  g3 = g3
  g4 = g4
  g5 = g5
  idA = idA
  idB = idB
  idC = idC
  idL = idL
  Calls <- MCCalls
  Events <- MCEvents
  Provider <- MCProvider
  Id <- MCId
  NoEvent = NoEvent
  NoId = NoId
  LongIds <- MCLongIds
  TTL = 2
  MaxKeys = 2
  SweepInterval = 2
  Policy = "dedupe"
  ForwardEnabled = TRUE
  MaxDeliveries = 4
  MaxTime = 3

SYMMETRY MCSymmetry

SPECIFICATION MCSpec

INVARIANT SettledIsForwarded
