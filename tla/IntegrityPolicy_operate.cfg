CONSTANTS
  r1 = r1
  r2 = r2
  i1 = i1
  i2 = i2
  Focuses = {"decisions", "reports", "freezes", "routes"}
  Requests <- MCRequests
  Kinds <- AllKinds
  Ids <- MCIds
  NoId = NoId
  TTL = 1
  ReplayTTL = 1
  ReplayCap = 1
  MaxAges <- MCLimits
  Unset = Unset
  Invalid = Invalid
  Diskless = FALSE
  EnvPaused = FALSE
  MaxPublished = 2
  MaxTime = 2
  Keys = {k1}
  Subjects = {s1}
  NoSubject = NoSubject
  NoKey = NoKey
  Strict = TRUE

SYMMETRY MCSymmetry

SPECIFICATION MCSpec

INVARIANTS
  TypeOK
  AoDecisionFresh
  CheckpointDecisionFresh
  IncidentRemembered
  PauseFreezesIfAlone

PROPERTY StoredOnGoodAuthority
