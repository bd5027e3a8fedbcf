CHECK_DEADLOCK FALSE

CONSTANTS
  u1 = u1
  u2 = u2
  x1 = x1
  MaxTime = 3
  InboxCalls = {u1, u2}
  Letters <- MCLetters
  NoLetter <- MCNoLetter
  Deployments <- MCDeployments
  LockTTL = 2
  ClaimTTL = 2
  ItemTTL = 2
  SubjectMax = 1
  ListLimit = 1
  ForgetMax = 1
  CallLimit = 1
  MaxCalls = 4
  Requests = {u1, u2}
  KvMax = 2
  KvSpan = 2
  Tries = 2
  Verifies = {u1, u2}
  Isolates = {u1, u2}
  Challenges = {x1}
  ChallengeExp <- MCChallengeExp
  AssertTTL = 2
  ReplayTTL = 0
  Skew = 0
  Ahead = 1
  Domains = {x1}
  Jobs = {u1, u2}
  Cfgs = {x1}
  NoCfg = NoCfg
  TtlOf <- MCTtlOf
  MinTtl = 1
  MaxTtl = 1
  Grace = 0
  FetchTimeout = 0
  CheckTimeout = 1
  Strict = FALSE
  Required = TRUE

SYMMETRY MCSymmetry

SPECIFICATION WorkersSpec

INVARIANTS
  WorkersTypeOK
  AcceptedOnce
  SubjectBounded
  Erased
  RefusalEarned
  KvLimitHolds
  VerifiedOnce
  TakeoverLag

PROPERTIES
  ExpiredStaysExpired
