CHECK_DEADLOCK FALSE

CONSTANTS
  u1 = u1
  u2 = u2
  u3 = u3
  t1 = t1
  t2 = t2
  k1 = k1
  k2 = k2
  k3 = k3
  h1 = h1
  h2 = h2
  MaxTime = 2
  Keys = {u1, u2, k3}
  EmptyKey = k3
  Subjects = {u1, u2}
  NoSubject = NoSubject
  NoKey = NoKey
  TTL = 1
  MaxEntries = 2
  MaxKeysPerSubject = 1
  AdmissionMode = "evict_lru"
  Views = {u1, u2}
  Txs = {t1, t2}
  NoTx = NoTx
  PageTTL = 1
  RequireHash = FALSE
  Clients = {k1, k2, k3}
  MaxReq <- MCMaxReq
  Span = 2
  MaxBuckets = 2
  MaxSessions = 4
  Lifetimes = {1, 2}
  Attempts = {u1, u2}
  CallerId = CallerId
  Retries = 2
  Lookups = {u1, u2, u3}
  Hosts = {h1, h2}
  NoHost = NoHost
  FoundTTL = 1
  UnavailTTL = 2
  GlobalTTL = 1
  Failures = 2
  Window = 2
  OpenFor = 3
  FetchLimit = 2

SYMMETRY MCSymmetry

SPECIFICATION GatewaySpec

INVARIANTS
  GatewayTypeOK
  IndexCoherent
  WithinBudget
  HitIsRecent
  WrongOnlyIfBare
  RateHolds
  OneHolderPerLogin
  AppliedOnce
  AnswerIsTrue
  RecoversInTime

PROPERTIES
  RecentlyUsedSurvives
  RefinesContract
  CircuitHolds
