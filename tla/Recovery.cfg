CONSTANTS
  NoDest = NoDest
  Notices = {n1, n2}
  Dests = {d1}
  DedupeTTL = 1
  Threshold = 2
  Cooldown = 2
  RetryMax = 2
  Deliveries = {m1, m2}
  MaxItems = 2
  MaxMails = 4
  Runs = {r1, r2}
  Listed <- MCListed
  BatchLimit = 3

SPECIFICATION RecoverySpec

INVARIANTS
  RecoveryTypeOK

PROPERTIES
  BreakerHolds
  NotifyAnswered
  BreakerCloses
  MailAttempted
  ScheduledForever
