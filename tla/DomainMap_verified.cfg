CONSTANTS
  d1 = d1
  j1 = j1
  j2 = j2
  c1 = c1
  Domains <- MCDomains
  Jobs <- MCJobs
  Cfgs <- MCCfgs
  NoCfg = NoCfg
  TtlOf <- MCTtlOf
  MinTtl = 1
  MaxTtl = 1
  Grace = 0
  FetchTimeout = 0
  CheckTimeout = 0
  Strict = TRUE
  Required = TRUE
  MaxTime = 3

SYMMETRY MCSymmetry

SPECIFICATION Spec

INVARIANT OnlyVerifiedIsValid
