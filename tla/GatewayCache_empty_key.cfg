CONSTANTS
  k1 = k1
  k2 = k2
  k3 = k3
  s1 = s1
  s2 = s2
  Keys <- MCKeys
  EmptyKey = k3
  Subjects <- MCSubjects
  NoSubject = NoSubject
  NoKey = NoKey
  TTL = 2
  MaxEntries = 2
  MaxKeysPerSubject = 1
  AdmissionMode = "evict_lru"
  MaxTime = 3

SYMMETRY MCSymmetry

SPECIFICATION Spec

INVARIANT EvictLruMakesRoom
