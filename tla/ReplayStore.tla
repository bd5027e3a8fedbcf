---------------------------- MODULE ReplayStore ----------------------------
(***************************************************************************)
(* The store of event ids already seen (src/runtime/sessions/             *)
(* replayStore.ts): a Map from key to expiry whose insertion order decides *)
(* what is forgotten when it is full.  Its one operation is MarkAndCheck,  *)
(* which answers whether the key is a replay.                              *)
(***************************************************************************)
EXTENDS Integers, OrderedMap

CONSTANTS
  Oversize,     \* the keys longer than keyMaxBytes
  SeenTTL,      \* ttlMs
  SeenMax,      \* maxKeys
  SweepInterval \* sweepIntervalMs

VARIABLES
  now,        \* nowFn()
  seen,       \* the Map: key |-> when it expires
  lastSweepAt

InitStore ==
  /\ seen = EmptyMap
  /\ lastSweepAt = 0

SweepDue == Cardinality(MapKeys(seen)) >= SeenMax \/ now - lastSweepAt >= SweepInterval

\* maybeSweep.
Swept ==
  IF SweepDue THEN MapOnly(seen, {k \in MapKeys(seen) : seen.of[k] > now}) ELSE seen

Live(key) == key \in MapKeys(seen) /\ seen.of[key] > now

\* What markAndCheck answers: a key too long counts as a replay.
IsReplay(key) == key \in Oversize \/ Live(key)

Others(key) == MapOnly(Swept, MapKeys(Swept) \ {key})

\* Mutant of Added: the prune drops a key too many.
AddedAfterOverprune(key) == MapSet(MapNewest(Others(key), SeenMax - 2), key, now + SeenTTL)

\* A new key, or one that has expired, goes to the end, after pruneToCapacity
\* has dropped as many keys from the front as it takes.
Added(key) == MapSet(MapNewest(Others(key), SeenMax - 1), key, now + SeenTTL)

\* A replay renews the key's expiry, and the key stays in its place.
MarkAndCheck(key) ==
  IF key \in Oversize
    THEN UNCHANGED <<seen, lastSweepAt>>
    ELSE /\ seen' = IF Live(key) THEN MapSet(Swept, key, now + SeenTTL) ELSE Added(key)
         /\ lastSweepAt' = IF SweepDue THEN now ELSE lastSweepAt
=============================================================================
