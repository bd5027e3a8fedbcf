------------------------- MODULE WebhookIdempotency -------------------------
(***************************************************************************)
(* The idempotency boundary of the GoPay webhook (src/runtime/payments/    *)
(* webhookIdempotency.ts): each event id is tied to the fingerprint of the *)
(* body it first came with.  Its one operation is Classify.                *)
(***************************************************************************)
EXTENDS Integers, OrderedMap

CONSTANTS
  LongIds, \* event ids that are empty or longer than keyMaxBytes
  IdTTL,   \* ttlMs
  IdMax    \* maxKeys

VARIABLES
  now,    \* now()
  entries \* the Map: id |-> [fingerprint, seenAt]

InitBoundary == entries = EmptyMap

\* pruneExpired.
Unexpired ==
  MapOnly(entries, {i \in MapKeys(entries) : now - entries.of[i].seenAt <= IdTTL})

Decision(id, fingerprint) ==
  IF id \in LongIds THEN "missing-id"
  ELSE IF id \notin MapKeys(Unexpired) THEN "accepted"
  ELSE IF Unexpired.of[id].fingerprint = fingerprint THEN "duplicate"
  ELSE "conflict"

\* What pruneOldest drops: the first of the least seenAt.
Oldest ==
  {i \in MapKeys(Unexpired) :
     \A j \in MapKeys(Unexpired) \ {i} :
       \/ Unexpired.of[i].seenAt < Unexpired.of[j].seenAt
       \/ Unexpired.of[i].seenAt = Unexpired.of[j].seenAt /\ j \in After(Unexpired, i)}

\* Mutant of Kept: a full boundary is not pruned.
KeptAll == Unexpired

Kept ==
  IF Cardinality(MapKeys(Unexpired)) >= IdMax
    THEN MapOnly(Unexpired, MapKeys(Unexpired) \ Oldest)
    ELSE Unexpired

\* classify, whose answer is Decision(id, fingerprint).
Classify(id, fingerprint) ==
  entries' = IF id \in LongIds THEN entries
             ELSE IF id \in MapKeys(Unexpired) THEN Unexpired
             ELSE MapSet(Kept, id, [fingerprint |-> fingerprint, seenAt |-> now])
=============================================================================
