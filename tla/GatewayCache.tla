---------------------------- MODULE GatewayCache ----------------------------
(***************************************************************************)
(* The gateway's in-memory response cache (src/cache.ts).                  *)
(*                                                                         *)
(* Three JavaScript Maps are kept in step by hand: `store` (key to entry,  *)
(* in insertion order, which the code uses as its recency list),           *)
(* `subjects` (subject to the set of its keys) and `keySubject` (key to    *)
(* its subject).  Every exported function runs to completion without an    *)
(* await, so each is one action.                                           *)
(*                                                                         *)
(* A Map whose domain varies is a function on a subset of Keys; a subject  *)
(* absent from `subjects` is one whose set is empty, which no code path    *)
(* tells apart.  The insertion order of `store` is the relation `older`:   *)
(* <<j, k>> \in older when j comes before k.  Values are left out: an      *)
(* entry is its expiry and whether its integrity metadata is verified.     *)
(***************************************************************************)
EXTENDS Clock, FiniteSets

CONSTANTS
  Keys,              \* cache keys, the path after /cache/
  EmptyKey,          \* the key "" (PUT /cache/), falsy in JavaScript
  Subjects,          \* values of the X-Subject header
  NoSubject,         \* a put without X-Subject
  NoKey,             \* the key of a call that names none
  TTL,               \* TTL_MS
  MaxEntries,        \* MAX_ENTRIES
  MaxKeysPerSubject, \* MAX_KEYS_PER_SUBJECT
  AdmissionMode      \* ADMISSION_MODE

ASSUME CacheAssumption ==
  /\ NoSubject \notin Subjects
  /\ NoKey \notin Keys
  /\ TTL \in Nat \ {0}
  /\ MaxEntries \in Nat \ {0}
  /\ MaxKeysPerSubject \in Nat \ {0}
  /\ AdmissionMode \in {"reject", "evict_lru"}

VARIABLES
  store,      \* key |-> [expiresAt, verified]
  older,      \* the insertion order of store
  subjects,   \* subject |-> its keys
  keySubject, \* key |-> its subject
  reply       \* what the last call returned

vars == <<now, store, older, subjects, keySubject, reply>>

Entry == [expiresAt : Nat, verified : BOOLEAN]

Statuses == {"none", "miss", "expired", "unverified", "hit", "stored",
             "reject_size", "reject_subject", "reject_capacity",
             "swept", "forgotten", "dropped"}

TypeOK ==
  /\ now \in Nat
  /\ DOMAIN store \subseteq Keys
  /\ store \in [DOMAIN store -> Entry]
  /\ older \subseteq (DOMAIN store) \X (DOMAIN store)
  /\ subjects \in [Subjects -> SUBSET Keys]
  /\ DOMAIN keySubject \subseteq Keys
  /\ keySubject \in [DOMAIN keySubject -> Subjects]
  /\ reply \in [status : Statuses, key : Keys \cup {NoKey}, removed : SUBSET Keys]

Init ==
  /\ InitClock
  /\ store = [k \in {} |-> 0]
  /\ older = {}
  /\ subjects = [s \in Subjects |-> {}]
  /\ keySubject = [k \in {} |-> 0]
  /\ reply = [status |-> "none", key |-> NoKey, removed |-> {}]

Reply(status, key, removed) ==
  reply' = [status |-> status, key |-> key, removed |-> removed]

-----------------------------------------------------------------------------
(* Removing entries.                                                       *)

Stored == DOMAIN store

\* What sweep removes.  fetchEntry still serves an entry at its expiry time.
Swept == {k \in Stored : store[k].expiresAt <= now}

Live == Stored \ Swept

\* Mutant of Detached: the key leaves keySubject but stays in its subject's set.
DetachedNever(gone) == subjects

\* `subjects` after detachKeyFromSubjects of every key in gone.
Detached(gone) ==
  [s \in Subjects |->
     subjects[s] \ {k \in gone \cap DOMAIN keySubject : keySubject[k] = s}]

\* Mutant of RemoveKeys: the recency list keeps the keys of removed entries.
RemoveButNotFromOrder(gone) ==
  /\ store' = [k \in Stored \ gone |-> store[k]]
  /\ older' = older
  /\ subjects' = Detached(gone)
  /\ keySubject' = [k \in DOMAIN keySubject \ gone |-> keySubject[k]]

\* store.delete and detachKeyFromSubjects of every key in gone.
RemoveKeys(gone) ==
  /\ store' = [k \in Stored \ gone |-> store[k]]
  /\ older' = {p \in older : p[1] \notin gone /\ p[2] \notin gone}
  /\ subjects' = Detached(gone)
  /\ keySubject' = [k \in DOMAIN keySubject \ gone |-> keySubject[k]]

Sweep ==
  /\ RemoveKeys(Swept)
  /\ Reply("swept", NoKey, Swept)
  /\ UNCHANGED now

-----------------------------------------------------------------------------
(* Admission and storage.                                                  *)

\* Mutant of CanAdmitSubjectKey: off by one.
CanAdmitOneMore(k, subject) ==
  \/ k \in Detached(Swept)[subject]
  \/ Cardinality(Detached(Swept)[subject]) <= MaxKeysPerSubject

\* canAdmitSubjectKey, after the sweep put starts with.
CanAdmitSubjectKey(k, subject) ==
  \/ k \in Detached(Swept)[subject]
  \/ Cardinality(Detached(Swept)[subject]) < MaxKeysPerSubject

HasRoom(k) == k \in Live \/ Cardinality(Live) < MaxEntries

\* The first key of store.keys(), as a set of at most one key.
Oldest == {k \in Live : \A j \in Live \ {k} : <<k, j>> \in older}

\* What evictOldestKey can evict: `if (!oldest) return false` takes the key ""
\* for no key at all.
Evictable == IF AdmissionMode = "evict_lru" THEN Oldest \ {EmptyKey} ELSE {}

\* The sets of keys that put may remove before it stores k; none if it cannot
\* make room.
Displaced(k) == IF HasRoom(k) THEN {Swept} ELSE {Swept \cup {v} : v \in Evictable}

\* Mutant of OwnerAfter: a refresh without X-Subject makes the entry anonymous.
OwnerForgotten(k, subject, gone) == subject

\* The subject k belongs to once stored: a put without a subject keeps the
\* association of an entry it refreshes.
OwnerAfter(k, subject, gone) ==
  IF subject # NoSubject THEN subject
  ELSE IF k \in DOMAIN keySubject \ gone THEN keySubject[k]
  ELSE NoSubject

\* store.set and attachKeyToSubject, once the keys in gone have been removed.
Insert(k, owner, verified, gone) ==
  LET kept  == Stored \ gone
      named == (DOMAIN keySubject \ (gone \cup {k})) \cup (IF owner = NoSubject THEN {} ELSE {k})
  IN
  /\ store' = [j \in kept \cup {k} |->
                 IF j = k THEN [expiresAt |-> now + TTL, verified |-> verified]
                 ELSE store[j]]
  /\ older' = {p \in older : p[1] \in kept \ {k} /\ p[2] \in kept \ {k}}
              \cup ((kept \ {k}) \X {k})
  /\ subjects' = [s \in Subjects |->
                    IF s = owner THEN Detached(gone \cup {k})[s] \cup {k}
                    ELSE Detached(gone \cup {k})[s]]
  /\ keySubject' = [j \in named |-> IF j = k THEN owner ELSE keySubject[j]]
  /\ Reply("stored", k, gone)

\* put returns true.
PutStored(k, subject, verified) ==
  /\ subject # NoSubject => CanAdmitSubjectKey(k, subject)
  /\ \E gone \in Displaced(k) :
       Insert(k, OwnerAfter(k, subject, gone), verified, gone)
  /\ UNCHANGED now

\* put returns false: the sweep it started with has happened all the same.
PutRejected(k, oversize, subject) ==
  LET refusedBySubject == subject # NoSubject /\ ~CanAdmitSubjectKey(k, subject)
  IN
  /\ \/ oversize /\ Reply("reject_size", k, Swept)
     \/ /\ ~oversize /\ refusedBySubject
        /\ Reply("reject_subject", k, Swept)
     \/ /\ ~oversize /\ ~refusedBySubject
        /\ Displaced(k) = {}
        /\ Reply("reject_capacity", k, Swept)
  /\ RemoveKeys(Swept)
  /\ UNCHANGED now

-----------------------------------------------------------------------------
(* Reading.                                                                *)

FetchMiss(k) ==
  /\ k \notin Stored
  /\ Reply("miss", k, {})
  /\ UNCHANGED <<now, store, older, subjects, keySubject>>

FetchExpired(k) ==
  /\ k \in Stored
  /\ now > store[k].expiresAt
  /\ RemoveKeys({k})
  /\ Reply("expired", k, {k})
  /\ UNCHANGED now

FetchUnverified(k) ==
  /\ k \in Stored
  /\ now <= store[k].expiresAt
  /\ ~store[k].verified
  /\ Reply("unverified", k, {})
  /\ UNCHANGED <<now, store, older, subjects, keySubject>>

\* Mutant of FetchHit: a hit does not refresh the entry's place.
FetchHitNoTouch(k, requireVerified) ==
  /\ k \in Stored
  /\ now <= store[k].expiresAt
  /\ requireVerified => store[k].verified
  /\ Reply("hit", k, {})
  /\ UNCHANGED <<now, store, older, subjects, keySubject>>

\* touchKey deletes the entry and sets it again: k becomes the newest.
FetchHit(k, requireVerified) ==
  /\ k \in Stored
  /\ now <= store[k].expiresAt
  /\ requireVerified => store[k].verified
  /\ older' = {p \in older : p[1] # k /\ p[2] # k} \cup ((Stored \ {k}) \X {k})
  /\ Reply("hit", k, {})
  /\ UNCHANGED <<now, store, subjects, keySubject>>

-----------------------------------------------------------------------------
(* Erasure.                                                                *)

\* forgetSubject walks the subject's own set; it trusts the index.
ForgetSubject(s) ==
  LET erased == subjects[s] \cap Stored IN
  /\ store' = [k \in Stored \ erased |-> store[k]]
  /\ older' = {p \in older : p[1] \notin erased /\ p[2] \notin erased}
  /\ keySubject' = [k \in DOMAIN keySubject \ erased |-> keySubject[k]]
  /\ subjects' = [subjects EXCEPT ![s] = {}]
  /\ Reply("forgotten", NoKey, erased)
  /\ UNCHANGED now

DropKey(k) ==
  /\ IF k \in Stored
       THEN RemoveKeys({k})
       ELSE UNCHANGED <<store, older, subjects, keySubject>>
  /\ Reply("dropped", k, {k} \cap Stored)
  /\ UNCHANGED now

Tick ==
  /\ Advance
  /\ UNCHANGED <<store, older, subjects, keySubject, reply>>

Next ==
  \/ Tick
  \/ Sweep
  \/ \E k \in Keys, subject \in Subjects \cup {NoSubject}, v \in BOOLEAN :
       PutStored(k, subject, v)
  \/ \E k \in Keys, subject \in Subjects \cup {NoSubject}, oversize \in BOOLEAN :
       PutRejected(k, oversize, subject)
  \/ \E k \in Keys : FetchMiss(k) \/ FetchExpired(k) \/ FetchUnverified(k)
  \/ \E k \in Keys, requireVerified \in BOOLEAN : FetchHit(k, requireVerified)
  \/ \E s \in Subjects : ForgetSubject(s)
  \/ \E k \in Keys : DropKey(k)

Spec == Init /\ [][Next]_vars

-----------------------------------------------------------------------------
(* Properties.                                                             *)

(***************************************************************************)
(* The two indexes are inverse to one another and name only stored keys.   *)
(* forgetSubject relies on it: an entry missing from its subject's set     *)
(* would survive the erasure of that subject.                              *)
(***************************************************************************)
IndexCoherent ==
  /\ DOMAIN keySubject \subseteq Stored
  /\ \A s \in Subjects, k \in Keys :
       k \in subjects[s] <=> k \in DOMAIN keySubject /\ keySubject[k] = s

(***************************************************************************)
(* No sequence of puts, refreshes that move a key to another subject,      *)
(* expiries and evictions exceeds MAX_ENTRIES or a subject's quota.        *)
(***************************************************************************)
WithinBudget ==
  /\ Cardinality(Stored) <= MaxEntries
  /\ \A s \in Subjects : Cardinality(subjects[s]) <= MaxKeysPerSubject

(***************************************************************************)
(* The entry served or stored by the last call is never the one evicted to *)
(* make room for a new key, unless it has expired: touchKey moved it away  *)
(* from the front of the insertion order.                                  *)
(***************************************************************************)
RecentlyUsedSurvives ==
  [][/\ MaxEntries > 1
     /\ reply.status \in {"hit", "stored"}
     /\ reply.key \in Live
     /\ Stored' \ Stored # {}
     => reply.key \in Stored']_vars

(***************************************************************************)
(* What the proofs need besides: the recency list never orders two keys    *)
(* both ways, the store is finite, and the entry last served or stored is  *)
(* the newest of the list.                                                 *)
(***************************************************************************)
OrderAsymmetric == \A j, k \in Keys : <<j, k>> \in older => <<k, j>> \notin older

NewestIsLast ==
  reply.status \in {"hit", "stored"} /\ reply.key \in Stored
    => \A j \in Stored \ {reply.key} : <<j, reply.key>> \in older

IInv ==
  /\ TypeOK
  /\ IndexCoherent
  /\ WithinBudget
  /\ OrderAsymmetric
  /\ NewestIsLast
  /\ IsFiniteSet(Stored)

(***************************************************************************)
(* The cache keeps its contract: the entries with their owners as the      *)
(* indexes give them, and the replies as they are, behave as CacheContract *)
(* says.  In particular forgetSubject, which sees only its index, erases   *)
(* exactly the entries of the subject.                                     *)
(***************************************************************************)
Owner(k) == IF k \in DOMAIN keySubject THEN keySubject[k] ELSE NoSubject

Contract == INSTANCE CacheContract WITH
  entries <- [k \in Stored |-> [owner |-> Owner(k), verified |-> store[k].verified]]

RefinesContract == Contract!CSpec

(***************************************************************************)
(* In evict_lru mode a put within the size limit and the subject's quota   *)
(* is never refused for lack of room, as tests/cache.test.ts expects of    *)
(* that mode ("evicts the least recently used entry when evict_lru         *)
(* admission is enabled").  The empty key refutes it.                      *)
(***************************************************************************)
EvictLruMakesRoom ==
  AdmissionMode = "evict_lru" => reply.status # "reject_capacity"
=============================================================================
