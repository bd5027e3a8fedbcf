------------------------ MODULE GatewayCache_proofs -------------------------
(***************************************************************************)
(* Theorems about GatewayCache, for every set of keys and subjects and     *)
(* every setting of the limits.  The inductive invariant is IInv; each of  *)
(* the two ways the code changes the store, RemoveKeys and Insert, has a lemma *)
(* per conjunct of it.                                                     *)
(***************************************************************************)
EXTENDS GatewayCache, FiniteSetTheorems, TLAPS

-----------------------------------------------------------------------------
(* Types.                                                                  *)

\* deleteEntry leaves a well-typed cache.
LEMMA RemoveType ==
  ASSUME TypeOK, NEW gone, RemoveKeys(gone)
  PROVE  /\ DOMAIN store' \subseteq Keys
         /\ store' \in [DOMAIN store' -> Entry]
         /\ older' \subseteq (DOMAIN store') \X (DOMAIN store')
         /\ subjects' \in [Subjects -> SUBSET Keys]
         /\ DOMAIN keySubject' \subseteq Keys
         /\ keySubject' \in [DOMAIN keySubject' -> Subjects]
<1>1. DOMAIN store' = DOMAIN store \ gone
  BY DEF RemoveKeys, Stored
<1>2. store' \in [DOMAIN store' -> Entry]
  BY <1>1 DEF RemoveKeys, Stored, TypeOK
<1>3. older' \subseteq (DOMAIN store') \X (DOMAIN store')
  <2>1. SUFFICES ASSUME NEW p \in older' PROVE p \in (DOMAIN store') \X (DOMAIN store')
    OBVIOUS
  <2>2. p \in older /\ p[1] \notin gone /\ p[2] \notin gone
    BY DEF RemoveKeys
  <2>3. p \in (DOMAIN store) \X (DOMAIN store)
    BY <2>2 DEF TypeOK
  <2>. QED
    BY <1>1, <2>2, <2>3
<1>4. subjects' \in [Subjects -> SUBSET Keys]
  BY DEF RemoveKeys, Detached, TypeOK
<1>5. /\ DOMAIN keySubject' = DOMAIN keySubject \ gone
      /\ keySubject' \in [DOMAIN keySubject' -> Subjects]
  BY DEF RemoveKeys, TypeOK
<1>. QED
  BY <1>1, <1>2, <1>3, <1>4, <1>5 DEF TypeOK

\* put, with whatever it displaces, leaves a well-typed cache.
LEMMA InsertType ==
  ASSUME TypeOK, NEW k \in Keys, NEW owner \in Subjects \cup {NoSubject},
         NEW verified \in BOOLEAN, NEW gone \in SUBSET Keys,
         owner = NoSubject => k \notin DOMAIN keySubject \ gone,
         Insert(k, owner, verified, gone), UNCHANGED now
  PROVE  TypeOK'
<1> DEFINE kept == Stored \ gone
           named == (DOMAIN keySubject \ (gone \cup {k})) \cup (IF owner = NoSubject THEN {} ELSE {k})
<1>1. DOMAIN store' = kept \cup {k} /\ DOMAIN store' \subseteq Keys
  BY DEF Insert, Stored, TypeOK
<1>2. store' \in [DOMAIN store' -> Entry]
  <2>1. now + TTL \in Nat
    BY CacheAssumption DEF TypeOK
  <2>. QED
    BY <1>1, <2>1 DEF Insert, Stored, TypeOK, Entry
<1>3. older' \subseteq (DOMAIN store') \X (DOMAIN store')
  <2>1. SUFFICES ASSUME NEW p \in older' PROVE p \in (DOMAIN store') \X (DOMAIN store')
    OBVIOUS
  <2>2. CASE p \in older /\ p[1] \in kept \ {k} /\ p[2] \in kept \ {k}
    <3>1. p \in (DOMAIN store) \X (DOMAIN store)
      BY <2>2 DEF TypeOK
    <3>. QED
      BY <1>1, <2>2, <3>1
  <2>3. CASE p \in (kept \ {k}) \X {k}
    BY <1>1, <2>3
  <2>. QED
    BY <2>2, <2>3 DEF Insert
<1>4. subjects' \in [Subjects -> SUBSET Keys]
  BY DEF Insert, Detached, TypeOK
<1>5. DOMAIN keySubject' = named /\ named \subseteq Keys
  BY DEF Insert, TypeOK
<1>6. keySubject' \in [DOMAIN keySubject' -> Subjects]
  <2>1. SUFFICES ASSUME NEW j \in named PROVE keySubject'[j] \in Subjects
    BY <1>5 DEF Insert
  <2>2. CASE j = k
    BY <2>1, <2>2 DEF Insert
  <2>3. CASE j # k
    BY <2>1, <2>3 DEF Insert, TypeOK
  <2>. QED
    BY <2>2, <2>3
<1>7. reply' \in [status : Statuses, key : Keys \cup {NoKey}, removed : SUBSET Keys]
  BY DEF Insert, Reply, Statuses
<1>. QED
  BY <1>1, <1>2, <1>3, <1>4, <1>5, <1>6, <1>7 DEF TypeOK

\* The keys put removes are stored keys, so the lemmas about Insert apply.
LEMMA DisplacedStored ==
  ASSUME NEW k \in Keys, NEW gone \in Displaced(k)
  PROVE  gone \subseteq Stored
BY DEF Displaced, Evictable, Oldest, Swept, Live

\* The owner put gives a key is a subject, or none and then the key had none.
LEMMA OwnerType ==
  ASSUME TypeOK, NEW k \in Keys, NEW subject \in Subjects \cup {NoSubject}, NEW gone
  PROVE  /\ OwnerAfter(k, subject, gone) \in Subjects \cup {NoSubject}
         /\ OwnerAfter(k, subject, gone) = NoSubject => k \notin DOMAIN keySubject \ gone
BY CacheAssumption DEF OwnerAfter, TypeOK

\* Every step keeps the types.
LEMMA StepType == TypeOK /\ [Next]_vars => TypeOK'
<1> SUFFICES ASSUME TypeOK, [Next]_vars PROVE TypeOK'
  OBVIOUS
<1>1. CASE Tick
  BY <1>1 DEF Tick, Advance, TypeOK
<1>2. CASE Sweep
  <2>1. Swept \subseteq Keys
    BY DEF Swept, Stored, TypeOK
  <2>. QED
    BY <1>2, <2>1, RemoveType DEF Sweep, Reply, Statuses, TypeOK
<1>3. ASSUME NEW k \in Keys, NEW subject \in Subjects \cup {NoSubject},
             NEW verified \in BOOLEAN, PutStored(k, subject, verified)
      PROVE  TypeOK'
  <2>1. PICK gone \in Displaced(k) :
          Insert(k, OwnerAfter(k, subject, gone), verified, gone)
    BY <1>3 DEF PutStored
  <2>2. gone \in SUBSET Keys
    BY DisplacedStored DEF Stored, TypeOK
  <2>. QED
    BY <1>3, <2>1, <2>2, OwnerType, InsertType DEF PutStored
<1>4. ASSUME NEW k \in Keys, NEW subject \in Subjects \cup {NoSubject},
             NEW oversize \in BOOLEAN, PutRejected(k, oversize, subject)
      PROVE  TypeOK'
  <2>1. Swept \subseteq Keys
    BY DEF Swept, Stored, TypeOK
  <2>2. reply' \in [status : Statuses, key : Keys \cup {NoKey}, removed : SUBSET Keys]
    BY <1>4, <2>1 DEF PutRejected, Reply, Statuses
  <2>. QED
    BY <1>4, <2>2, RemoveType DEF PutRejected, TypeOK
<1>5. ASSUME NEW k \in Keys, FetchMiss(k) PROVE TypeOK'
  BY <1>5 DEF FetchMiss, Reply, Statuses, TypeOK
<1>6. ASSUME NEW k \in Keys, FetchExpired(k) PROVE TypeOK'
  BY <1>6, RemoveType DEF FetchExpired, Reply, Statuses, TypeOK
<1>7. ASSUME NEW k \in Keys, FetchUnverified(k) PROVE TypeOK'
  BY <1>7 DEF FetchUnverified, Reply, Statuses, TypeOK
<1>8. ASSUME NEW k \in Keys, NEW requireVerified \in BOOLEAN, FetchHit(k, requireVerified)
      PROVE  TypeOK'
  <2>1. older' \subseteq (DOMAIN store) \X (DOMAIN store)
    BY <1>8 DEF FetchHit, Stored, TypeOK
  <2>. QED
    BY <1>8, <2>1 DEF FetchHit, Reply, Statuses, TypeOK
<1>9. ASSUME NEW s \in Subjects, ForgetSubject(s) PROVE TypeOK'
  <2> DEFINE erased == subjects[s] \cap Stored
  <2>1. DOMAIN store' = Stored \ erased /\ store' \in [DOMAIN store' -> Entry]
    BY <1>9 DEF ForgetSubject, Stored, TypeOK
  <2>2. older' \subseteq (DOMAIN store') \X (DOMAIN store')
    <3>1. SUFFICES ASSUME NEW p \in older' PROVE p \in (DOMAIN store') \X (DOMAIN store')
      OBVIOUS
    <3>2. p \in older /\ p[1] \notin erased /\ p[2] \notin erased
      BY <1>9 DEF ForgetSubject
    <3>3. p \in (DOMAIN store) \X (DOMAIN store)
      BY <3>2 DEF TypeOK
    <3>. QED
      BY <2>1, <3>2, <3>3 DEF Stored
  <2>3. subjects' \in [Subjects -> SUBSET Keys]
    BY <1>9 DEF ForgetSubject, TypeOK
  <2>4. /\ DOMAIN keySubject' \subseteq Keys
        /\ keySubject' \in [DOMAIN keySubject' -> Subjects]
    BY <1>9 DEF ForgetSubject, TypeOK
  <2>5. reply' \in [status : Statuses, key : Keys \cup {NoKey}, removed : SUBSET Keys]
    BY <1>9 DEF ForgetSubject, Reply, Statuses, Stored, TypeOK
  <2>. QED
    BY <1>9, <2>1, <2>2, <2>3, <2>4, <2>5 DEF ForgetSubject, Stored, TypeOK
<1>10. ASSUME NEW k \in Keys, DropKey(k) PROVE TypeOK'
  <2>1. reply' \in [status : Statuses, key : Keys \cup {NoKey}, removed : SUBSET Keys]
    BY <1>10 DEF DropKey, Reply, Statuses
  <2>2. CASE k \in Stored
    BY <1>10, <2>1, <2>2, RemoveType DEF DropKey, TypeOK
  <2>3. CASE k \notin Stored
    BY <1>10, <2>1, <2>3 DEF DropKey, TypeOK
  <2>. QED
    BY <2>2, <2>3
<1>11. CASE UNCHANGED vars
  BY <1>11 DEF vars, TypeOK
<1>. QED
  BY <1>1, <1>2, <1>3, <1>4, <1>5, <1>6, <1>7, <1>8, <1>9, <1>10, <1>11 DEF Next

\* The empty cache is well typed.
LEMMA InitType == Init => TypeOK
BY DEF Init, InitClock, TypeOK, Statuses, Entry

(***************************************************************************)
(* Every variable of the cache keeps its type, whatever is called in       *)
(* whatever order.                                                         *)
(***************************************************************************)
THEOREM TypeCorrect == Spec => []TypeOK
BY InitType, StepType, PTL DEF Spec

-----------------------------------------------------------------------------
(* The indexes.                                                            *)

\* deleteEntry takes the key out of both indexes.
LEMMA RemoveIndex ==
  ASSUME TypeOK, IndexCoherent, NEW gone, RemoveKeys(gone)
  PROVE  IndexCoherent'
<1>1. DOMAIN store' = Stored \ gone /\ DOMAIN keySubject' = DOMAIN keySubject \ gone
  BY DEF RemoveKeys
<1>2. ASSUME NEW s \in Subjects, NEW k \in Keys
      PROVE  k \in subjects'[s] <=> k \in DOMAIN keySubject' /\ keySubject'[k] = s
  <2>1. subjects'[s] = subjects[s] \ {j \in gone \cap DOMAIN keySubject : keySubject[j] = s}
    BY DEF RemoveKeys, Detached
  <2>2. k \in subjects[s] <=> k \in DOMAIN keySubject /\ keySubject[k] = s
    BY DEF IndexCoherent
  <2>3. k \in DOMAIN keySubject' => keySubject'[k] = keySubject[k]
    BY <1>1 DEF RemoveKeys
  <2>. QED
    BY <1>1, <2>1, <2>2, <2>3
<1>. QED
  BY <1>1, <1>2 DEF IndexCoherent, Stored

\* put moves the key from the index of its old subject to the new one.
LEMMA InsertIndex ==
  ASSUME TypeOK, IndexCoherent,
         NEW k \in Keys, NEW owner \in Subjects \cup {NoSubject},
         NEW verified \in BOOLEAN, NEW gone \in SUBSET Keys,
         owner = NoSubject => k \notin DOMAIN keySubject \ gone,
         Insert(k, owner, verified, gone)
  PROVE  IndexCoherent'
<1> DEFINE named == (DOMAIN keySubject \ (gone \cup {k})) \cup (IF owner = NoSubject THEN {} ELSE {k})
<1>1. /\ DOMAIN store' = (Stored \ gone) \cup {k}
      /\ DOMAIN keySubject' = named
      /\ \A j \in named : keySubject'[j] = IF j = k THEN owner ELSE keySubject[j]
  BY DEF Insert
<1>2. ASSUME NEW s \in Subjects, NEW j \in Keys
      PROVE  j \in subjects'[s] <=> j \in DOMAIN keySubject' /\ keySubject'[j] = s
  <2>1. j \in subjects[s] <=> j \in DOMAIN keySubject /\ keySubject[j] = s
    BY DEF IndexCoherent
  <2>2. Detached(gone \cup {k})[s] =
          subjects[s] \ {i \in (gone \cup {k}) \cap DOMAIN keySubject : keySubject[i] = s}
    BY DEF Detached
  <2>3. subjects'[s] = IF s = owner THEN Detached(gone \cup {k})[s] \cup {k}
                                    ELSE Detached(gone \cup {k})[s]
    BY DEF Insert
  <2>4. CASE j = k
    <3>1. s # NoSubject
      BY CacheAssumption
    <3>. QED
      BY <1>1, <2>1, <2>2, <2>3, <2>4, <3>1
  <2>5. CASE j # k
    BY <1>1, <2>1, <2>2, <2>3, <2>5
  <2>. QED
    BY <2>4, <2>5
<1>. QED
  BY <1>1, <1>2 DEF IndexCoherent, Stored

\* Every step keeps the two subject indexes inverse.
LEMMA StepIndex == TypeOK /\ IndexCoherent /\ [Next]_vars => IndexCoherent'
<1> SUFFICES ASSUME TypeOK, IndexCoherent, [Next]_vars PROVE IndexCoherent'
  OBVIOUS
<1>1. ASSUME UNCHANGED <<store, subjects, keySubject>> PROVE IndexCoherent'
  BY <1>1 DEF IndexCoherent, Stored
<1>2. ASSUME NEW gone, RemoveKeys(gone) PROVE IndexCoherent'
  BY <1>2, RemoveIndex
<1>3. ASSUME NEW k \in Keys, NEW subject \in Subjects \cup {NoSubject},
             NEW verified \in BOOLEAN, PutStored(k, subject, verified)
      PROVE  IndexCoherent'
  <2>1. PICK gone \in Displaced(k) :
          Insert(k, OwnerAfter(k, subject, gone), verified, gone)
    BY <1>3 DEF PutStored
  <2>2. gone \in SUBSET Keys
    BY DisplacedStored DEF Stored, TypeOK
  <2> DEFINE owner == OwnerAfter(k, subject, gone)
  <2>3. /\ owner \in Subjects \cup {NoSubject}
        /\ owner = NoSubject => k \notin DOMAIN keySubject \ gone
    BY OwnerType
  <2> HIDE DEF owner
  <2>. QED
    BY <2>1, <2>2, <2>3, InsertIndex DEF owner
<1>4. ASSUME NEW s \in Subjects, ForgetSubject(s) PROVE IndexCoherent'
  <2> DEFINE erased == subjects[s] \cap Stored
  <2>1. /\ DOMAIN store' = Stored \ erased
        /\ DOMAIN keySubject' = DOMAIN keySubject \ erased
        /\ \A k \in DOMAIN keySubject' : keySubject'[k] = keySubject[k]
        /\ subjects' = [subjects EXCEPT ![s] = {}]
    BY <1>4 DEF ForgetSubject
  <2>2. ASSUME NEW t \in Subjects, NEW k \in Keys
        PROVE  k \in subjects'[t] <=> k \in DOMAIN keySubject' /\ keySubject'[k] = t
    <3>1. /\ k \in subjects[t] <=> k \in DOMAIN keySubject /\ keySubject[k] = t
          /\ k \in subjects[s] <=> k \in DOMAIN keySubject /\ keySubject[k] = s
          /\ DOMAIN keySubject \subseteq Stored
      BY DEF IndexCoherent
    <3>2. subjects'[t] = IF t = s THEN {} ELSE subjects[t]
      BY <2>1 DEF TypeOK
    <3>. QED
      BY <2>1, <3>1, <3>2
  <2>. QED
    BY <2>1, <2>2 DEF IndexCoherent, Stored
<1>. QED
  BY <1>1, <1>2, <1>3, <1>4
  DEF Next, vars, Tick, Advance, Sweep, PutRejected, FetchMiss, FetchExpired, FetchUnverified,
      FetchHit, DropKey

\* Empty indexes are inverse.
LEMMA InitIndex == Init => IndexCoherent
BY DEF Init, IndexCoherent, Stored

(***************************************************************************)
(* subjects and keySubject stay inverse to one another and name only       *)
(* stored keys, so forgetSubject finds every entry of the subject.         *)
(***************************************************************************)
THEOREM IndexesCoherent == Spec => []IndexCoherent
<1>1. Init => TypeOK /\ IndexCoherent
  BY InitType, InitIndex
<1>2. TypeOK /\ IndexCoherent /\ [Next]_vars => (TypeOK /\ IndexCoherent)'
  BY StepType, StepIndex
<1>. QED
  BY <1>1, <1>2, PTL DEF Spec

-----------------------------------------------------------------------------
(* The recency list.                                                       *)

\* Every step keeps the recency order asymmetric: touchKey removes the key first.
LEMMA StepOrder == TypeOK /\ OrderAsymmetric /\ [Next]_vars => OrderAsymmetric'
<1> SUFFICES ASSUME TypeOK, OrderAsymmetric, [Next]_vars PROVE OrderAsymmetric'
  OBVIOUS
<1>1. ASSUME older' \subseteq older PROVE OrderAsymmetric'
  BY <1>1 DEF OrderAsymmetric
<1>2. ASSUME NEW gone, RemoveKeys(gone) PROVE OrderAsymmetric'
  BY <1>1, <1>2 DEF RemoveKeys
<1>3. ASSUME NEW k \in Keys, NEW others \in SUBSET Keys, k \notin others,
             \A p \in older' : \/ p \in older /\ p[1] # k /\ p[2] # k
                              \/ p \in others \X {k}
      PROVE  OrderAsymmetric'
  BY <1>3 DEF OrderAsymmetric
<1>4. ASSUME NEW k \in Keys, NEW subject \in Subjects \cup {NoSubject},
             NEW verified \in BOOLEAN, PutStored(k, subject, verified)
      PROVE  OrderAsymmetric'
  <2>1. PICK gone : Insert(k, OwnerAfter(k, subject, gone), verified, gone)
    BY <1>4 DEF PutStored
  <2> DEFINE others == (Stored \ gone) \ {k}
  <2>2. \A p \in older' : \/ p \in older /\ p[1] # k /\ p[2] # k
                          \/ p \in others \X {k}
    BY <2>1 DEF Insert
  <2>3. others \in SUBSET Keys /\ k \notin others
    BY DEF TypeOK, Stored
  <2>. QED
    BY <1>3, <2>2, <2>3
<1>5. ASSUME NEW k \in Keys, NEW requireVerified \in BOOLEAN, FetchHit(k, requireVerified)
      PROVE  OrderAsymmetric'
  <2> DEFINE others == Stored \ {k}
  <2>1. \A p \in older' : \/ p \in older /\ p[1] # k /\ p[2] # k
                          \/ p \in others \X {k}
    BY <1>5 DEF FetchHit
  <2>2. others \in SUBSET Keys /\ k \notin others
    BY DEF TypeOK, Stored
  <2>. QED
    BY <1>3, <2>1, <2>2
<1>6. ASSUME NEW s \in Subjects, ForgetSubject(s) PROVE OrderAsymmetric'
  BY <1>1, <1>6 DEF ForgetSubject
<1>. QED
  BY <1>1, <1>2, <1>4, <1>5, <1>6
  DEF Next, vars, Tick, Advance, Sweep, PutRejected, FetchMiss, FetchExpired, FetchUnverified, DropKey

\* Every step leaves the key it served or stored as the most recent.
LEMMA StepNewest == TypeOK /\ NewestIsLast /\ [Next]_vars => NewestIsLast'
<1> SUFFICES ASSUME TypeOK, NewestIsLast, [Next]_vars PROVE NewestIsLast'
  OBVIOUS
<1>1. ASSUME UNCHANGED <<reply, store, older>> PROVE NewestIsLast'
  BY <1>1 DEF NewestIsLast, Stored
<1>2. ASSUME reply'.status \notin {"hit", "stored"} PROVE NewestIsLast'
  BY <1>2 DEF NewestIsLast
<1>3. ASSUME NEW k \in Keys, NEW subject \in Subjects \cup {NoSubject},
             NEW verified \in BOOLEAN, PutStored(k, subject, verified)
      PROVE  NewestIsLast'
  <2>1. PICK gone : Insert(k, OwnerAfter(k, subject, gone), verified, gone)
    BY <1>3 DEF PutStored
  <2>2. reply'.key = k /\ DOMAIN store' = (Stored \ gone) \cup {k}
    BY <2>1 DEF Insert, Reply
  <2>3. \A j \in (Stored \ gone) \ {k} : <<j, k>> \in older'
    BY <2>1 DEF Insert
  <2>. QED
    BY <2>2, <2>3 DEF NewestIsLast, Stored
<1>4. ASSUME NEW k \in Keys, NEW requireVerified \in BOOLEAN, FetchHit(k, requireVerified)
      PROVE  NewestIsLast'
  BY <1>4 DEF FetchHit, Reply, NewestIsLast, Stored
<1>5. ASSUME NEW status, NEW key, NEW removed, status \notin {"hit", "stored"},
             Reply(status, key, removed)
      PROVE  reply'.status \notin {"hit", "stored"}
  BY <1>5 DEF Reply
<1>6. Sweep => NewestIsLast'
  BY <1>2, <1>5 DEF Sweep
<1>7. ASSUME NEW k \in Keys, NEW subject, NEW oversize, PutRejected(k, oversize, subject)
      PROVE  NewestIsLast'
  BY <1>2, <1>5, <1>7 DEF PutRejected
<1>8. ASSUME NEW k \in Keys,
             FetchMiss(k) \/ FetchExpired(k) \/ FetchUnverified(k) \/ DropKey(k)
      PROVE  NewestIsLast'
  BY <1>2, <1>5, <1>8 DEF FetchMiss, FetchExpired, FetchUnverified, DropKey
<1>9. ASSUME NEW s \in Subjects, ForgetSubject(s) PROVE NewestIsLast'
  BY <1>2, <1>5, <1>9 DEF ForgetSubject
<1>. QED
  BY <1>1, <1>3, <1>4, <1>6, <1>7, <1>8, <1>9 DEF Next, vars, Tick, Advance

-----------------------------------------------------------------------------
(* The budgets.                                                            *)

\* Keys leave the store: counts can only fall.
LEMMA ShrinkBudget ==
  ASSUME IndexCoherent, WithinBudget, IsFiniteSet(Stored),
         DOMAIN store' \subseteq Stored,
         \A s \in Subjects : subjects'[s] \subseteq subjects[s],
         \A s \in Subjects : subjects[s] \subseteq Stored
  PROVE  WithinBudget' /\ IsFiniteSet(Stored')
<1>1. /\ IsFiniteSet(DOMAIN store')
      /\ Cardinality(DOMAIN store') <= Cardinality(Stored)
      /\ Cardinality(DOMAIN store') \in Nat
      /\ Cardinality(Stored) \in Nat
  BY FS_Subset, FS_CardinalityType
<1>2. ASSUME NEW s \in Subjects PROVE Cardinality(subjects'[s]) <= MaxKeysPerSubject
  <2>1. IsFiniteSet(subjects[s])
    BY FS_Subset
  <2>2. /\ Cardinality(subjects'[s]) <= Cardinality(subjects[s])
        /\ Cardinality(subjects'[s]) \in Nat
        /\ Cardinality(subjects[s]) \in Nat
    BY <2>1, FS_Subset, FS_CardinalityType
  <2>. QED
    BY <2>2, CacheAssumption DEF WithinBudget
<1>. QED
  BY <1>1, <1>2, CacheAssumption DEF WithinBudget, Stored

\* A set grows by one key only if it was below its limit.
LEMMA GrowByOne ==
  ASSUME NEW S, NEW T, NEW k, NEW limit \in Nat, IsFiniteSet(S), T \subseteq S \cup {k},
         \/ k \in S /\ Cardinality(S) <= limit
         \/ Cardinality(S) < limit
  PROVE  IsFiniteSet(T) /\ Cardinality(T) <= limit
<1>1. Cardinality(S) \in Nat
  BY FS_CardinalityType
<1>2. /\ IsFiniteSet(S \cup {k})
      /\ Cardinality(S \cup {k}) = IF k \in S THEN Cardinality(S) ELSE Cardinality(S) + 1
  BY FS_AddElement
<1>3. Cardinality(S \cup {k}) <= limit /\ Cardinality(S \cup {k}) \in Nat
  BY <1>1, <1>2
<1>4. /\ IsFiniteSet(T)
      /\ Cardinality(T) <= Cardinality(S \cup {k})
      /\ Cardinality(T) \in Nat
  BY <1>2, FS_Subset, FS_CardinalityType
<1>. QED
  BY <1>3, <1>4

\* A subject index names only stored keys.
LEMMA IndexedStored ==
  ASSUME TypeOK, IndexCoherent
  PROVE  \A s \in Subjects : subjects[s] \subseteq Stored
BY DEF IndexCoherent, TypeOK

\* Removing keys and erasing a subject only shrink.
LEMMA StepShrink ==
  ASSUME TypeOK, IndexCoherent, WithinBudget, IsFiniteSet(Stored),
         \/ UNCHANGED <<store, subjects>>
         \/ \E gone : RemoveKeys(gone)
         \/ \E s \in Subjects : ForgetSubject(s)
  PROVE  WithinBudget' /\ IsFiniteSet(Stored')
<1>1. /\ DOMAIN store' \subseteq Stored
      /\ \A s \in Subjects : subjects'[s] \subseteq subjects[s]
  <2>1. CASE UNCHANGED <<store, subjects>>
    BY <2>1 DEF Stored
  <2>2. ASSUME NEW gone, RemoveKeys(gone)
        PROVE  /\ DOMAIN store' \subseteq Stored
               /\ \A s \in Subjects : subjects'[s] \subseteq subjects[s]
    BY <2>2 DEF RemoveKeys, Detached
  <2>3. ASSUME NEW t \in Subjects, ForgetSubject(t)
        PROVE  /\ DOMAIN store' \subseteq Stored
               /\ \A s \in Subjects : subjects'[s] \subseteq subjects[s]
    BY <2>3 DEF ForgetSubject, TypeOK
  <2>. QED
    BY <2>1, <2>2, <2>3
<1>. QED
  BY <1>1, IndexedStored, ShrinkBudget

\* put evicts before it inserts, so that it ends within both limits.
LEMMA PutBudget ==
  ASSUME TypeOK, IndexCoherent, WithinBudget, IsFiniteSet(Stored),
         NEW k \in Keys, NEW subject \in Subjects \cup {NoSubject},
         NEW verified \in BOOLEAN, PutStored(k, subject, verified)
  PROVE  WithinBudget' /\ IsFiniteSet(Stored')
<1>1. PICK gone \in Displaced(k) : Insert(k, OwnerAfter(k, subject, gone), verified, gone)
  BY DEF PutStored
<1>2. DOMAIN store' = (Stored \ gone) \cup {k}
  BY <1>1 DEF Insert
<1>3. /\ IsFiniteSet(Live)
      /\ Cardinality(Live) <= Cardinality(Stored)
      /\ Cardinality(Live) \in Nat /\ Cardinality(Stored) \in Nat
      /\ Cardinality(Live) <= MaxEntries
  BY FS_Subset, FS_CardinalityType, CacheAssumption DEF Live, WithinBudget
<1>4. IsFiniteSet(Stored') /\ Cardinality(Stored') <= MaxEntries
  <2>1. CASE HasRoom(k)
    <3>1. Stored' \subseteq Live \cup {k}
      BY <1>1, <1>2, <2>1 DEF Displaced, Live, Stored
    <3>. QED
      BY <1>3, <2>1, <3>1, GrowByOne, CacheAssumption DEF HasRoom
  <2>2. CASE ~HasRoom(k)
    <3>1. PICK v \in Live : gone = Swept \cup {v}
      BY <1>1, <2>2 DEF Displaced, Evictable, Oldest
    <3>2. Stored' \subseteq (Live \ {v}) \cup {k}
      BY <1>2, <3>1 DEF Live, Stored
    <3>3. /\ IsFiniteSet(Live \ {v})
          /\ Cardinality(Live \ {v}) = Cardinality(Live) - 1
      BY <1>3, <3>1, FS_RemoveElement
    <3>4. Cardinality(Live \ {v}) < MaxEntries
      BY <1>3, <3>3, CacheAssumption
    <3>. QED
      BY <3>2, <3>3, <3>4, GrowByOne, CacheAssumption
  <2>. QED
    BY <2>1, <2>2
<1>5. ASSUME NEW s \in Subjects PROVE Cardinality(subjects'[s]) <= MaxKeysPerSubject
  <2>1. /\ IsFiniteSet(subjects[s])
        /\ Cardinality(subjects[s]) \in Nat
        /\ Cardinality(subjects[s]) <= MaxKeysPerSubject
    BY IndexedStored, FS_Subset, FS_CardinalityType DEF WithinBudget
  <2> DEFINE before == Detached(Swept)[s]
  <2>2. before \subseteq subjects[s]
    BY DEF Detached
  <2>3. /\ IsFiniteSet(before)
        /\ Cardinality(before) \in Nat
        /\ Cardinality(before) <= MaxKeysPerSubject
    BY <2>1, <2>2, FS_Subset, FS_CardinalityType, CacheAssumption
  <2>4. Detached(gone \cup {k})[s] \subseteq before
    <3>1. Swept \subseteq gone
      BY <1>1 DEF Displaced
    <3>. QED
      BY <3>1 DEF Detached
  <2>5. CASE s # OwnerAfter(k, subject, gone)
    <3>1. subjects'[s] \subseteq before
      BY <1>1, <2>4, <2>5 DEF Insert
    <3>2. Cardinality(subjects'[s]) <= Cardinality(before) /\ Cardinality(subjects'[s]) \in Nat
      BY <2>3, <3>1, FS_Subset, FS_CardinalityType
    <3>. QED
      BY <2>3, <3>2, CacheAssumption
  <2>6. CASE s = OwnerAfter(k, subject, gone)
    <3>1. subjects'[s] \subseteq before \cup {k}
      BY <1>1, <2>4, <2>6 DEF Insert
    <3>2. CASE subject # NoSubject
      <4>1. k \in before \/ Cardinality(before) < MaxKeysPerSubject
        BY <2>6, <3>2 DEF PutStored, CanAdmitSubjectKey, OwnerAfter
      <4> HIDE DEF before
      <4>. QED
        BY <2>3, <3>1, <4>1, GrowByOne, CacheAssumption
    <3>3. CASE subject = NoSubject
      <4>1. k \in DOMAIN keySubject /\ keySubject[k] = s
        BY <2>6, <3>3, CacheAssumption DEF OwnerAfter
      <4>2. k \in subjects[s]
        BY <4>1 DEF IndexCoherent
      <4>3. subjects'[s] \subseteq subjects[s]
        BY <2>2, <3>1, <4>2
      <4>4. /\ Cardinality(subjects'[s]) <= Cardinality(subjects[s])
            /\ Cardinality(subjects'[s]) \in Nat
        BY <2>1, <4>3, FS_Subset, FS_CardinalityType
      <4>. QED
        BY <2>1, <4>4, CacheAssumption
    <3>. QED
      BY <3>2, <3>3
  <2>. QED
    BY <2>5, <2>6
<1>. QED
  BY <1>4, <1>5 DEF WithinBudget, Stored

\* Every step stays within MAX_ENTRIES and the quota of each subject.
LEMMA StepBudget ==
  TypeOK /\ IndexCoherent /\ WithinBudget /\ IsFiniteSet(Stored) /\ [Next]_vars
    => WithinBudget' /\ IsFiniteSet(Stored')
<1> SUFFICES ASSUME TypeOK, IndexCoherent, WithinBudget, IsFiniteSet(Stored), [Next]_vars
             PROVE  WithinBudget' /\ IsFiniteSet(Stored')
  OBVIOUS
<1>1. CASE UNCHANGED <<store, subjects>>
  BY <1>1, StepShrink
<1>2. ASSUME NEW gone, RemoveKeys(gone) PROVE WithinBudget' /\ IsFiniteSet(Stored')
  BY <1>2, StepShrink
<1>3. ASSUME NEW s \in Subjects, ForgetSubject(s)
      PROVE  WithinBudget' /\ IsFiniteSet(Stored')
  BY <1>3, StepShrink
<1>4. ASSUME NEW k \in Keys, NEW subject \in Subjects \cup {NoSubject},
             NEW verified \in BOOLEAN, PutStored(k, subject, verified)
      PROVE  WithinBudget' /\ IsFiniteSet(Stored')
  BY <1>4, PutBudget
<1>. QED
  BY <1>1, <1>2, <1>3, <1>4
  DEF Next, vars, Tick, Advance, Sweep, PutRejected, FetchMiss, FetchExpired, FetchUnverified,
      FetchHit, DropKey

-----------------------------------------------------------------------------
(* The inductive invariant and what follows from it.                       *)

\* The empty cache satisfies the inductive invariant.
LEMMA InitInv == Init => IInv
<1> SUFFICES ASSUME Init PROVE IInv
  OBVIOUS
<1>1. Stored = {} /\ IsFiniteSet(Stored) /\ Cardinality(Stored) = 0
  BY FS_EmptySet DEF Init, Stored
<1>2. \A s \in Subjects : subjects[s] = {} /\ Cardinality(subjects[s]) = 0
  BY FS_EmptySet DEF Init
<1>3. WithinBudget
  BY <1>1, <1>2, CacheAssumption DEF WithinBudget
<1>4. OrderAsymmetric /\ NewestIsLast
  BY DEF Init, OrderAsymmetric, NewestIsLast
<1>. QED
  BY <1>1, <1>3, <1>4, InitType, InitIndex DEF IInv

\* Every step keeps the inductive invariant.
LEMMA StepInv == IInv /\ [Next]_vars => IInv'
BY StepType, StepIndex, StepOrder, StepNewest, StepBudget DEF IInv

\* The inductive invariant holds in every reachable state.
LEMMA InvAlways == Spec => []IInv
BY InitInv, StepInv, PTL DEF Spec

(***************************************************************************)
(* Neither MAX_ENTRIES nor a subject's quota is ever exceeded.             *)
(***************************************************************************)
THEOREM BudgetsHold == Spec => []WithinBudget
<1>1. IInv => WithinBudget
  BY DEF IInv
<1>. QED
  BY <1>1, InvAlways, PTL

\* Only put brings a key into the cache.
LEMMA NewKeyOnlyByPut ==
  ASSUME TypeOK, [Next]_vars, Stored' \ Stored # {}
  PROVE  \E k \in Keys, subject \in Subjects \cup {NoSubject}, v \in BOOLEAN :
           PutStored(k, subject, v)
<1>1. ASSUME NEW gone, RemoveKeys(gone) PROVE Stored' \subseteq Stored
  BY <1>1 DEF RemoveKeys, Stored
<1>2. ASSUME NEW s \in Subjects, ForgetSubject(s) PROVE Stored' \subseteq Stored
  BY <1>2 DEF ForgetSubject, Stored
<1>3. UNCHANGED store => Stored' \subseteq Stored
  BY DEF Stored
<1>. QED
  BY <1>1, <1>2, <1>3
  DEF Next, vars, Tick, Advance, Sweep, PutRejected, FetchMiss, FetchExpired, FetchUnverified,
      FetchHit, DropKey

(***************************************************************************)
(* The entry last served or stored is never the one evicted for a new key. *)
(***************************************************************************)
THEOREM LruKeepsTheRecent == Spec => RecentlyUsedSurvives
<1>1. ASSUME IInv, [Next]_vars,
             MaxEntries > 1, reply.status \in {"hit", "stored"}, reply.key \in Live,
             Stored' \ Stored # {}
      PROVE  reply.key \in Stored'
  <2>1. PICK k \in Keys, subject \in Subjects \cup {NoSubject}, v \in BOOLEAN :
          PutStored(k, subject, v)
    BY <1>1, NewKeyOnlyByPut DEF IInv
  <2>2. PICK gone \in Displaced(k) : Insert(k, OwnerAfter(k, subject, gone), v, gone)
    BY <2>1 DEF PutStored
  <2>3. DOMAIN store' = (Stored \ gone) \cup {k}
    BY <2>2 DEF Insert
  <2>4. reply.key \in Stored /\ reply.key \notin Swept /\ reply.key \in Keys
    BY <1>1 DEF Live, IInv, TypeOK, Stored
  <2>5. CASE HasRoom(k)
    BY <2>2, <2>3, <2>4, <2>5 DEF Displaced, Stored
  <2>6. CASE ~HasRoom(k)
    <3>1. PICK victim \in Oldest : gone = Swept \cup {victim}
      BY <2>2, <2>6 DEF Displaced, Evictable
    <3>2. PICK j \in Live : j # reply.key
      <4>1. SUFFICES ASSUME Live \subseteq {reply.key} PROVE FALSE
        OBVIOUS
      <4>2. Cardinality({reply.key}) = 1 /\ IsFiniteSet({reply.key})
        BY FS_Singleton
      <4>3. Cardinality(Live) <= 1 /\ Cardinality(Live) \in Nat
        BY <4>1, <4>2, FS_Subset, FS_CardinalityType
      <4>. QED
        BY <1>1, <2>6, <4>3, CacheAssumption DEF HasRoom
    <3>3. <<j, reply.key>> \in older
      BY <1>1, <2>4, <3>2 DEF IInv, NewestIsLast, Live
    <3>4. <<reply.key, j>> \notin older
      BY <1>1, <2>4, <3>2, <3>3 DEF IInv, OrderAsymmetric, Live, TypeOK, Stored
    <3>5. victim # reply.key
      BY <3>1, <3>2, <3>4 DEF Oldest
    <3>. QED
      BY <2>3, <2>4, <3>1, <3>5 DEF Stored
  <2>. QED
    BY <2>5, <2>6
<1>2. IInv /\ [Next]_vars =>
        [/\ MaxEntries > 1
         /\ reply.status \in {"hit", "stored"}
         /\ reply.key \in Live
         /\ Stored' \ Stored # {}
         => reply.key \in Stored']_vars
  BY <1>1
<1>. QED
  BY <1>2, InvAlways, PTL DEF Spec, RecentlyUsedSurvives

-----------------------------------------------------------------------------
(* The contract.  entries is the abstract cache the indexes stand for.     *)

entries == [k \in Stored |-> [owner |-> Owner(k), verified |-> store[k].verified]]

\* Removing keys from the indexes removes them, and nothing else, from entries.
LEMMA RemoveEntries ==
  ASSUME IInv, NEW gone, RemoveKeys(gone)
  PROVE  entries' = [k \in Stored \ gone |-> entries[k]]
<1>1. Stored' = Stored \ gone
  BY DEF RemoveKeys, Stored
<1>2. ASSUME NEW k \in Stored \ gone
      PROVE  Owner(k)' = Owner(k) /\ store'[k] = store[k]
  BY <1>2 DEF RemoveKeys, Owner
<1>. QED
  BY <1>1, <1>2 DEF entries

\* forgetSubject erases exactly the keys the subject owns.
LEMMA ErasedIsOwned ==
  ASSUME IInv, NEW s \in Subjects
  PROVE  subjects[s] \cap Stored = {k \in Stored : entries[k].owner = s}
<1>1. s # NoSubject
  BY CacheAssumption
<1>. QED
  BY <1>1 DEF IInv, IndexCoherent, TypeOK, entries, Owner, Stored

EntriesWith(k, owner, verified, gone) ==
  [j \in (Stored \ gone) \cup {k} |->
     IF j = k THEN [owner |-> owner, verified |-> verified] ELSE entries[j]]

\* Storing an entry changes that entry of entries and no other.
LEMMA InsertEntries ==
  ASSUME IInv, NEW k \in Keys, NEW owner \in Subjects \cup {NoSubject},
         NEW verified \in BOOLEAN, NEW gone \in SUBSET Stored,
         owner = NoSubject => k \notin DOMAIN keySubject \ gone,
         Insert(k, owner, verified, gone)
  PROVE  entries' = EntriesWith(k, owner, verified, gone)
<1> DEFINE named == (DOMAIN keySubject \ (gone \cup {k})) \cup (IF owner = NoSubject THEN {} ELSE {k})
<1>1. /\ Stored' = (Stored \ gone) \cup {k}
      /\ DOMAIN keySubject' = named
      /\ \A j \in named : keySubject'[j] = IF j = k THEN owner ELSE keySubject[j]
      /\ \A j \in (Stored \ gone) \cup {k} :
           j # k => store'[j] = store[j]
      /\ store'[k].verified = verified
  BY DEF Insert, Stored
<1>2. ASSUME NEW j \in (Stored \ gone) \cup {k}, j # k
      PROVE  Owner(j)' = Owner(j)
  BY <1>1, <1>2 DEF Owner
<1>3. Owner(k)' = owner
  BY <1>1 DEF Owner
<1>. QED
  BY <1>1, <1>2, <1>3 DEF entries, EntriesWith

\* Every step of the cache is a step of the contract or leaves it alone.
LEMMA StepContract == IInv /\ [Next]_vars => [Contract!CNext]_(Contract!cvars)
<1> SUFFICES ASSUME IInv, [Next]_vars PROVE [Contract!CNext]_(Contract!cvars)
  OBVIOUS
<1>1. Contract!Held = Stored /\ Contract!Held' = Stored'
  BY DEF Contract!Held, Stored
<1>2. ASSUME UNCHANGED <<store, keySubject>> PROVE entries' = entries
  BY <1>2 DEF entries, Owner, Stored
<1>3. CASE Tick
  BY <1>2, <1>3 DEF Tick, Advance, Contract!cvars, entries
<1>4. CASE Sweep
  <2>1. PICK lost \in SUBSET Contract!Held : lost = Swept
    BY <1>1 DEF Swept
  <2>2. Contract!Lose(lost)
    BY <1>1, <1>4, <2>1, RemoveEntries
    DEF Sweep, Reply, Contract!Lose, Contract!Keep, Contract!Answer, entries
  <2>. QED
    BY <2>2 DEF Contract!CNext
<1>5. ASSUME NEW k \in Keys, NEW subject \in Subjects \cup {NoSubject},
             NEW verified \in BOOLEAN, PutStored(k, subject, verified)
      PROVE  Contract!CNext
  <2>1. PICK gone \in Displaced(k) :
          Insert(k, OwnerAfter(k, subject, gone), verified, gone)
    BY <1>5 DEF PutStored
  <2>2. gone \in SUBSET Stored
    BY DisplacedStored
  <2>3. PICK owner \in Subjects \cup {NoSubject} : owner = OwnerAfter(k, subject, gone)
    BY OwnerType DEF IInv
  <2>4. owner = NoSubject => k \notin DOMAIN keySubject \ gone
    BY <2>3, OwnerType DEF IInv
  <2>5. Insert(k, owner, verified, gone)
    BY <2>1, <2>3
  <2>6. entries' = EntriesWith(k, owner, verified, gone)
    BY <2>2, <2>4, <2>5, InsertEntries
  <2>7. owner = IF subject # NoSubject THEN subject
                ELSE IF k \in Stored \ gone THEN entries[k].owner ELSE NoSubject
    BY <2>3 DEF OwnerAfter, entries, Owner, IInv, IndexCoherent
  <2>8. reply' = [status |-> "stored", key |-> k, removed |-> gone]
    BY <2>5 DEF Insert, Reply
  <2>9. Contract!Store(k, subject, verified, gone)
    BY <1>1, <2>6, <2>7, <2>8 DEF Contract!Store, Contract!Answer, entries, EntriesWith
  <2>. QED
    BY <1>1, <2>2, <2>9 DEF Contract!CNext
<1>6. ASSUME NEW k \in Keys, NEW subject \in Subjects \cup {NoSubject},
             NEW oversize \in BOOLEAN, PutRejected(k, oversize, subject)
      PROVE  Contract!CNext
  <2>1. PICK lost \in SUBSET Contract!Held : lost = Swept
    BY <1>1 DEF Swept
  <2>2. Contract!Refuse(k, lost)
    BY <1>1, <1>6, <2>1, RemoveEntries
    DEF PutRejected, Reply, Contract!Refuse, Contract!Keep, Contract!Answer, entries
  <2>. QED
    BY <2>2 DEF Contract!CNext
<1>7. ASSUME NEW k \in Keys, FetchMiss(k) PROVE Contract!CNext
  <2>1. Contract!Miss(k)
    BY <1>1, <1>2, <1>7 DEF FetchMiss, Reply, Contract!Miss, Contract!Answer, entries
  <2>. QED
    BY <2>1 DEF Contract!CNext
<1>8. ASSUME NEW k \in Keys, FetchExpired(k) PROVE Contract!CNext
  <2>1. Contract!Miss(k)
    BY <1>1, <1>8, RemoveEntries
    DEF FetchExpired, Reply, Contract!Miss, Contract!Answer, Contract!Keep, entries
  <2>. QED
    BY <2>1 DEF Contract!CNext
<1>9. ASSUME NEW k \in Keys, FetchUnverified(k) PROVE Contract!CNext
  <2>1. Contract!Withhold(k)
    BY <1>1, <1>2, <1>9
    DEF FetchUnverified, Reply, Contract!Withhold, Contract!Answer, entries, IInv, TypeOK, Entry
  <2>. QED
    BY <2>1 DEF Contract!CNext
<1>10. ASSUME NEW k \in Keys, NEW requireVerified \in BOOLEAN, FetchHit(k, requireVerified)
       PROVE  Contract!CNext
  <2>1. Contract!Serve(k, requireVerified)
    BY <1>1, <1>2, <1>10 DEF FetchHit, Reply, Contract!Serve, Contract!Answer, entries
  <2>. QED
    BY <2>1 DEF Contract!CNext
<1>11. ASSUME NEW s \in Subjects, ForgetSubject(s) PROVE Contract!CNext
  <2> DEFINE erased == subjects[s] \cap Stored
  <2>1. Contract!OwnedBy(s) = erased
    BY <1>1, ErasedIsOwned DEF Contract!OwnedBy, entries
  <2>2. /\ Stored' = Stored \ erased
        /\ \A k \in Stored \ erased : Owner(k)' = Owner(k) /\ store'[k] = store[k]
    BY <1>11 DEF ForgetSubject, Stored, Owner
  <2>3. entries' = [k \in Stored \ erased |-> entries[k]]
    BY <2>2 DEF entries
  <2>4. reply' = [status |-> "forgotten", key |-> NoKey, removed |-> erased]
    BY <1>11 DEF ForgetSubject, Reply
  <2> HIDE DEF erased
  <2>5. Contract!Forget(s)
    BY <1>1, <2>1, <2>3, <2>4 DEF Contract!Forget, Contract!Keep, Contract!Answer, entries
  <2>. QED
    BY <2>5 DEF Contract!CNext
<1>12. ASSUME NEW k \in Keys, DropKey(k) PROVE Contract!CNext
  <2>1. entries' = [j \in Stored \ {k} |-> entries[j]]
    <3>1. CASE k \in Stored
      BY <1>12, <3>1, RemoveEntries DEF DropKey
    <3>2. CASE k \notin Stored
      BY <1>2, <1>12, <3>2 DEF DropKey, entries
    <3>. QED
      BY <3>1, <3>2
  <2>2. Contract!Drop(k)
    BY <1>1, <1>12, <2>1 DEF DropKey, Reply, Contract!Drop, Contract!Keep, Contract!Answer, entries
  <2>. QED
    BY <2>2 DEF Contract!CNext
<1>13. CASE UNCHANGED vars
  BY <1>2, <1>13 DEF vars, Contract!cvars, entries
<1>. QED
  BY <1>3, <1>4, <1>5, <1>6, <1>7, <1>8, <1>9, <1>10, <1>11, <1>12, <1>13 DEF Next

(***************************************************************************)
(* The cache with its hand-kept indexes implements CacheContract: what it  *)
(* answers, stores and erases is what a set of owned entries would.        *)
(***************************************************************************)
THEOREM ImplementsContract == Spec => RefinesContract
<1>1. Init => Contract!CInit
  BY DEF Init, Contract!CInit, Stored
<1>. QED
  BY <1>1, StepContract, InvAlways, PTL DEF Spec, RefinesContract, Contract!CSpec
=============================================================================
