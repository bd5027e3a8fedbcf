-------------------------- MODULE OrderedMap_proofs --------------------------
(***************************************************************************)
(* What the operations on a map keep and what MapNewest bounds: the facts  *)
(* that the developments about the rate limiter, the incident memory and   *)
(* the stores of event ids share.                                          *)
(***************************************************************************)
EXTENDS OrderedMap, FiniteSetTheorems, TLAPS

(***************************************************************************)
(* A Map starts empty.                                                     *)
(***************************************************************************)
LEMMA EmptyMapOf == ASSUME NEW K, NEW V PROVE MapOf(EmptyMap, K, V) /\ MapKeys(EmptyMap) = {}
BY FS_EmptySet DEF MapOf, MapKeys, EmptyMap, Ordered

(***************************************************************************)
(* Deleting keys leaves the others as they are, in their order.            *)
(***************************************************************************)
LEMMA MapOnlyOf ==
  ASSUME NEW K, NEW V, NEW m, MapOf(m, K, V), NEW S
  PROVE  /\ MapOf(MapOnly(m, S), K, V)
         /\ MapKeys(MapOnly(m, S)) = MapKeys(m) \cap S
         /\ \A k \in MapKeys(m) \cap S :
              /\ MapOnly(m, S).of[k] = m.of[k]
              /\ After(MapOnly(m, S), k) = After(m, k) \cap S
<1> DEFINE n == MapOnly(m, S)
<1>1. /\ n.of = [k \in MapKeys(m) \cap S |-> m.of[k]]
      /\ n.before = m.before \cap (S \X S)
      /\ MapKeys(n) = MapKeys(m) \cap S
      /\ n = [of |-> n.of, before |-> n.before]
  BY DEF MapOnly, MapKeys
<1>2. IsFiniteSet(MapKeys(n))
  BY <1>1, FS_Subset DEF MapOf
<1>3. Ordered(n)
  BY <1>1 DEF MapOf, Ordered
<1>4. n.of \in [MapKeys(n) -> V]
  BY <1>1 DEF MapOf
<1>5. \A k \in MapKeys(m) \cap S : After(n, k) = After(m, k) \cap S
  BY <1>1 DEF After
<1> QED BY <1>1, <1>2, <1>3, <1>4, <1>5 DEF MapOf

(***************************************************************************)
(* Values change in place.                                                 *)
(***************************************************************************)
LEMMA MapUpdatedOf ==
  ASSUME NEW K, NEW V, NEW W, NEW m, MapOf(m, K, V), NEW f \in [MapKeys(m) -> W]
  PROVE  /\ MapOf([of |-> f, before |-> m.before], K, W)
         /\ MapKeys([of |-> f, before |-> m.before]) = MapKeys(m)
<1> DEFINE n == [of |-> f, before |-> m.before]
<1>1. n.of = f /\ n.before = m.before /\ MapKeys(n) = MapKeys(m)
  BY DEF MapKeys
<1>2. n = [of |-> n.of, before |-> n.before]
  OBVIOUS
<1> HIDE DEF n
<1>3. Ordered(n)
  BY <1>1 DEF MapOf, Ordered
<1>4. MapOf(n, K, W)
  BY <1>1, <1>2, <1>3 DEF MapOf
<1> QED BY <1>1, <1>4 DEF n

(***************************************************************************)
(* Setting a key changes or adds that key only, and a new one at the end.  *)
(***************************************************************************)
LEMMA MapSetOf ==
  ASSUME NEW K, NEW V, NEW m, MapOf(m, K, V), NEW k \in K, NEW v \in V
  PROVE  /\ MapOf(MapSet(m, k, v), K, V)
         /\ MapKeys(MapSet(m, k, v)) = MapKeys(m) \cup {k}
         /\ MapSet(m, k, v).of[k] = v
         /\ \A j \in MapKeys(m) \ {k} : MapSet(m, k, v).of[j] = m.of[j]
         /\ k \in MapKeys(m) => \A j \in MapKeys(m) : After(MapSet(m, k, v), j) = After(m, j)
         /\ k \notin MapKeys(m) =>
              /\ After(MapSet(m, k, v), k) = {}
              /\ \A j \in MapKeys(m) : After(MapSet(m, k, v), j) = After(m, j) \cup {k}
<1> DEFINE n == MapSet(m, k, v)
<1>1. /\ n.of = [j \in MapKeys(m) \cup {k} |-> IF j = k THEN v ELSE m.of[j]]
      /\ n.before = IF k \in MapKeys(m) THEN m.before ELSE m.before \cup (MapKeys(m) \X {k})
      /\ MapKeys(n) = MapKeys(m) \cup {k}
      /\ n = [of |-> n.of, before |-> n.before]
  BY DEF MapSet, MapKeys
<1>2. IsFiniteSet(MapKeys(n))
  BY <1>1, FS_AddElement DEF MapOf
<1>3. CASE k \in MapKeys(m)
  <2>1. n.before = m.before /\ MapKeys(n) = MapKeys(m)
    BY <1>1, <1>3
  <2>2. Ordered(n) /\ \A j \in MapKeys(m) : After(n, j) = After(m, j)
    BY <2>1 DEF MapOf, Ordered, After
  <2> QED BY <1>1, <1>2, <1>3, <2>2 DEF MapOf
<1>4. CASE k \notin MapKeys(m)
  <2>1. n.before = m.before \cup (MapKeys(m) \X {k})
    BY <1>1, <1>4
  <2>2. Ordered(n)
    BY <2>1, <1>1, <1>4 DEF MapOf, Ordered
  <2>3. After(n, k) = {} /\ \A j \in MapKeys(m) : After(n, j) = After(m, j) \cup {k}
    BY <2>1, <1>1, <1>4 DEF MapOf, Ordered, After
  <2> QED BY <1>1, <1>2, <1>4, <2>2, <2>3 DEF MapOf
<1> QED BY <1>3, <1>4

(***************************************************************************)
(* Counting the keys after each key tells the keys apart, so that no more  *)
(* than n of them have less than n after them: what is left of a map that  *)
(* is pruned to n keys is at most n.                                       *)
(***************************************************************************)
LEMMA MapNewestOf ==
  ASSUME NEW K, NEW V, NEW m, MapOf(m, K, V), NEW n \in Nat
  PROVE  /\ MapOf(MapNewest(m, n), K, V)
         /\ MapKeys(MapNewest(m, n)) = {k \in MapKeys(m) : Cardinality(After(m, k)) < n}
         /\ \A k \in MapKeys(MapNewest(m, n)) : MapNewest(m, n).of[k] = m.of[k]
         /\ \A k \in MapKeys(MapNewest(m, n)) : After(MapNewest(m, n), k) \subseteq After(m, k)
         /\ Cardinality(MapKeys(MapNewest(m, n))) <= n
<1> DEFINE F == {k \in MapKeys(m) : Cardinality(After(m, k)) < n}
           size == [k \in F |-> Cardinality(After(m, k))]
<1>1. MapNewest(m, n) = MapOnly(m, F) /\ F \subseteq MapKeys(m) /\ F = MapKeys(m) \cap F
  BY DEF MapNewest
<1>2. \A k \in MapKeys(m) : IsFiniteSet(After(m, k)) /\ Cardinality(After(m, k)) \in Nat
  <2> TAKE k \in MapKeys(m)
  <2>1. After(m, k) \subseteq MapKeys(m)
    BY DEF After
  <2> QED BY <2>1, FS_Subset, FS_CardinalityType DEF MapOf
<1>3. ASSUME NEW j \in MapKeys(m), NEW k \in MapKeys(m), <<j, k>> \in m.before
      PROVE  Cardinality(After(m, k)) < Cardinality(After(m, j))
  <2>1. After(m, k) \subseteq After(m, j)
    BY <1>3 DEF After, MapOf, Ordered
  <2>2. k \in After(m, j) /\ k \notin After(m, k)
    BY <1>3 DEF After, MapOf, Ordered
  <2>3. IsFiniteSet(After(m, j)) /\ After(m, k) # After(m, j)
    BY <2>2, <1>2
  <2>4. /\ Cardinality(After(m, k)) <= Cardinality(After(m, j))
        /\ Cardinality(After(m, k)) # Cardinality(After(m, j))
    BY <2>1, <2>3, FS_Subset
  <2> QED BY <2>4, <1>2
<1>4. size \in [F -> 0 .. n - 1]
  BY <1>2
<1>5. \A j, k \in F : size[j] = size[k] => j = k
  <2> SUFFICES ASSUME NEW j \in F, NEW k \in F, j # k
               PROVE  size[j] # size[k]
    OBVIOUS
  <2>1. <<j, k>> \in m.before \/ <<k, j>> \in m.before
    BY DEF MapOf, Ordered
  <2>2. size[j] < size[k] \/ size[k] < size[j]
    BY <2>1, <1>3
  <2>3. size[j] \in Nat /\ size[k] \in Nat
    BY <1>2
  <2> QED BY <2>2, <2>3
<1>6. Cardinality(F) <= n
  <2>1. IsFiniteSet(0 .. n - 1) /\ Cardinality(0 .. n - 1) = n
    BY FS_Interval
  <2>2. size \in Injection(F, 0 .. n - 1)
    BY <1>4, <1>5, Zenon DEF Injection, IsInjective
  <2> HIDE DEF F, size
  <2> QED BY <2>1, <2>2, FS_Injection
<1> HIDE DEF F
<1>7. /\ MapOf(MapNewest(m, n), K, V)
      /\ MapKeys(MapNewest(m, n)) = F
      /\ \A k \in F : /\ MapNewest(m, n).of[k] = m.of[k]
                      /\ After(MapNewest(m, n), k) \subseteq After(m, k)
  BY <1>1, MapOnlyOf
<1> QED BY <1>6, <1>7 DEF F

(***************************************************************************)
(* A map that holds anything has a first key: all others come after it.    *)
(***************************************************************************)
LEMMA MapFirst ==
  ASSUME NEW K, NEW V, NEW m, MapOf(m, K, V), MapKeys(m) # {}
  PROVE  \E k \in MapKeys(m) : After(m, k) = MapKeys(m) \ {k}
<1> DEFINE c == Cardinality(MapKeys(m))
<1>1. IsFiniteSet(MapKeys(m)) /\ c \in Nat /\ c # 0
  BY FS_CardinalityType, FS_EmptySet DEF MapOf
<1>2. c - 1 \in Nat
  BY <1>1
<1>3. /\ MapKeys(MapNewest(m, c - 1)) = {k \in MapKeys(m) : Cardinality(After(m, k)) < c - 1}
      /\ Cardinality(MapKeys(MapNewest(m, c - 1))) <= c - 1
  <2> HIDE DEF c
  <2> QED BY <1>2, MapNewestOf
<1>4. {k \in MapKeys(m) : Cardinality(After(m, k)) < c - 1} # MapKeys(m)
  BY <1>1, <1>3
<1>5. PICK k \in MapKeys(m) : ~(Cardinality(After(m, k)) < c - 1)
  BY <1>4
<1>6. After(m, k) \subseteq MapKeys(m) \ {k}
  BY DEF After, MapOf, Ordered
<1>7. IsFiniteSet(MapKeys(m) \ {k}) /\ Cardinality(MapKeys(m) \ {k}) = c - 1
  BY <1>1, FS_RemoveElement
<1>8. /\ Cardinality(After(m, k)) <= c - 1 /\ IsFiniteSet(After(m, k))
      /\ (Cardinality(MapKeys(m) \ {k}) = Cardinality(After(m, k)) => MapKeys(m) \ {k} = After(m, k))
  <2> HIDE DEF c
  <2> QED BY <1>6, <1>7, FS_Subset
<1>9. Cardinality(After(m, k)) \in Nat
  BY <1>8, FS_CardinalityType
<1>10. Cardinality(After(m, k)) = c - 1
  BY <1>1, <1>5, <1>8, <1>9
<1> QED BY <1>7, <1>8, <1>10
=============================================================================
