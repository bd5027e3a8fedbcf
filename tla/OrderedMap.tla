----------------------------- MODULE OrderedMap -----------------------------
(***************************************************************************)
(* JavaScript's Map, as the gateway's bounded memories use it: it iterates *)
(* in the order in which its keys were inserted, setting a key that is     *)
(* there leaves it in its place, and a key deleted and set again goes to   *)
(* the end.                                                                *)
(*                                                                         *)
(* A map is a function `of` on its keys, and their order `before`:         *)
(* <<j, k>> \in before when j was inserted before k.                       *)
(***************************************************************************)
EXTENDS Naturals, FiniteSets

EmptyMap == [of |-> [k \in {} |-> 0], before |-> {}]

MapKeys(m) == DOMAIN m.of

\* The keys inserted after k.
After(m, k) == {j \in MapKeys(m) : <<k, j>> \in m.before}

\* Every key outside S is deleted.
MapOnly(m, S) ==
  [of |-> [k \in MapKeys(m) \cap S |-> m.of[k]], before |-> m.before \cap (S \X S)]

\* map.set(k, v).
MapSet(m, k, v) ==
  [of |-> [j \in MapKeys(m) \cup {k} |-> IF j = k THEN v ELSE m.of[j]],
   before |-> IF k \in MapKeys(m) THEN m.before ELSE m.before \cup (MapKeys(m) \X {k})]

\* while (map.size > n) map.delete(map.keys().next().value).
MapNewest(m, n) == MapOnly(m, {k \in MapKeys(m) : Cardinality(After(m, k)) < n})

\* The order in which keys were inserted is a strict total order.
Ordered(m) ==
  /\ m.before \subseteq MapKeys(m) \X MapKeys(m)
  /\ \A j, k \in MapKeys(m) : <<j, k>> \in m.before \equiv j # k /\ <<k, j>> \notin m.before
  /\ \A i, j, k \in MapKeys(m) :
       <<i, j>> \in m.before /\ <<j, k>> \in m.before => <<i, k>> \in m.before

\* m is a map from some of K to V.
MapOf(m, K, V) ==
  /\ m = [of |-> m.of, before |-> m.before]
  /\ MapKeys(m) \subseteq K /\ IsFiniteSet(MapKeys(m))
  /\ m.of \in [MapKeys(m) -> V]
  /\ Ordered(m)
=============================================================================
