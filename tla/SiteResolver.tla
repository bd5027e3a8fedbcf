---------------------------- MODULE SiteResolver ----------------------------
(***************************************************************************)
(* The gateway's host to site resolver                                     *)
(* (src/runtime/template/siteResolver.ts): a host is looked up in AO       *)
(* unless a circuit is open, or AO or the host was unavailable lately, or  *)
(* the answer is cached.  The fetch is awaited, so lookups overlap and end *)
(* in any order; everything before it and everything after it is atomic.   *)
(*                                                                         *)
(* Times are what remains of them, or what has passed up to where it no    *)
(* longer matters, so the clock needs no bound.  The static host map and   *)
(* the fallback decide what is answered, not what is remembered: hosts     *)
(* they settle do not get here.                                            *)
(***************************************************************************)
EXTENDS Integers, FiniteSets

CONSTANTS
  Lookups,     \* lookups in flight
  Hosts,       \* hosts that are asked for
  NoHost,      \* what a free lookup slot holds
  FoundTTL,    \* GATEWAY_SITE_RESOLVE_CACHE_TTL_MS
  UnavailTTL,  \* GATEWAY_SITE_RESOLVE_UNAVAILABLE_CACHE_TTL_MS
  GlobalTTL,   \* GATEWAY_SITE_RESOLVE_GLOBAL_UNAVAILABLE_CACHE_TTL_MS, or 0
  Failures,    \* GATEWAY_SITE_RESOLVE_BREAKER_THRESHOLD
  Window,      \* GATEWAY_SITE_RESOLVE_BREAKER_WINDOW_MS
  OpenFor,     \* GATEWAY_SITE_RESOLVE_BREAKER_OPEN_MS
  FetchLimit   \* GATEWAY_SITE_RESOLVE_TIMEOUT_MS

ASSUME ResolverAssumption ==
  /\ NoHost \notin Hosts
  /\ FoundTTL \in Nat \ {0} /\ UnavailTTL \in Nat \ {0} /\ GlobalTTL \in Nat
  /\ Failures \in Nat \ {0} /\ Window \in Nat \ {0} /\ OpenFor \in Nat \ {0}
  /\ FetchLimit \in Nat

VARIABLES
  found,       \* aoResolutionCache: host |-> for how long, whatever the answer
  unavailable, \* aoUnavailableCache: host |-> for how long
  allDown,     \* globalAoUnavailableCache: for how long
  circuit,     \* resolverCircuit: [failures, age of the window, open for]
  lookup,      \* the lookups in flight
  up           \* 0 while AO does not answer, else 1 and for how long it has

resolverVars == <<found, unavailable, allDown, circuit, lookup, up>>

LongestOf(S) == CHOOSE m \in S : \A n \in S : n <= m

\* How long AO must answer for the resolver to forget that it did not.
Recovery == FetchLimit + LongestOf({UnavailTTL, GlobalTTL, OpenFor})

Lookup == [host : Hosts \cup {NoHost}, age : 0 .. FetchLimit, doubt : BOOLEAN, early : BOOLEAN]

NoLookup == [host |-> NoHost, age |-> 0, doubt |-> FALSE, early |-> FALSE]

ResolverTypeOK ==
  /\ found \in [Hosts -> 0 .. FoundTTL]
  /\ unavailable \in [Hosts -> 0 .. UnavailTTL]
  /\ allDown \in 0 .. GlobalTTL
  /\ circuit \in [failures : 0 .. Failures, age : 0 .. Window + 1, open : 0 .. OpenFor]
  /\ lookup \in [Lookups -> Lookup]
  /\ up \in 0 .. Recovery + 1

ResolverInit ==
  /\ found = [h \in Hosts |-> 0]
  /\ unavailable = [h \in Hosts |-> 0]
  /\ allDown = 0
  /\ circuit = [failures |-> 0, age |-> Window + 1, open |-> 0]
  /\ lookup = [l \in Lookups |-> NoLookup]
  /\ up \in {0, Recovery + 1}

-----------------------------------------------------------------------------
(* lookupSiteIdViaAo.                                                      *)

\* Mutant of CircuitOpen: the circuit is never consulted.
CircuitIgnored == FALSE

CircuitOpen == circuit.open > 0

Refused(h) == CircuitOpen \/ allDown > 0 \/ unavailable[h] > 0

\* Mutant of AskRefused: each refusal prolongs the memory of the failure.
AskRefusedAgain(h) ==
  /\ Refused(h)
  /\ unavailable' = [unavailable EXCEPT ![h] = UnavailTTL]
  /\ UNCHANGED <<found, allDown, circuit, lookup, up>>

\* Answered with the error remembered, from the cache before any success in it.
AskRefused(h) ==
  /\ Refused(h)
  /\ UNCHANGED resolverVars

\* Nothing is known of the host: AO is asked.
AskAo(l, h) ==
  /\ ~Refused(h) /\ found[h] = 0
  /\ lookup[l].host = NoHost
  /\ lookup' = [lookup EXCEPT ![l] =
                  [host |-> h, age |-> 0, doubt |-> up = 0, early |-> FALSE]]
  /\ UNCHANGED <<found, unavailable, allDown, circuit, up>>

\* storeAoLookup and noteResolverSuccess, for a site as for its absence.
Resolved(l) ==
  /\ lookup[l].host # NoHost
  /\ found' = [found EXCEPT ![lookup[l].host] = FoundTTL]
  /\ unavailable' = [unavailable EXCEPT ![lookup[l].host] = 0]
  /\ allDown' = 0
  /\ circuit' = [failures |-> 0, age |-> 0, open |-> 0]
  /\ lookup' = [lookup EXCEPT ![l] = NoLookup]
  /\ UNCHANGED up

\* noteResolverFailure.
Noting ==
  LET stale == circuit.age > Window
      count == IF stale THEN 1 ELSE circuit.failures + 1
  IN [failures |-> IF count > Failures THEN Failures ELSE count,
      age      |-> IF stale THEN 0 ELSE circuit.age,
      open     |-> IF count >= Failures THEN OpenFor ELSE circuit.open]

\* An error answer, no connection or no answer in time: noteResolverFailure and
\* storeAoUnavailable, whatever has been stored for the host meanwhile.
Unresolved(l) ==
  /\ lookup[l].host # NoHost
  /\ lookup[l].doubt
  /\ circuit' = Noting
  /\ unavailable' = [unavailable EXCEPT ![lookup[l].host] = UnavailTTL]
  /\ allDown' = IF GlobalTTL > 0 THEN GlobalTTL ELSE allDown
  /\ lookup' = [m \in Lookups |->
       IF m = l THEN NoLookup
       ELSE [lookup[m] EXCEPT !.early = @ \/ (Noting.open > 0 /\ lookup[m].host # NoHost)]]
  /\ UNCHANGED <<found, up>>

-----------------------------------------------------------------------------
(* The environment.                                                        *)

\* AO stops answering, or answers again.  What is in flight may fail either way.
AoTurns ==
  /\ up' = IF up = 0 THEN 1 ELSE 0
  /\ lookup' = [l \in Lookups |-> [lookup[l] EXCEPT !.doubt = lookup[l].host # NoHost]]
  /\ UNCHANGED <<found, unavailable, allDown, circuit>>

Shorter(t) == IF t > 0 THEN t - 1 ELSE 0

ResolverTick ==
  /\ \A l \in Lookups : lookup[l].host # NoHost => lookup[l].age < FetchLimit
  /\ found' = [h \in Hosts |-> Shorter(found[h])]
  /\ unavailable' = [h \in Hosts |-> Shorter(unavailable[h])]
  /\ allDown' = Shorter(allDown)
  /\ circuit' = [failures |-> circuit.failures,
                 age      |-> IF circuit.age > Window THEN circuit.age ELSE circuit.age + 1,
                 open     |-> Shorter(circuit.open)]
  /\ lookup' = [l \in Lookups |->
       IF lookup[l].host = NoHost THEN NoLookup ELSE [lookup[l] EXCEPT !.age = @ + 1]]
  /\ up' = IF up = 0 \/ up > Recovery THEN up ELSE up + 1

ResolverNext ==
  \/ \E l \in Lookups, h \in Hosts : AskAo(l, h)
  \/ \E h \in Hosts : AskRefused(h)
  \/ \E l \in Lookups : Resolved(l) \/ Unresolved(l)
  \/ AoTurns
  \/ ResolverTick

ResolverSpec == ResolverInit /\ [][ResolverNext]_resolverVars

-----------------------------------------------------------------------------
(* Properties.                                                             *)

(***************************************************************************)
(* A circuit that has opened stays open for its time, unless a lookup that *)
(* was in flight when it opened succeeds after all: such a late answer     *)
(* closes it, whatever has failed since that lookup began.                 *)
(***************************************************************************)
CircuitHolds ==
  [][circuit.open > 1 /\ circuit'.open = 0
       => \E l \in Lookups : lookup[l].host # NoHost /\ lookup[l].early]_resolverVars

(***************************************************************************)
(* Failures are forgotten: once AO has answered for as long as a lookup    *)
(* may take and the longest memory lasts, no host is refused, however late *)
(* earlier lookups failed, and however often hosts are asked for.          *)
(***************************************************************************)
RecoversInTime == up > Recovery => \A h \in Hosts : ~Refused(h)

(***************************************************************************)
(* What the proofs need besides.  A lookup that may fail although AO       *)
(* answers is as old as the time since AO came back; what is remembered of *)
(* a failure ends within that and the longest memory; and every lookup in  *)
(* flight while the circuit is open was in flight when it opened.          *)
(***************************************************************************)
Longest == LongestOf({UnavailTTL, GlobalTTL, OpenFor})

\* A memory with so much left ends in time.
EndsInTime(left) == up > 0 /\ left > 0 => up + left <= Recovery + 1

MemoryInv ==
  /\ \A l \in Lookups : lookup[l].doubt /\ up > 0 => up <= lookup[l].age + 1
  /\ \A h \in Hosts : EndsInTime(unavailable[h])
  /\ EndsInTime(allDown)
  /\ EndsInTime(circuit.open)

CircuitInv ==
  circuit.open > 0 => \A l \in Lookups : lookup[l].host # NoHost => lookup[l].early

ResolverIInv == ResolverTypeOK /\ MemoryInv /\ CircuitInv
=============================================================================
