------------------------------ MODULE MCGateway ------------------------------
(***************************************************************************)
(* The components of the gateway that share no state, side by side in one  *)
(* run: a behaviour chooses one of them and steps it, and the others stay  *)
(* as they start.  The write path takes the secrets worker in.             *)
(***************************************************************************)
EXTENDS GatewayCache, FrontController, RateLimiter, SessionLifecycle, WritePath,
        SiteResolver, TLC

CONSTANTS
  u1, u2, u3, \* actors: views, lookups, attempts; keys, subjects
  t1, t2,     \* templates
  k1, k2, k3, \* clients; k3 is the empty key
  h1, h2      \* hosts

VARIABLE part

Parts == {"cache", "front", "buckets", "sessions", "write", "resolver"}

\* One client may ask once in a window, the others twice.
MCMaxReq == k1 :> 1 @@ k2 :> 2 @@ k3 :> 2

MCSymmetry == Permutations({u1, u2}) \cup Permutations(Txs)

\* A component that is not stepped has one initial state.
GatewayInit ==
  /\ part \in Parts
  /\ Init
  /\ FrontInit /\ (part # "front" => listed = [tx |-> t1, hashed |-> FALSE])
  /\ LimiterInit
  /\ SessionInit
  /\ WriteInit /\ (part # "write" => how = [a \in Attempts |-> "gateway"])
  /\ ResolverInit /\ (part # "resolver" => up = 0)

GatewayNext ==
  /\ UNCHANGED part
  /\ \/ /\ part = "cache"
        /\ UNCHANGED <<frontVars, limiterVars, sessionVars, writeVars, resolverVars>>
        /\ Next
     \/ /\ part = "front"
        /\ UNCHANGED <<vars, limiterVars, sessionVars, writeVars, resolverVars>>
        /\ FrontNext
     \/ /\ part = "buckets"
        /\ UNCHANGED <<vars, frontVars, sessionVars, writeVars, resolverVars>>
        /\ LimiterNext
     \/ /\ part = "sessions"
        /\ UNCHANGED <<vars, frontVars, limiterVars, writeVars, resolverVars>>
        /\ SessionNext
     \/ /\ part = "write"
        /\ UNCHANGED <<vars, frontVars, limiterVars, sessionVars, resolverVars>>
        /\ WriteNext
     \/ /\ part = "resolver"
        /\ UNCHANGED <<vars, frontVars, limiterVars, sessionVars, writeVars>>
        /\ ResolverNext

GatewaySpec ==
  /\ GatewayInit
  /\ [][GatewayNext]_<<part, vars, frontVars, limiterVars, sessionVars, writeVars, resolverVars>>

(***************************************************************************)
(* The state of every component has its type: what its code may leave in   *)
(* its Maps, in the requests in flight and at the write process.           *)
(***************************************************************************)
GatewayTypeOK ==
  /\ TypeOK
  /\ FrontTypeOK
  /\ LimiterTypeOK
  /\ SessionTypeOK
  /\ WriteTypeOK
  /\ ResolverTypeOK
=============================================================================
