------------------------------ MODULE MCWorkers ------------------------------
(***************************************************************************)
(* The components of the workers, which share no state, side by side in    *)
(* one run: a behaviour chooses one of them and steps it, and the others   *)
(* stay as they start.                                                     *)
(***************************************************************************)
EXTENDS SecretsInbox, KvLimiter, RouteAssertions, DomainMap, TLC

CONSTANTS
  u1, u2,  \* actors: requests, isolates, verifications, refreshes
  x1       \* a challenge, a domain, a configuration

VARIABLE part

\* Of the inbox, a few requests about two nonces, or one more about a single one
\* where it is to be accepted once.
InboxParts == {"inbox", "nonce"}

Parts == InboxParts \cup {"limiter", "assertions", "domain"}

\* Two nonces of one subject.
MCLetters == {[subject |-> <<"a">>, nonce |-> <<"m">>],
              [subject |-> <<"a">>, nonce |-> <<"n">>]}
MCNoLetter == [subject |-> <<>>, nonce |-> <<>>]

InboxFocus ==
  IF part = "inbox" THEN started' < MaxCalls
  ELSE /\ deployed.locks \/ deployed.oneIsolate
       /\ \A c \in InboxCalls : desk'[c].letter \in {MCNoLetter, [subject |-> <<"a">>, nonce |-> <<"m">>]}

MCDeployments ==
  {[locks |-> TRUE, oneIsolate |-> FALSE, janitor |-> TRUE],
   [locks |-> FALSE, oneIsolate |-> TRUE, janitor |-> FALSE],
   [locks |-> FALSE, oneIsolate |-> FALSE, janitor |-> TRUE]}

MCChallengeExp == x1 :> 3

\* A ttl above the limit.
MCTtlOf == x1 :> 2

MCSymmetry == Permutations({u1, u2})

domainVars == <<txt, withdrawn, kv, job>>

\* Owners change their TXT records before the last two units of time.
RecordsSettle == now + 1 < MaxTime \/ UNCHANGED txt

\* A component that is not stepped has one initial state.
WorkersInit ==
  /\ part \in Parts
  /\ InboxInit /\ (part \notin InboxParts => deployed = CHOOSE d \in Deployments : TRUE)
  /\ KvInit
  /\ AssertInit
  /\ Init /\ (part # "domain" => txt = [d \in Domains |-> NoCfg])

WorkersNext ==
  /\ UNCHANGED part
  /\ \/ /\ part \in InboxParts
        /\ UNCHANGED <<kvVars, assertVars, domainVars>>
        /\ InboxNext
        /\ now' < MaxTime
        /\ InboxFocus
     \/ /\ part = "limiter"
        /\ UNCHANGED <<now, inboxVars, assertVars, domainVars>>
        /\ KvNext
     \/ /\ part = "assertions"
        /\ UNCHANGED <<inboxVars, kvVars, domainVars>>
        /\ AssertNext
     \/ /\ part = "domain"
        /\ UNCHANGED <<inboxVars, kvVars, assertVars>>
        /\ Next
        /\ RecordsSettle

WorkersSpec ==
  WorkersInit /\ [][WorkersNext]_<<part, inboxVars, kvVars, assertVars, vars>>

(***************************************************************************)
(* The state of every component has its type: what its code may leave in   *)
(* the KV namespaces, the Durable Objects and the requests in flight.      *)
(***************************************************************************)
WorkersTypeOK == InboxTypeOK /\ KvTypeOK /\ AssertTypeOK /\ TypeOK
=============================================================================
