-------------------------- MODULE RouteAssertions --------------------------
(***************************************************************************)
(* Route assertions of the secrets worker: /route/assert signs one for a   *)
(* challenge (routeAssertion.ts), /route/assert/verify accepts each once   *)
(* (routeAssertionVerify.ts), remembering its challenge in KV              *)
(* (routeAssertionReplay.ts).  The marker is looked up and then put, two   *)
(* awaited calls, under a lock that only the requests of one isolate see.  *)
(* Modelled with ROUTE_ASSERT_VERIFY_REPLAY_ENABLED and INBOX_KV.          *)
(*                                                                         *)
(* Signatures are taken to hold: what is presented is what was signed.     *)
(***************************************************************************)
EXTENDS Clock, FiniteSets

CONSTANTS
  Verifies,     \* verifications in flight
  Isolates,     \* isolates of the worker that verifies
  Challenges,   \* (domain, cfgTx, challengeNonce)
  ChallengeExp, \* challenge |-> challengeExp
  AssertTTL,    \* ROUTE_ASSERT_TTL_SEC
  ReplayTTL,    \* ROUTE_ASSERT_VERIFY_REPLAY_TTL_SEC, or 0 for what remains of the assertion
  Skew,         \* ROUTE_ASSERT_VERIFY_SKEW_SEC
  Ahead         \* how far the signer's clock may be ahead

ASSUME AssertionAssumption ==
  /\ ChallengeExp \in [Challenges -> Nat]
  /\ AssertTTL \in Nat \ {0} /\ ReplayTTL \in Nat /\ Skew \in Nat /\ Ahead \in Nat

VARIABLES
  issued,   \* the assertions signed: [challenge, iat, exp]
  marker,   \* KV: challenge |-> until when it is remembered
  held,     \* localClaimLocks: isolate |-> challenges
  verify,   \* the verifications in flight
  accepted, \* history: how often an assertion was accepted on a lookup before its expiry, up to 2
  raced     \* history: challenges for which a put followed a lookup that another had overtaken

assertVars == <<issued, marker, held, verify, accepted, raced>>

Assertions == [challenge : Challenges, iat : 0 .. MaxTime + Ahead, exp : 0 .. MaxTime + Ahead + AssertTTL]

NoAssertion == [challenge |-> "none", iat |-> 0, exp |-> 0]

Verify == [pc : {"idle", "looking", "putting"}, assertion : issued \cup {NoAssertion},
           isolate : Isolates \cup {"none"}, ttl : Nat, late : BOOLEAN, overtaken : BOOLEAN]

AssertTypeOK ==
  /\ issued \subseteq Assertions
  /\ marker \in [Challenges -> Nat]
  /\ held \in [Isolates -> SUBSET Challenges]
  /\ verify \in [Verifies -> Verify]
  /\ \A v \in Verifies :
       verify[v].pc # "idle" => verify[v].assertion \in issued /\ verify[v].isolate \in Isolates
  /\ accepted \in [issued -> 0 .. 2]
  /\ raced \subseteq Challenges

NoVerify == [pc |-> "idle", assertion |-> NoAssertion, isolate |-> "none", ttl |-> 0,
             late |-> FALSE, overtaken |-> FALSE]

AssertInit ==
  /\ issued = {}
  /\ marker = [c \in Challenges |-> 0]
  /\ held = [i \in Isolates |-> {}]
  /\ verify = [v \in Verifies |-> NoVerify]
  /\ accepted = [a \in {} |-> 0]
  /\ raced = {}

\* handleRouteAssert, by the signer's clock: an assertion outlives neither its
\* challenge nor its ttl.
RouteAssert(c, clock) ==
  LET a == [challenge |-> c, iat |-> clock,
            exp |-> IF ChallengeExp[c] < clock + AssertTTL THEN ChallengeExp[c] ELSE clock + AssertTTL]
  IN
  /\ ChallengeExp[c] > clock
  /\ issued' = issued \cup {a}
  /\ accepted' = [b \in issued \cup {a} |-> IF b \in issued THEN accepted[b] ELSE 0]
  /\ UNCHANGED <<now, marker, held, verify, raced>>

\* verifyWindow.
WindowOpen(a) == a.exp > now /\ a.iat <= now + Skew

\* Mutant of RememberFor: the skew that is allowed is subtracted as well.
RememberForLess(a) == IF a.exp - now - 1 > 1 THEN a.exp - now - 1 ELSE 1

\* replayTtl.
RememberFor(a) ==
  IF ReplayTTL > 0 THEN ReplayTTL ELSE IF a.exp - now > 1 THEN a.exp - now ELSE 1

\* handleRouteAssertVerify up to the lookup; a challenge that the isolate is
\* claiming already is refused as a replay, and changes nothing.
VerifyBegin(v, a, i) ==
  /\ verify[v].pc = "idle"
  /\ a \in issued /\ WindowOpen(a)
  /\ a.challenge \notin held[i]
  /\ held' = [held EXCEPT ![i] = @ \cup {a.challenge}]
  /\ verify' = [verify EXCEPT ![v] =
       [pc |-> "looking", assertion |-> a, isolate |-> i, ttl |-> RememberFor(a),
        late |-> FALSE, overtaken |-> FALSE]]
  /\ UNCHANGED <<now, issued, marker, accepted, raced>>

\* The `finally`: the lock is released with the answer.
VerifyEnds(v) ==
  /\ verify' = [verify EXCEPT ![v] = NoVerify]
  /\ held' = [held EXCEPT ![verify[v].isolate] = @ \ {verify[v].assertion.challenge}]

Replayed(v) ==
  /\ verify[v].pc = "looking"
  /\ marker[verify[v].assertion.challenge] > now
  /\ VerifyEnds(v)
  /\ UNCHANGED <<now, issued, marker, accepted, raced>>

NotReplayed(v) ==
  /\ verify[v].pc = "looking"
  /\ marker[verify[v].assertion.challenge] <= now
  /\ verify' = [verify EXCEPT ![v].pc = "putting", ![v].late = verify[v].assertion.exp <= now]
  /\ UNCHANGED <<now, issued, marker, held, accepted, raced>>

\* The put takes effect: what others looked up before is overtaken.
PutMarkerOf(v) ==
  /\ marker' = [marker EXCEPT ![verify[v].assertion.challenge] = now + verify[v].ttl]
  /\ held' = [held EXCEPT ![verify[v].isolate] = @ \ {verify[v].assertion.challenge}]
  /\ verify' = [w \in Verifies |->
       IF w = v THEN NoVerify
       ELSE [verify[w] EXCEPT !.overtaken =
               @ \/ (verify[w].pc = "putting" /\ verify[w].assertion.challenge = verify[v].assertion.challenge)]]
  /\ raced' = IF verify[v].overtaken THEN raced \cup {verify[v].assertion.challenge} ELSE raced

VerifyAccept(v) ==
  LET a == verify[v].assertion IN
  /\ verify[v].pc = "putting"
  /\ PutMarkerOf(v)
  /\ accepted' = [accepted EXCEPT ![a] = IF ~verify[v].late /\ @ < 2 THEN @ + 1 ELSE @]
  /\ UNCHANGED <<now, issued>>

\* A KV call throws, the put with or without effect: an error is answered.
VerifyFails(v) ==
  /\ verify[v].pc # "idle"
  /\ \/ VerifyEnds(v) /\ UNCHANGED <<marker, raced>>
     \/ verify[v].pc = "putting" /\ PutMarkerOf(v)
  /\ UNCHANGED <<now, issued, accepted>>

EvictVerifier(i) ==
  /\ \E v \in Verifies : verify[v].isolate = i
  /\ verify' = [v \in Verifies |-> IF verify[v].isolate = i THEN NoVerify ELSE verify[v]]
  /\ held' = [held EXCEPT ![i] = {}]
  /\ UNCHANGED <<now, issued, marker, accepted, raced>>

AssertTick == Advance /\ UNCHANGED assertVars

AssertNext ==
  \/ \E c \in Challenges, ahead \in 0 .. Ahead : RouteAssert(c, now + ahead)
  \/ \E v \in Verifies, a \in issued, i \in Isolates : VerifyBegin(v, a, i)
  \/ \E v \in Verifies : Replayed(v) \/ NotReplayed(v) \/ VerifyAccept(v) \/ VerifyFails(v)
  \/ \E i \in Isolates : EvictVerifier(i)
  \/ AssertTick

AssertSpec == InitClock /\ AssertInit /\ [][AssertNext]_<<now, assertVars>>

-----------------------------------------------------------------------------

\* The marker is meant to last as long as the assertion.
Lasts == ReplayTTL = 0 \/ ReplayTTL >= AssertTTL + Ahead

(***************************************************************************)
(* Where the marker is meant to last as long as the assertion, an          *)
(* assertion is accepted once.  A second time takes requests of its        *)
(* challenge that overlap in two isolates, of which the later put may also *)
(* leave the marker of a shorter-lived assertion; or one that was in its   *)
(* window when it was checked and had expired, marker and all, when KV     *)
(* answered.                                                               *)
(***************************************************************************)
VerifiedOnce ==
  Lasts => \A a \in issued : accepted[a] <= 1 \/ a.challenge \in raced

(***************************************************************************)
(* What the proofs need besides.  Where the marker is meant to last, it    *)
(* outlasts every assertion that was accepted, until its challenge has     *)
(* raced; so a verification that found no marker and was not overtaken has *)
(* an assertion that nobody has spent, or had one that is out of its time. *)
(***************************************************************************)
Spent(a) == accepted[a] >= 1 /\ a.challenge \notin raced

WindowInv ==
  \A a \in issued : a.exp <= a.iat + AssertTTL /\ a.iat <= now + Ahead

MarkerInv ==
  \A a \in issued : Spent(a) => a.exp <= now \/ a.exp <= marker[a.challenge]

Outlasting(q) == q.pc # "idle" => q.assertion.exp <= now + q.ttl

First(q) ==
  q.pc = "putting" /\ ~q.overtaken =>
    /\ \A a \in issued : a.challenge = q.assertion.challenge /\ Spent(a) => a.exp <= now
    /\ ~q.late => ~Spent(q.assertion)

AssertIInv ==
  /\ now \in 0 .. MaxTime
  /\ AssertTypeOK
  /\ WindowInv
  /\ Lasts => MarkerInv /\ \A v \in Verifies : Outlasting(verify[v]) /\ First(verify[v])
  /\ VerifiedOnce
=============================================================================
