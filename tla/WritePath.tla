------------------------------ MODULE WritePath ------------------------------
(* A checkout write on its way from the browser to the write process:       *)
(* proxyTemplateCall of the gateway (src/templateApi.ts), /sign and the     *)
(* checkout routes of the secrets worker, and the write process on AO,      *)
(* which is outside the repository. The caller attempts one write several   *)
(* times; the worker pushes the command of each attempt up to Retries       *)
(* times, and a push it has stopped waiting for may still be delivered.     *)
EXTENDS Integers, FiniteSets

CONSTANTS
  Attempts,   \* the caller's attempts of one write
  CallerId,   \* the request id the caller gives
  Retries     \* GATEWAY_WRITE_RETRIES, the pushes of one command, at least one

ASSUME WriteAssumption == Retries \in Nat \ {0}

VARIABLES
  how,      \* attempt |-> how the caller makes it (Hows)
  gate,     \* attempt |-> where the gateway stands
  work,     \* attempt |-> where the worker stands
  tries,    \* attempt |-> the pushes the worker has made
  told,     \* attempt |-> what the caller was told
  pushed,   \* every push the worker ever made
  applied,  \* those that changed the write process
  declined, \* those the write process declined
  repeated  \* those it knew the id of, and answered as before

writeVars == <<how, gate, work, tries, told, pushed, applied, declined, repeated>>

(* Through the gateway a request id is required (the contract's idempotency *)
(* mode) and the command is signed at /sign. A caller that holds the        *)
(* template token may also call the worker's route itself, unsigned, with a *)
(* request id or without.                                                   *)
Hows == {"gateway", "direct", "unkeyed"}

Gates == {"idle", "signing", "calling", "answered"}
Works == {"idle", "pushing", "awaiting", "answered"}
Replies == {"none", "refused", "unknown", "done", "accepted", "declined", "failed"}

(* The write an attempt is for: the caller's, by the id it gave; without an *)
(* id, each attempt is a write of its own.                                  *)
WriteOf(a) == IF how[a] = "unkeyed" THEN a ELSE CallerId

(* buildWriteCommand makes an id up once, before the pushes, when it gets   *)
(* none.                                                                    *)
RequestIdAnew(a) == <<a, tries[a]>>
RequestId(a) == WriteOf(a)

(* The time stamp the command arrives with: the gateway's is a number of    *)
(* seconds. firstNonEmptyString takes text only, and has the worker write   *)
(* its own time instead of a number.                                        *)
GivenStamp(a) == IF how[a] = "gateway" THEN [kind |-> "number", by |-> "gateway"]
                                       ELSE [kind |-> "text", by |-> "caller"]
Stamp(a) == IF GivenStamp(a).kind = "text" THEN GivenStamp(a)
                                           ELSE [kind |-> "text", by |-> "worker"]

(* What the signature covers: what /sign was given, or what the worker signs*)
(* itself when the command comes unsigned.                                  *)
SignedStamp(a) == IF how[a] = "gateway" THEN GivenStamp(a) ELSE Stamp(a)

Command(a) == [of |-> a, id |-> RequestId(a), try |-> tries[a] + 1,
               stamp |-> Stamp(a), signs |-> SignedStamp(a)]

WriteInit ==
  /\ how \in [Attempts -> Hows]
  /\ gate = [a \in Attempts |-> "idle"]
  /\ work = [a \in Attempts |-> "idle"]
  /\ tries = [a \in Attempts |-> 0]
  /\ told = [a \in Attempts |-> "none"]
  /\ pushed = {}
  /\ applied = {}
  /\ declined = {}
  /\ repeated = {}

Process == <<pushed, applied, declined, repeated>>

Answer(a, r) == /\ gate' = [gate EXCEPT ![a] = "answered"]
                /\ told' = [told EXCEPT ![a] = r]

-----------------------------------------------------------------------------
(* The gates before the signature: action, mutations enabled, role, payload,*)
(* secrets, request id, target, allowlist, site, signer. All answer at once.*)
GateRefuses(a) ==
  /\ gate[a] = "idle" /\ how[a] = "gateway"
  /\ Answer(a, "refused")
  /\ UNCHANGED <<how, work, tries, Process>>

Enter(a) ==
  /\ gate[a] = "idle"
  /\ gate' = [gate EXCEPT ![a] = IF how[a] = "gateway" THEN "signing" ELSE "calling"]
  /\ UNCHANGED <<how, work, tries, told, Process>>

(* /sign refuses, fails or is late; or it signed under another signatureRef,*)
(* or the signed body is too large, or the upstream token is missing.       *)
SignRefused(a) ==
  /\ gate[a] = "signing"
  /\ Answer(a, "refused")
  /\ UNCHANGED <<how, work, tries, Process>>

Signed(a) ==
  /\ gate[a] = "signing"
  /\ gate' = [gate EXCEPT ![a] = "calling"]
  /\ UNCHANGED <<how, work, tries, told, Process>>

(* template_upstream_timeout and template_upstream_error: the call is       *)
(* aborted, the worker is not.                                              *)
CallLost(a) ==
  /\ gate[a] = "calling"
  /\ Answer(a, "unknown")
  /\ UNCHANGED <<how, work, tries, Process>>

-----------------------------------------------------------------------------
(* The worker has an answer; the caller learns it unless the call was lost. *)
Answered(a, r) ==
  /\ work' = [work EXCEPT ![a] = "answered"]
  /\ IF gate[a] = "calling" THEN Answer(a, r) ELSE UNCHANGED <<gate, told>>

(* The call may arrive after the gateway has given it up.                   *)
Arrives(a) == work[a] = "idle" /\ (gate[a] = "calling" \/ told[a] = "unknown")

(* Token, site scope, tenant, action_route_mismatch, signature_required.    *)
RouteRefuses(a) ==
  /\ Arrives(a)
  /\ Answered(a, "refused")
  /\ UNCHANGED <<how, tries, Process>>

RouteAccepts(a) ==
  /\ Arrives(a)
  /\ work' = [work EXCEPT ![a] = "pushing"]
  /\ UNCHANGED <<how, gate, tries, told, Process>>

Push(a) ==
  /\ work[a] = "pushing"
  /\ pushed' = pushed \cup {Command(a)}
  /\ tries' = [tries EXCEPT ![a] = @ + 1]
  /\ work' = [work EXCEPT ![a] = "awaiting"]
  /\ UNCHANGED <<how, gate, told, applied, declined, repeated>>

Delivered(p) == p \in applied \cup declined \cup repeated
Known(id, set) == \E p \in set : p.id = id
Current(a) == CHOOSE p \in pushed : p.of = a /\ p.try = tries[a]

(* The result of a scheduled push is read: the outcome, or an empty result, *)
(* which GATEWAY_WRITE_ACCEPT_EMPTY_RESULT answers as ACCEPTED_ASYNC.       *)
ResultRead(a) ==
  /\ work[a] = "awaiting"
  /\ LET p == Current(a) IN
       \/ Delivered(p) /\ Answered(a, IF Known(p.id, applied) THEN "done" ELSE "declined")
       \/ Delivered(p) /\ Answered(a, "accepted")
  /\ UNCHANGED <<how, tries, Process>>

(* No answer in time, an error, no slot, or a result that cannot be read:   *)
(* the same command again, and an internal error after the last.            *)
LastFailureAccepted(a) == "accepted"
LastFailure(a) == "failed"
TriesLeftOneMore(a) == tries[a] <= Retries
TriesLeft(a) == tries[a] < Retries
PushFails(a) ==
  /\ work[a] = "awaiting"
  /\ \/ /\ TriesLeft(a)
        /\ work' = [work EXCEPT ![a] = "pushing"]
        /\ UNCHANGED <<gate, told>>
     \/ /\ ~TriesLeft(a)
        /\ Answered(a, LastFailure(a))
  /\ UNCHANGED <<how, tries, Process>>

(* The write process, by the id of the command: the first decides, one that *)
(* repeats its id gets the same answer and changes nothing.                 *)
Deliver(p) ==
  /\ ~Delivered(p)
  /\ \/ /\ Known(p.id, applied \cup declined)
        /\ repeated' = repeated \cup {p}
        /\ UNCHANGED <<applied, declined>>
     \/ /\ ~Known(p.id, applied \cup declined)
        /\ \/ applied' = applied \cup {p} /\ UNCHANGED declined
           \/ declined' = declined \cup {p} /\ UNCHANGED applied
        /\ UNCHANGED repeated
  /\ UNCHANGED <<how, gate, work, tries, told, pushed>>

WriteNext ==
  \/ \E a \in Attempts :
       \/ GateRefuses(a) \/ Enter(a) \/ SignRefused(a) \/ Signed(a) \/ CallLost(a)
       \/ RouteRefuses(a) \/ RouteAccepts(a) \/ Push(a) \/ ResultRead(a) \/ PushFails(a)
  \/ \E p \in pushed : Deliver(p)

WriteSpec == WriteInit /\ [][WriteNext]_writeVars

-----------------------------------------------------------------------------
WriteTypeOK ==
  /\ how \in [Attempts -> Hows]
  /\ gate \in [Attempts -> Gates]
  /\ work \in [Attempts -> Works]
  /\ tries \in [Attempts -> 0..Retries]
  /\ told \in [Attempts -> Replies]
  /\ \A p \in pushed : p.of \in Attempts /\ p.try \in 1..Retries
  /\ applied \cup declined \cup repeated \subseteq pushed

(* However the caller and the worker repeat a write, and whenever the       *)
(* pushes arrive that nobody waits for any more, it changes the process     *)
(* once (requestId of proxyTemplateCall and buildWriteCommand).             *)
AppliedOnce ==
  \A p, q \in applied : WriteOf(p.of) = WriteOf(q.of) => p = q

(* What the caller is told holds: a write answered as done is applied, one  *)
(* answered as accepted is at the process, one answered as declined is not  *)
(* applied and never will be; an attempt refused pushed nothing.            *)
AnswerIsTrue ==
  \A a \in Attempts :
    LET mine == {p \in pushed : WriteOf(p.of) = WriteOf(a)} IN
      /\ told[a] = "done" => mine \cap applied # {}
      /\ told[a] = "accepted" => mine \cap (applied \cup declined) # {}
      /\ told[a] = "declined" => mine \cap applied = {} /\ mine \cap declined # {}
      /\ told[a] = "refused" => \A p \in pushed : p.of # a

(* What the proofs need besides. An attempt has pushed nothing until the    *)
(* worker has taken its call, which it does not once the gateway has        *)
(* refused; while a push is awaited, it is among the pushed.                *)
StageInv ==
  \A a \in Attempts :
    /\ gate[a] \in {"idle", "signing", "calling"} <=> told[a] = "none"
    /\ gate[a] \in {"idle", "signing"} => work[a] = "idle"
    /\ told[a] = "refused" => work[a] \in {"idle", "answered"}
    /\ work[a] = "idle" \/ told[a] = "refused" => \A p \in pushed : p.of # a
    /\ work[a] = "idle" => tries[a] = 0
    /\ work[a] = "pushing" => tries[a] < Retries
    /\ work[a] = "awaiting" => \E p \in pushed : p.of = a /\ p.try = tries[a]

(* A push carries the request id of its write; the process has decided what *)
(* it takes for repeated, and decides one way.                              *)
ProcessInv ==
  /\ \A p \in pushed : p.id = WriteOf(p.of)
  /\ \A p \in repeated : Known(p.id, applied \cup declined)
  /\ \A p \in applied, q \in declined : p.id # q.id

WriteIInv == WriteTypeOK /\ StageInv /\ ProcessInv /\ AppliedOnce /\ AnswerIsTrue

(* The signature of a command covers the command that is pushed.            *)
SignatureCovers == \A p \in pushed : p.stamp = p.signs
=============================================================================
