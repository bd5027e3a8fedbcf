--------------------------- MODULE WebhookIngress ---------------------------
(***************************************************************************)
(* The payment webhooks of the gateway (src/handler.ts): a provider        *)
(* delivers an event, as often as it likes and until it is answered with a *)
(* 2xx; the gateway verifies it, drops it as a replay or marks it as seen, *)
(* and then forwards it to the worker that writes it to AO.  Marking is    *)
(* synchronous, verifying and forwarding are awaited, so deliveries of one *)
(* event overlap.                                                          *)
(*                                                                         *)
(* An event is a model value with a provider and an id; events that share  *)
(* both differ in their bodies.  The provider and the worker are external. *)
(***************************************************************************)
EXTENDS Integers, Sequences, FiniteSets, OrderedMap

CONSTANTS
  Calls,          \* webhook requests that may be in flight
  Events,         \* the events providers deliver
  NoEvent,        \* what a free request slot holds
  Provider,       \* event |-> "stripe", "paypal" or "gopay"
  Id,             \* event |-> its id
  NoId,           \* an event without an id
  LongIds,        \* ids too long for the replay store and the boundary
  TTL,            \* GATEWAY_WEBHOOK_REPLAY_TTL_MS
  MaxKeys,        \* GATEWAY_WEBHOOK_REPLAY_MAX_KEYS
  SweepInterval,  \* GATEWAY_WEBHOOK_REPLAY_SWEEP_INTERVAL_MS
  Policy,         \* GOPAY_WEBHOOK_IDEMPOTENCY_POLICY
  ForwardEnabled, \* isWebhookWriteForwardEnabled
  MaxDeliveries,  \* bound of the exploration: deliveries by all providers
  MaxTime         \* bound of the exploration: the last clock value

ASSUME IngressAssumption ==
  /\ Provider \in [Events -> {"stripe", "paypal", "gopay"}]
  /\ DOMAIN Id = Events
  /\ NoId \notin LongIds
  /\ NoEvent \notin Events
  /\ TTL \in Nat \ {0} /\ MaxKeys \in Nat \ {0} /\ SweepInterval \in Nat \ {0}
  /\ Policy \in {"dedupe", "reject"}
  /\ ForwardEnabled \in BOOLEAN
  /\ MaxDeliveries \in Nat /\ MaxTime \in Nat

VARIABLES
  now,         \* Date.now()
  seen,        \* the replay store of Stripe and PayPal
  lastSweepAt,
  entries,     \* the idempotency boundary of GoPay
  call,        \* the webhook requests in flight
  sent,        \* how many deliveries there have been
  received,    \* the events the worker has received
  log          \* history: what this process admitted, and when

vars == <<now, seen, lastSweepAt, entries, call, sent, received, log>>

\* Mutant of Key: ids of different providers collide.
KeyWithoutProvider(e) == <<"", Id[e]>>

\* What the replay store is asked about.
Key(e) == <<Provider[e], Id[e]>>

Store == INSTANCE ReplayStore WITH
  Oversize <- {"stripe", "paypal"} \X LongIds, SeenTTL <- TTL, SeenMax <- MaxKeys

Boundary == INSTANCE WebhookIdempotency WITH
  LongIds <- LongIds \cup {NoId}, IdTTL <- TTL, IdMax <- MaxKeys

\* Two events count as one for whoever receives them.
SameEvent(e, f) == Provider[e] = Provider[f] /\ Id[e] = Id[f]

Replies == {"none", "ok", "forwarded", "replay", "duplicate", "conflict",
            "missing-id", "refused", "failed"}

\* Answers after which a provider does not deliver again.
Settled == {"ok", "forwarded", "replay"}

Webhook == [pc : {"idle", "verifying", "forwarding", "reached", "done"},
            event : Events \cup {NoEvent}, reply : Replies]

Idle == [pc |-> "idle", event |-> NoEvent, reply |-> "none"]

TypeOK ==
  /\ now \in Nat /\ lastSweepAt \in Nat /\ sent \in Nat
  /\ MapOf(seen, {Key(e) : e \in Events}, Nat)
  /\ Cardinality(MapKeys(seen)) <= MaxKeys
  /\ MapOf(entries, {Id[e] : e \in Events}, [fingerprint : Events, seenAt : Nat])
  /\ Cardinality(MapKeys(entries)) <= MaxKeys
  /\ call \in [Calls -> Webhook]
  /\ received \subseteq Events
  /\ log \in Seq([event : Events, at : Nat])

Init ==
  /\ now = 0
  /\ Store!InitStore
  /\ Boundary!InitBoundary
  /\ call = [c \in Calls |-> Idle]
  /\ sent = 0
  /\ received = {}
  /\ log = <<>>

-----------------------------------------------------------------------------
(* The requests.                                                           *)

Answer(c, reply) ==
  call' = [call EXCEPT ![c].pc = "done", ![c].reply = reply]

\* The body and, for PayPal, the remote signature check are awaited.
Receive(c, e) ==
  /\ call[c].pc = "idle"
  /\ sent < MaxDeliveries
  /\ sent' = sent + 1
  /\ call' = [call EXCEPT ![c] = [pc |-> "verifying", event |-> e, reply |-> "none"]]
  /\ UNCHANGED <<now, seen, lastSweepAt, entries, received, log>>

\* Paused, rate limited, too large, or not verified.
Refuse(c) ==
  /\ call[c].pc = "verifying"
  /\ Answer(c, "refused")
  /\ UNCHANGED <<now, seen, lastSweepAt, entries, sent, received, log>>

\* The event is new: it is forwarded, or accepted where forwarding is off.
Admit(c) ==
  /\ log' = Append(log, [event |-> call[c].event, at |-> now])
  /\ IF ForwardEnabled THEN call' = [call EXCEPT ![c].pc = "forwarding"]
     ELSE Answer(c, "ok")

\* Mutant of AdmitMarked: the mark is left for after the forward.
AdmitMarkedLate(c) ==
  LET e == call[c].event IN
  /\ call[c].pc = "verifying"
  /\ Provider[e] # "gopay"
  /\ Id[e] # NoId
  /\ IF Store!IsReplay(Key(e)) THEN Answer(c, "replay") /\ UNCHANGED log
     ELSE Admit(c)
  /\ UNCHANGED <<now, seen, lastSweepAt, entries, sent, received>>

\* Stripe and PayPal: markAndCheck, and no await between it and the forward.
AdmitMarked(c) ==
  LET e == call[c].event IN
  /\ call[c].pc = "verifying"
  /\ Provider[e] # "gopay"
  /\ Id[e] # NoId
  /\ Store!MarkAndCheck(Key(e))
  /\ IF Store!IsReplay(Key(e)) THEN Answer(c, "replay") /\ UNCHANGED log
     ELSE Admit(c)
  /\ UNCHANGED <<now, entries, sent, received>>

\* Stripe and PayPal events without an id are never replays.
AdmitUnmarked(c) ==
  LET e == call[c].event IN
  /\ call[c].pc = "verifying"
  /\ Provider[e] # "gopay"
  /\ Id[e] = NoId
  /\ Admit(c)
  /\ UNCHANGED <<now, seen, lastSweepAt, entries, sent, received>>

AdmitGoPay(c) ==
  LET e == call[c].event
      decision == Boundary!Decision(Id[e], e)
  IN
  /\ call[c].pc = "verifying"
  /\ Provider[e] = "gopay"
  /\ Boundary!Classify(Id[e], e)
  /\ CASE decision = "accepted" -> Admit(c)
       [] decision = "duplicate" ->
            Answer(c, IF Policy = "reject" THEN "duplicate" ELSE "replay") /\ UNCHANGED log
       [] OTHER -> Answer(c, decision) /\ UNCHANGED log
  /\ UNCHANGED <<now, seen, lastSweepAt, sent, received>>

\* The request reaches the worker.
ForwardArrives(c) ==
  /\ call[c].pc = "forwarding"
  /\ call' = [call EXCEPT ![c].pc = "reached"]
  /\ received' = received \cup {call[c].event}
  /\ UNCHANGED <<now, seen, lastSweepAt, entries, sent, log>>

ForwardOk(c) ==
  /\ call[c].pc = "reached"
  /\ Answer(c, "forwarded")
  /\ UNCHANGED <<now, seen, lastSweepAt, entries, sent, received, log>>

\* No token, no connection, an error answer, or a timeout, with or without the
\* worker having received it.
ForwardFails(c) ==
  /\ call[c].pc \in {"forwarding", "reached"}
  /\ Answer(c, "failed")
  /\ UNCHANGED <<now, seen, lastSweepAt, entries, sent, received, log>>

Finish(c) ==
  /\ call[c].pc = "done"
  /\ call' = [call EXCEPT ![c] = Idle]
  /\ UNCHANGED <<now, seen, lastSweepAt, entries, sent, received, log>>

-----------------------------------------------------------------------------
(* The environment.                                                        *)

\* Both stores are in memory only.
Restart ==
  /\ seen' = EmptyMap /\ lastSweepAt' = 0 /\ entries' = EmptyMap
  /\ call' = [c \in Calls |-> Idle]
  /\ log' = <<>>
  /\ UNCHANGED <<now, sent, received>>

Tick ==
  /\ now < MaxTime
  /\ now' = now + 1
  /\ UNCHANGED <<seen, lastSweepAt, entries, call, sent, received, log>>

Handle(c) ==
  \/ Refuse(c)
  \/ AdmitMarked(c) \/ AdmitUnmarked(c) \/ AdmitGoPay(c)
  \/ ForwardArrives(c) \/ ForwardOk(c) \/ ForwardFails(c)
  \/ Finish(c)

Next ==
  \/ \E c \in Calls, e \in Events : Receive(c, e)
  \/ \E c \in Calls : Handle(c)
  \/ Restart
  \/ Tick

Spec == Init /\ [][Next]_vars

-----------------------------------------------------------------------------
(* Properties.                                                             *)

SameStore(e, f) == Provider[e] = "gopay" <=> Provider[f] = "gopay"

\* Both have ids, different ones, that the same store remembers.
Apart(e, f) == SameStore(e, f) /\ Id[f] # NoId /\ ~SameEvent(e, f)

\* The other event ids admitted to e's store between the i-th and the j-th.
Between(i, j, e) ==
  {Key(log[m].event) : m \in {n \in (i + 1) .. (j - 1) : Apart(e, log[n].event)}}

(***************************************************************************)
(* However deliveries of an event overlap with one another and with the    *)
(* forwarding of an earlier one, and however it is swept and pruned, a     *)
(* process admits an event with an id once in a replay TTL, unless a full  *)
(* store's worth of other events has been admitted since.                  *)
(***************************************************************************)
AdmittedOncePerTTL ==
  \A i, j \in DOMAIN log :
    LET e == log[i].event IN
    i < j /\ SameEvent(e, log[j].event) /\ Id[e] # NoId /\ log[j].at < log[i].at + TTL
      => Cardinality(Between(i, j, e)) >= MaxKeys

(***************************************************************************)
(* An event is dropped as a replay only if the process has admitted it:    *)
(* never for another provider's event of the same id, nor for another body *)
(* GoPay sends under an id.                                                *)
(***************************************************************************)
ReplayWasAdmitted ==
  \A c \in Calls :
    LET e == call[c].event IN
    call[c].reply = "replay" /\ Id[e] \notin LongIds
      => \E n \in DOMAIN log :
           /\ SameEvent(log[n].event, e)
           /\ Provider[e] = "gopay" => log[n].event = e

(***************************************************************************)
(* What the proofs need besides.                                           *)
(***************************************************************************)

\* Every request but a free slot is for an event, and nothing is logged ahead
\* of its time.
RequestInv ==
  /\ \A c \in Calls : call[c].event = NoEvent => call[c].pc = "idle" /\ call[c].reply = "none"
  /\ \A n \in DOMAIN log : log[n].at <= now

\* What the stores hold was admitted, and the boundary in that order.
AdmittedInv ==
  /\ \A k \in MapKeys(seen) : \E n \in DOMAIN log : Key(log[n].event) = k
  /\ \A i \in MapKeys(entries) :
       /\ entries.of[i].seenAt <= now
       /\ \A j \in After(entries, i) : entries.of[i].seenAt <= entries.of[j].seenAt
       /\ \E n \in DOMAIN log :
            Key(log[n].event) = <<"gopay", i>> /\ log[n].event = entries.of[i].fingerprint

\* The other event ids admitted to its store since the i-th was.
Since(i) == Between(i, Len(log) + 1, log[i].event)

\* The i-th is in its store for a TTL, and only what came since is after it.
Recalled(i) ==
  LET e == log[i].event IN
    IF Provider[e] = "gopay"
      THEN /\ Id[e] \in MapKeys(entries)
           /\ entries.of[Id[e]].seenAt >= log[i].at
           /\ \A j \in After(entries, Id[e]) : <<"gopay", j>> \in Since(i)
      ELSE /\ Key(e) \in MapKeys(seen)
           /\ seen.of[Key(e)] >= log[i].at + TTL
           /\ After(seen, Key(e)) \subseteq Since(i)

RecallInv ==
  \A i \in DOMAIN log :
    Id[log[i].event] # NoId /\ now < log[i].at + TTL
      => Cardinality(Since(i)) >= MaxKeys \/ Recalled(i)

IngressIInv ==
  /\ TypeOK
  /\ RequestInv
  /\ AdmittedInv
  /\ RecallInv
  /\ AdmittedOncePerTTL
  /\ ReplayWasAdmitted

(***************************************************************************)
(* As tests/webhooks.test.ts has it ("forwards verified stripe webhooks     *)
(* into worker/write notify path when enabled"): where forwarding is on, an *)
(* event answered so that its provider does not deliver it again has       *)
(* reached the worker or is on its way.  It has not when the forward fails *)
(* after the event was marked as seen: the answer asks for a redelivery,   *)
(* which is answered as a replay.  Over-long ids, which are a replay at    *)
(* their first delivery, are left out.                                     *)
(***************************************************************************)
SettledIsForwarded ==
  ForwardEnabled =>
    \A c \in Calls :
      call[c].reply \in Settled /\ Id[call[c].event] \notin LongIds
        => \/ \E e \in received : SameEvent(e, call[c].event)
           \/ \E d \in Calls : call[d].pc = "forwarding" /\ SameEvent(call[d].event, call[c].event)
=============================================================================
