------------------------------- MODULE Notify -------------------------------
(***************************************************************************)
(* POST /notify of the secrets worker                                      *)
(* (workers/secrets-worker/src/index.ts): a notification is dropped if its *)
(* destination had one lately, refused while a circuit breaker is open,    *)
(* and else delivered with retries.  The marker of the destination and the *)
(* state of the breaker are KV entries that expire; reading one and        *)
(* writing it back are two awaited calls, so requests overlap in between.  *)
(*                                                                         *)
(* Times are what remains of them: a tick shortens every one, and the      *)
(* model needs no bound on the clock.  A single breaker key is modelled.   *)
(***************************************************************************)
EXTENDS Integers, FiniteSets

CONSTANTS
  Notices,    \* requests in flight
  Dests,      \* destinations
  NoDest,     \* what a free request slot holds
  DedupeTTL,  \* NOTIFY_DEDUPE_TTL, 0 in LITE_MODE
  Threshold,  \* NOTIFY_BREAKER_THRESHOLD
  Cooldown,   \* NOTIFY_BREAKER_COOLDOWN
  RetryMax    \* NOTIFY_RETRY_MAX

ASSUME NotifyAssumption ==
  /\ NoDest \notin Dests
  /\ DedupeTTL \in Nat
  /\ Threshold \in Nat \ {0} /\ Cooldown \in Nat \ {0} /\ RetryMax \in Nat

VARIABLES
  marker,  \* notify:hash:...: destination |-> for how long
  breaker, \* notify:breaker:...: [count, open, kept], kept = 0 when absent
  notice   \* the requests in flight

notifyVars == <<marker, breaker, notice>>

MaxAttempts == IF RetryMax > 1 THEN RetryMax ELSE 1

\* An entry put without an expiry would be kept for ever.
Forever == 2 * Cooldown + 1

\* A count past the threshold is kept as the threshold: nothing tells them apart.
Breaker == [count : 0 .. Threshold, open : 0 .. Cooldown, kept : 0 .. Forever]

Closed == [count |-> 0, open |-> 0, kept |-> 0]

\* Past the breaker, up to the end.
Admitted == {"sending", "noting", "writing"}

Notice == [pc : {"idle", "looking", "marking", "limits", "asking", "renewing"} \cup Admitted,
           dest : Dests \cup {NoDest}, attempt : 0 .. MaxAttempts,
           ok : BOOLEAN, seen : Breaker, early : BOOLEAN]

Unused == [pc |-> "idle", dest |-> NoDest, attempt |-> 0, ok |-> FALSE,
           seen |-> Closed, early |-> FALSE]

NotifyTypeOK ==
  /\ marker \in [Dests -> 0 .. DedupeTTL]
  /\ breaker \in Breaker
  /\ notice \in [Notices -> Notice]

NotifyInit ==
  /\ marker = [d \in Dests |-> 0]
  /\ breaker = Closed
  /\ notice = [c \in Notices |-> Unused]

NoticeAt(c, pc) == notice' = [notice EXCEPT ![c].pc = pc]

Answered(c) == notice' = [notice EXCEPT ![c] = Unused]

\* The breaker state is written.  `early` marks the requests it opened upon.
WriteBreaker(c, state) ==
  /\ breaker' = state
  /\ notice' = [n \in Notices |->
       IF n = c THEN Unused
       ELSE [notice[n] EXCEPT !.early = @ \/ (state.open > 0 /\ notice[n].pc \in Admitted)]]

-----------------------------------------------------------------------------

\* Authorised, well formed, with a destination that is allowed, and within the
\* rate limit.
NotifyArrive(c, d) ==
  /\ notice[c].pc = "idle"
  /\ notice' = [notice EXCEPT ![c] =
       [Unused EXCEPT !.pc = IF DedupeTTL > 0 THEN "looking" ELSE "limits", !.dest = d]]
  /\ UNCHANGED <<marker, breaker>>

\* The destination had a notification lately, of whatever content: answered OK.
Deduped(c) ==
  /\ notice[c].pc = "looking"
  /\ marker[notice[c].dest] > 0
  /\ Answered(c)
  /\ UNCHANGED <<marker, breaker>>

NotSeen(c) ==
  /\ notice[c].pc = "looking"
  /\ marker[notice[c].dest] = 0
  /\ NoticeAt(c, "marking")
  /\ UNCHANGED <<marker, breaker>>

\* The marker is put before any limit and before the breaker.
PutSeen(c) ==
  /\ notice[c].pc = "marking"
  /\ marker' = [marker EXCEPT ![notice[c].dest] = DedupeTTL]
  /\ NoticeAt(c, "limits")
  /\ UNCHANGED breaker

\* subjectSprayGuard (SubjectSpray) and notifySubjectLimit (KvLimiter).
Limits(c) ==
  /\ notice[c].pc = "limits"
  /\ Answered(c) \/ NoticeAt(c, "asking")
  /\ UNCHANGED <<marker, breaker>>

\* breakerAllows.  A breaker at its threshold whose cooldown is over is opened
\* again; there is no trial delivery.
BreakerAllows(c) ==
  /\ notice[c].pc = "asking"
  /\ CASE breaker.open > 0 -> Answered(c)
       [] breaker.open = 0 /\ breaker.count >= Threshold ->
            notice' = [notice EXCEPT ![c].pc = "renewing", ![c].seen = breaker]
       [] OTHER -> NoticeAt(c, "sending")
  /\ UNCHANGED <<marker, breaker>>

\* Mutant of Reopen: the state is written back without a cooldown.
ReopenNever(c) ==
  /\ notice[c].pc = "renewing"
  /\ WriteBreaker(c, [count |-> notice[c].seen.count, open |-> 0, kept |-> 2 * Cooldown])
  /\ UNCHANGED marker

Reopen(c) ==
  /\ notice[c].pc = "renewing"
  /\ WriteBreaker(c, [count |-> notice[c].seen.count, open |-> Cooldown, kept |-> 2 * Cooldown])
  /\ UNCHANGED marker

Sent(c) ==
  /\ notice[c].pc = "sending"
  /\ notice' = [notice EXCEPT ![c].pc = "noting", ![c].ok = TRUE]
  /\ UNCHANGED <<marker, breaker>>

\* Mutant of SendFails: the attempts are counted anew.
SendFailsAgain(c) ==
  /\ notice[c].pc = "sending"
  /\ notice' = [notice EXCEPT ![c].attempt = 1 - @]
  /\ UNCHANGED <<marker, breaker>>

\* An error answer, or none in time.
SendFails(c) ==
  /\ notice[c].pc = "sending"
  /\ IF notice[c].attempt + 1 < RetryMax
       THEN notice' = [notice EXCEPT ![c].attempt = @ + 1]
       ELSE notice' = [notice EXCEPT ![c].pc = "noting", ![c].ok = FALSE]
  /\ UNCHANGED <<marker, breaker>>

\* No connection: the breaker is not told.
SendThrows(c) ==
  /\ notice[c].pc = "sending"
  /\ Answered(c)
  /\ UNCHANGED <<marker, breaker>>

\* breakerNote reads the state ...
NoteRead(c) ==
  /\ notice[c].pc = "noting"
  /\ notice' = [notice EXCEPT ![c].pc = "writing", ![c].seen = breaker]
  /\ UNCHANGED <<marker, breaker>>

\* Mutant of Noted: the state is put without an expiry.
NotedForever(seen, ok) ==
  [count |-> IF ok THEN 0 ELSE IF seen.count < Threshold THEN seen.count + 1 ELSE Threshold,
   open  |-> IF ok THEN 0 ELSE IF seen.count + 1 >= Threshold THEN Cooldown ELSE seen.open,
   kept  |-> Forever]

Noted(seen, ok) ==
  IF ok THEN [count |-> 0, open |-> 0, kept |-> 2 * Cooldown]
  ELSE [count |-> IF seen.count < Threshold THEN seen.count + 1 ELSE Threshold,
        open  |-> IF seen.count + 1 >= Threshold THEN Cooldown ELSE seen.open,
        kept  |-> 2 * Cooldown]

\* ... and writes it back.
NoteWrite(c) ==
  /\ notice[c].pc = "writing"
  /\ WriteBreaker(c, Noted(notice[c].seen, notice[c].ok))
  /\ UNCHANGED marker

\* A KV call throws: the request ends with an error.
NotifyFails(c) ==
  /\ notice[c].pc \in {"looking", "marking", "limits", "asking", "renewing", "noting", "writing"}
  /\ Answered(c)
  /\ UNCHANGED <<marker, breaker>>

Less(t) == IF t > 0 THEN t - 1 ELSE 0

Older(state) ==
  IF state.kept <= 1 THEN Closed
  ELSE [count |-> state.count, open |-> Less(state.open),
        kept  |-> IF state.kept = Forever THEN Forever ELSE Less(state.kept)]

\* Time passes.  What a request has read keeps its absolute times.
NotifyTick ==
  /\ marker' = [d \in Dests |-> Less(marker[d])]
  /\ breaker' = Older(breaker)
  /\ notice' = [c \in Notices |-> [notice[c] EXCEPT !.seen.open = Less(@)]]

NotifyStep(c) ==
  \/ Deduped(c) \/ NotSeen(c) \/ PutSeen(c) \/ Limits(c)
  \/ BreakerAllows(c) \/ Reopen(c)
  \/ Sent(c) \/ SendFails(c) \/ SendThrows(c)
  \/ NoteRead(c) \/ NoteWrite(c)
  \/ NotifyFails(c)

NotifyNext ==
  \/ \E c \in Notices, d \in Dests : NotifyArrive(c, d)
  \/ \E c \in Notices : NotifyStep(c)
  \/ NotifyTick

\* A request is carried on: every call it awaits answers, fails or times out.
\* Time passes.  Nothing makes requests arrive.
NotifyFairness ==
  /\ \A c \in Notices : WF_notifyVars(NotifyStep(c))
  /\ WF_notifyVars(NotifyTick)

NotifySpec == NotifyInit /\ [][NotifyNext]_notifyVars /\ NotifyFairness

-----------------------------------------------------------------------------
(* Properties.                                                             *)

(***************************************************************************)
(* A breaker that has opened stays open for its cooldown, whatever the     *)
(* requests that find it open do: only one that had passed it before it    *)
(* opened can close it early, by writing back a state it read before or by *)
(* a delivery that succeeds after all.                                     *)
(***************************************************************************)
BreakerHolds ==
  [][breaker.open > 1 /\ breaker'.open = 0
       => \E c \in Notices : notice[c].pc = "writing" /\ notice[c].early]_notifyVars

(***************************************************************************)
(* However its destination behaves, a notification is answered: retries    *)
(* come to an end.                                                         *)
(***************************************************************************)
NotifyAnswered == \A c \in Notices : notice[c].pc # "idle" ~> notice[c].pc = "idle"

(***************************************************************************)
(* Once notifications cease, the breaker closes for good: its state        *)
(* expires.  As long as they go on more often than twice the cooldown,     *)
(* nothing closes it, since every refusal after a cooldown starts another. *)
(***************************************************************************)
BreakerCloses ==
  <>[](\A c \in Notices : notice[c].pc = "idle") => <>[](breaker = Closed)

(***************************************************************************)
(* What the proofs need besides.  An open breaker is kept for longer than  *)
(* it stays open, so that no expiry closes it; and a request that is past  *)
(* it was so when it opened.                                               *)
(***************************************************************************)
KeptInv == breaker.open > 0 => breaker.kept > breaker.open

EarlyInv ==
  breaker.open > 0 => \A c \in Notices : notice[c].pc \in Admitted => notice[c].early

NotifyIInv == NotifyTypeOK /\ KeptInv /\ EarlyInv
=============================================================================
