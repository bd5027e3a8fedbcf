----------------------------- MODULE KvLimiter -----------------------------
(***************************************************************************)
(* The request limits of the secrets worker                                *)
(* (workers/secrets-worker/src/index.ts: rateLimit, signRateLimit,         *)
(* notifySubjectLimit, notifyRateLimit), which are one algorithm over four *)
(* keys: the KV entry {count, reset} is read, compared and written back,   *)
(* two awaited calls, so requests of one client overlap in between.  One   *)
(* key is modelled.                                                        *)
(*                                                                         *)
(* Times are what remains of them: reset is the time left of the window,   *)
(* kept what KV keeps the entry for.                                       *)
(***************************************************************************)
EXTENDS Integers, FiniteSets

CONSTANTS
  Requests,  \* requests in flight
  KvMax,     \* RATE_LIMIT_MAX, SIGN_RATE_LIMIT_MAX, NOTIFY_SUBJECT_MAX or NOTIFY_RATE_MAX
  KvSpan,    \* the window plus 5 seconds
  Tries      \* the 3 attempts; 1 for notifyRateLimit, which does not retry

ASSUME KvLimiterAssumption ==
  KvMax \in Nat \ {0} /\ KvSpan \in Nat \ {0} /\ Tries \in Nat \ {0}

VARIABLES
  entry,   \* [count, reset, kept]; kept = 0 when there is none
  asking,  \* the requests in flight
  charges, \* history: age |-> how many puts took effect at most so long ago, up to KvMax + 1
  passed   \* history: how many puts since one that opened a window as it had read it, up to
           \* KvMax + 1, and whether one of them overwrote what its request had not read

kvVars == <<entry, asking, charges, passed>>

Absent == [count |-> 0, reset |-> 0, kept |-> 0]

Asking == [pc : {"idle", "reading", "writing"}, next : [count : Nat, reset : 0 .. KvSpan],
           opens : BOOLEAN, try : 0 .. Tries - 1, stale : BOOLEAN]

Free == [pc |-> "idle", next |-> [count |-> 0, reset |-> 0], opens |-> FALSE, try |-> 0, stale |-> FALSE]

KvTypeOK ==
  /\ entry \in [count : 0 .. KvMax, reset : 0 .. KvSpan, kept : 0 .. KvSpan]
  /\ asking \in [Requests -> Asking]
  /\ charges \in [0 .. KvSpan -> 0 .. KvMax + 1]
  /\ passed \in [puts : 0 .. KvMax + 1, raced : BOOLEAN]

KvInit ==
  /\ entry = Absent
  /\ asking = [c \in Requests |-> Free]
  /\ charges = [a \in 0 .. KvSpan |-> 0]
  /\ passed = [puts |-> 0, raced |-> FALSE]

AskLimit(c) ==
  /\ asking[c].pc = "idle"
  /\ asking' = [asking EXCEPT ![c].pc = "reading"]
  /\ UNCHANGED <<entry, charges, passed>>

\* The window of the entry has not ended.
InWindow == entry.kept > 0 /\ entry.reset > 0

\* Refused: nothing is written.
RefuseOver(c) ==
  /\ asking[c].pc = "reading"
  /\ InWindow /\ entry.count >= KvMax
  /\ asking' = [asking EXCEPT ![c] = Free]
  /\ UNCHANGED <<entry, charges, passed>>

\* Mutant of Charged: the count goes on from one window to the next.
ChargedOnAndOn ==
  [count |-> entry.count + 1, reset |-> IF InWindow THEN entry.reset ELSE KvSpan]

\* What the entry becomes, in its window or in a new one.
Charged ==
  IF InWindow THEN [count |-> entry.count + 1, reset |-> entry.reset]
  ELSE [count |-> 1, reset |-> KvSpan]

\* Mutant of ReadLimit: the bound itself is let through.
ReadLimitOff(c) ==
  /\ asking[c].pc = "reading"
  /\ InWindow => entry.count <= KvMax
  /\ asking' = [asking EXCEPT ![c] =
       [pc |-> "writing", next |-> Charged, opens |-> ~InWindow, try |-> asking[c].try, stale |-> FALSE]]
  /\ UNCHANGED <<entry, charges, passed>>

ReadLimit(c) ==
  /\ asking[c].pc = "reading"
  /\ InWindow => entry.count < KvMax
  /\ asking' = [asking EXCEPT ![c] =
       [pc |-> "writing", next |-> Charged, opens |-> ~InWindow, try |-> asking[c].try, stale |-> FALSE]]
  /\ UNCHANGED <<entry, charges, passed>>

\* The put takes effect, and what others have read is no longer so.
PutCount(c) ==
  /\ entry' = [count |-> asking[c].next.count, reset |-> asking[c].next.reset, kept |-> KvSpan]
  /\ charges' = [a \in 0 .. KvSpan |-> IF charges[a] > KvMax THEN charges[a] ELSE charges[a] + 1]
  /\ passed' = IF asking[c].opens /\ ~asking[c].stale THEN [puts |-> 1, raced |-> FALSE]
            ELSE [puts  |-> IF passed.puts > KvMax THEN passed.puts ELSE passed.puts + 1,
                  raced |-> passed.raced \/ asking[c].stale]
  /\ asking' = [d \in Requests |->
       IF d = c THEN Free
       ELSE [asking[d] EXCEPT !.stale = @ \/ asking[d].pc = "writing"]]

\* Let through, or failed although the put took effect.
WriteLimit(c) == asking[c].pc = "writing" /\ PutCount(c)

\* KV is busy, without effect: the exchange starts over, up to three times.
LimitBusy(c) ==
  /\ asking[c].pc # "idle"
  /\ asking' = [asking EXCEPT ![c] =
       IF asking[c].try + 1 < Tries
       THEN [Free EXCEPT !.pc = "reading", !.try = asking[c].try + 1] ELSE Free]
  /\ UNCHANGED <<entry, charges, passed>>

\* A call throws without effect: the request ends with an error.
LimitFails(c) ==
  /\ asking[c].pc # "idle"
  /\ asking' = [asking EXCEPT ![c] = Free]
  /\ UNCHANGED <<entry, charges, passed>>

Minus(t) == IF t > 0 THEN t - 1 ELSE 0

\* Time passes, for what requests hold as well.
KvTick ==
  /\ entry' = IF entry.kept <= 1 THEN Absent
              ELSE [count |-> entry.count, reset |-> Minus(entry.reset), kept |-> entry.kept - 1]
  /\ asking' = [c \in Requests |-> [asking[c] EXCEPT !.next.reset = Minus(@)]]
  /\ charges' = [a \in 0 .. KvSpan |-> IF a = 0 THEN 0 ELSE charges[a - 1]]
  /\ UNCHANGED passed

KvNext ==
  \/ \E c \in Requests :
       \/ AskLimit(c) \/ RefuseOver(c) \/ ReadLimit(c) \/ WriteLimit(c)
       \/ LimitBusy(c) \/ LimitFails(c)
  \/ KvTick

KvSpec == KvInit /\ [][KvNext]_kvVars

-----------------------------------------------------------------------------
(* Properties.                                                             *)

\* How many puts took effect since the window of the entry began.
ChargedSince == charges[KvSpan - entry.reset]

(***************************************************************************)
(* No client is refused that has not made KvMax requests in the window:    *)
(* however reads and writes interleave, the count is at most the number of *)
(* requests charged since the window began.                                *)
(***************************************************************************)
RefusalEarned == InWindow => entry.count <= ChargedSince

(***************************************************************************)
(* In a window in which no put overwrote what its request had not read, no *)
(* more than KvMax requests are let through.  One such put undoes every    *)
(* charge in between.                                                      *)
(***************************************************************************)
KvLimitHolds == InWindow /\ ~passed.raced => passed.puts <= KvMax

(***************************************************************************)
(* What the proofs need besides.  As long as no put has raced, the entry   *)
(* counts every put of its window, and so will what a request is about to  *)
(* write that has read what is there.                                      *)
(***************************************************************************)
CountedInv == InWindow /\ ~passed.raced => passed.puts <= entry.count

WriterInv ==
  \A c \in Requests :
    asking[c].pc = "writing" =>
      /\ asking[c].next.count <= KvMax
      /\ asking[c].opens => asking[c].next.count = 1
      /\ ~asking[c].opens /\ ~asking[c].stale /\ ~passed.raced /\ asking[c].next.reset > 0
           => passed.puts < asking[c].next.count

KvIInv == KvTypeOK /\ CountedInv /\ WriterInv

\* What a request is about to write counts no more than the puts since its window
\* began, and its own.
EarnedInv ==
  \A c \in Requests :
    asking[c].pc = "writing" /\ asking[c].next.reset > 0
      => asking[c].next.count <= charges[KvSpan - asking[c].next.reset] + 1
=============================================================================
