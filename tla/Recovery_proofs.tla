-------------------------- MODULE Recovery_proofs --------------------------
(***************************************************************************)
(* Theorems about the components that retry, give up and recover: the      *)
(* circuit breaker of the notifications (Notify), for every number of      *)
(* requests, every threshold, cooldown and number of retries, and the mail *)
(* queue (MailQueue), for every size and number of deliveries.             *)
(***************************************************************************)
EXTENDS MCRecovery, TLAPS

-----------------------------------------------------------------------------
(* The breaker of the notifications.                                       *)

\* What is known of one request and of the breaker, as the steps use it.
LEMMA NoticeTypes ==
  ASSUME NotifyIInv
  PROVE  /\ Closed \in Breaker /\ Unused \in Notice /\ Unused.pc \notin Admitted
         /\ breaker \in Breaker /\ breaker.open \in 0 .. Cooldown
         /\ \A c \in Notices : /\ notice[c] \in Notice /\ notice[c].seen \in Breaker
                               /\ notice[c].dest \in Dests \cup {NoDest}
<1>1. Cooldown \in Nat \ {0} /\ Threshold \in Nat /\ Forever \in Nat /\ MaxAttempts \in Nat \ {0}
  BY NotifyAssumption DEF Forever, MaxAttempts
<1>2. Closed \in Breaker
  BY <1>1 DEF Closed, Breaker
<1>3. Unused \in Notice /\ Unused.pc \notin Admitted
  BY <1>1, <1>2 DEF Unused, Notice, Admitted
<1> QED BY <1>1, <1>2, <1>3 DEF NotifyIInv, NotifyTypeOK, Breaker, Notice

(***************************************************************************)
(* One request becomes rec, the breaker stays, and nobody passes it while  *)
(* it is open.                                                             *)
(***************************************************************************)
LEMMA NoticeStep ==
  ASSUME NotifyIInv, NEW c \in Notices, NEW rec \in Notice,
         notice' = [notice EXCEPT ![c] = rec], UNCHANGED breaker,
         marker' \in [Dests -> 0 .. DedupeTTL],
         breaker.open > 0 /\ rec.pc \in Admitted => rec.early
  PROVE  NotifyIInv'
<1>1. notice' \in [Notices -> Notice]
  BY DEF NotifyIInv, NotifyTypeOK
<1>2. ASSUME NEW n \in Notices PROVE notice'[n] = IF n = c THEN rec ELSE notice[n]
  BY DEF NotifyIInv, NotifyTypeOK
<1>3. NotifyTypeOK' /\ KeptInv'
  BY <1>1 DEF NotifyIInv, NotifyTypeOK, KeptInv
<1>4. EarlyInv'
  BY <1>2 DEF NotifyIInv, EarlyInv
<1> QED BY <1>3, <1>4 DEF NotifyIInv

\* A request is answered.
LEMMA AnsweredStep ==
  ASSUME NotifyIInv, NEW c \in Notices, Answered(c), UNCHANGED <<marker, breaker>>
  PROVE  NotifyIInv'
<1>1. marker' \in [Dests -> 0 .. DedupeTTL]
  BY DEF NotifyIInv, NotifyTypeOK
<1> QED BY <1>1, NoticeTypes, NoticeStep DEF Answered

\* A request goes on: past the breaker only as it was before, or as it is closed.
LEMMA NoticeAtStep ==
  ASSUME NotifyIInv, NEW c \in Notices,
         NEW pc \in {"looking", "marking", "limits", "asking", "renewing"} \cup Admitted,
         NoticeAt(c, pc), UNCHANGED breaker, marker' \in [Dests -> 0 .. DedupeTTL],
         pc \in Admitted => breaker.open = 0
  PROVE  NotifyIInv'
<1> DEFINE rec == [notice[c] EXCEPT !.pc = pc]
<1>1. notice' = [notice EXCEPT ![c] = rec]
  BY NoticeTypes DEF NoticeAt, NotifyIInv, NotifyTypeOK
<1>2. rec \in Notice /\ rec.pc = pc
  BY NoticeTypes DEF Notice
<1>3. breaker.open > 0 /\ pc \in Admitted => rec.early
  OBVIOUS
<1> HIDE DEF rec
<1>4. PICK new \in Notice : new = rec
  BY <1>2
<1> QED BY <1>1, <1>2, <1>3, <1>4, NoticeStep

\* A request arrives.
LEMMA NotifyArriveStep ==
  ASSUME NotifyIInv, NEW c \in Notices, NEW d \in Dests, NotifyArrive(c, d)
  PROVE  NotifyIInv'
<1> DEFINE rec == [Unused EXCEPT !.pc = IF DedupeTTL > 0 THEN "looking" ELSE "limits", !.dest = d]
<1>1. notice' = [notice EXCEPT ![c] = rec] /\ UNCHANGED <<marker, breaker>>
  BY DEF NotifyArrive
<1>2. rec \in Notice /\ rec.pc \in {"looking", "limits"}
  BY NoticeTypes DEF Notice, Unused
<1>3. rec.pc \notin Admitted
  BY <1>2 DEF Admitted
<1>4. marker' \in [Dests -> 0 .. DedupeTTL]
  BY <1>1 DEF NotifyIInv, NotifyTypeOK
<1> HIDE DEF rec
<1> QED BY <1>1, <1>2, <1>3, <1>4, NoticeStep

\* The delivery, which the breaker does not hear of.
LEMMA SendingStep ==
  ASSUME NotifyIInv, NEW c \in Notices, Sent(c) \/ SendFails(c) \/ NoteRead(c)
  PROVE  NotifyIInv'
<1>1. /\ notice[c] \in Notice /\ notice[c].seen \in Breaker /\ breaker \in Breaker
      /\ notice[c].attempt \in 0 .. MaxAttempts
      /\ MaxAttempts \in Nat /\ RetryMax <= MaxAttempts /\ RetryMax \in Nat
  BY NoticeTypes, NotifyAssumption DEF Notice, MaxAttempts
<1>2. PICK rec \in Notice :
        /\ notice' = [notice EXCEPT ![c] = rec]
        /\ rec.early = notice[c].early
  <2>1. CASE Sent(c)
    <3> DEFINE rec == [notice[c] EXCEPT !.pc = "noting", !.ok = TRUE]
    <3>1. notice' = [notice EXCEPT ![c] = rec]
      BY <2>1 DEF Sent, NotifyIInv, NotifyTypeOK
    <3>2. rec \in Notice /\ rec.early = notice[c].early
      BY <1>1 DEF Notice, Admitted
    <3> HIDE DEF rec
    <3> QED BY <3>1, <3>2
  <2>2. CASE SendFails(c) /\ notice[c].attempt + 1 < RetryMax
    <3> DEFINE rec == [notice[c] EXCEPT !.attempt = notice[c].attempt + 1]
    <3>1. notice' = [notice EXCEPT ![c] = rec]
      BY <2>2 DEF SendFails, NotifyIInv, NotifyTypeOK
    <3>2. notice[c].attempt + 1 \in 0 .. MaxAttempts
      BY <1>1, <2>2
    <3>3. rec \in Notice /\ rec.early = notice[c].early
      BY <1>1, <3>2 DEF Notice
    <3> HIDE DEF rec
    <3> QED BY <3>1, <3>3
  <2>3. CASE SendFails(c) /\ ~(notice[c].attempt + 1 < RetryMax)
    <3> DEFINE rec == [notice[c] EXCEPT !.pc = "noting", !.ok = FALSE]
    <3>1. notice' = [notice EXCEPT ![c] = rec]
      BY <2>3 DEF SendFails, NotifyIInv, NotifyTypeOK
    <3>2. rec \in Notice /\ rec.early = notice[c].early
      BY <1>1 DEF Notice, Admitted
    <3> HIDE DEF rec
    <3> QED BY <3>1, <3>2
  <2>4. CASE NoteRead(c)
    <3> DEFINE rec == [notice[c] EXCEPT !.pc = "writing", !.seen = breaker]
    <3>1. notice' = [notice EXCEPT ![c] = rec]
      BY <2>4 DEF NoteRead, NotifyIInv, NotifyTypeOK
    <3>2. rec \in Notice /\ rec.early = notice[c].early
      BY <1>1 DEF Notice, Admitted
    <3> HIDE DEF rec
    <3> QED BY <3>1, <3>2
  <2> QED BY <2>1, <2>2, <2>3, <2>4
<1>3. UNCHANGED <<marker, breaker>> /\ notice[c].pc \in Admitted
  BY DEF Sent, SendFails, NoteRead, Admitted
<1>4. breaker.open > 0 => notice[c].early
  BY <1>3 DEF NotifyIInv, EarlyInv
<1>5. marker' \in [Dests -> 0 .. DedupeTTL]
  BY <1>3 DEF NotifyIInv, NotifyTypeOK
<1> QED BY <1>2, <1>3, <1>4, <1>5, NoticeStep

\* A request asks the breaker, which lets nobody pass while it is open.
LEMMA BreakerAllowsStep ==
  ASSUME NotifyIInv, NEW c \in Notices, BreakerAllows(c)
  PROVE  NotifyIInv'
<1>1. UNCHANGED <<marker, breaker>> /\ marker' \in [Dests -> 0 .. DedupeTTL]
  BY DEF BreakerAllows, NotifyIInv, NotifyTypeOK
<1>2. CASE breaker.open > 0
  BY <1>1, <1>2, AnsweredStep DEF BreakerAllows
<1>3. CASE breaker.open = 0 /\ breaker.count >= Threshold
  <2> DEFINE rec == [notice[c] EXCEPT !.pc = "renewing", !.seen = breaker]
  <2>1. notice' = [notice EXCEPT ![c] = rec]
    <3>1. notice' = [notice EXCEPT ![c].pc = "renewing", ![c].seen = breaker]
      BY <1>3 DEF BreakerAllows
    <3> QED BY <3>1 DEF NotifyIInv, NotifyTypeOK
  <2>2. rec \in Notice
    BY NoticeTypes DEF Notice
  <2>3. ~(breaker.open > 0)
    BY <1>3
  <2> HIDE DEF rec
  <2>4. PICK new \in Notice : new = rec
    BY <2>2
  <2> QED BY <1>1, <2>1, <2>3, <2>4, NoticeStep
<1>4. CASE breaker.open = 0 /\ ~(breaker.count >= Threshold)
  <2>1. NoticeAt(c, "sending") /\ "sending" \in Admitted
    BY <1>4 DEF BreakerAllows, Admitted
  <2> QED BY <1>1, <1>4, <2>1, NoticeAtStep
<1> QED BY <1>2, <1>3, <1>4, NoticeTypes

(***************************************************************************)
(* The state of the breaker is written: for twice the cooldown, which is   *)
(* longer than it may be open, and in front of everyone that is past it.   *)
(***************************************************************************)
LEMMA WriteBreakerStep ==
  ASSUME NotifyIInv, NEW c \in Notices, NEW state \in Breaker,
         state.kept = 2 * Cooldown, WriteBreaker(c, state), UNCHANGED marker
  PROVE  NotifyIInv'
<1>1. breaker' = state /\ state.open \in 0 .. Cooldown /\ Cooldown \in Nat \ {0}
  BY NotifyAssumption DEF WriteBreaker, Breaker
<1>2. ASSUME NEW n \in Notices
      PROVE  notice'[n] \in Notice /\ (state.open > 0 /\ notice'[n].pc \in Admitted => notice'[n].early)
  <2>1. CASE n = c
    BY <2>1, NoticeTypes DEF WriteBreaker
  <2>2. CASE n # c
    <3> DEFINE early == notice[n].early \/ (state.open > 0 /\ notice[n].pc \in Admitted)
    <3>1. notice'[n] = [notice[n] EXCEPT !.early = early]
      BY <2>2 DEF WriteBreaker
    <3>2. early \in BOOLEAN /\ (state.open > 0 /\ notice[n].pc \in Admitted => early)
      BY NoticeTypes DEF Notice
    <3> HIDE DEF early
    <3> QED BY <3>1, <3>2, NoticeTypes DEF Notice
  <2> QED BY <2>1, <2>2
<1>3. NotifyTypeOK'
  BY <1>1, <1>2 DEF WriteBreaker, NotifyIInv, NotifyTypeOK
<1>4. KeptInv' /\ EarlyInv'
  BY <1>1, <1>2 DEF KeptInv, EarlyInv
<1> QED BY <1>3, <1>4 DEF NotifyIInv

\* What the breaker becomes.
LEMMA BreakerStates ==
  ASSUME NEW seen \in Breaker, NEW ok \in BOOLEAN
  PROVE  /\ [count |-> seen.count, open |-> Cooldown, kept |-> 2 * Cooldown] \in Breaker
         /\ Noted(seen, ok) \in Breaker /\ Noted(seen, ok).kept = 2 * Cooldown
<1>1. /\ Threshold \in Nat \ {0} /\ Cooldown \in Nat \ {0} /\ Forever = 2 * Cooldown + 1
      /\ seen.count \in 0 .. Threshold /\ seen.open \in 0 .. Cooldown
  BY NotifyAssumption DEF Breaker, Forever
<1>2. CASE ok
  BY <1>1, <1>2 DEF Noted, Breaker
<1>3. CASE ~ok
  BY <1>1, <1>3 DEF Noted, Breaker
<1>4. [count |-> seen.count, open |-> Cooldown, kept |-> 2 * Cooldown] \in Breaker
  BY <1>1 DEF Breaker
<1> QED BY <1>2, <1>3, <1>4

\* Time passes: the breaker closes before it is forgotten.
LEMMA NotifyTickStep ==
  ASSUME NotifyIInv, NotifyTick
  PROVE  NotifyIInv'
<1>1. /\ Cooldown \in Nat \ {0} /\ DedupeTTL \in Nat /\ Forever = 2 * Cooldown + 1
      /\ breaker.count \in 0 .. Threshold /\ breaker.open \in 0 .. Cooldown
      /\ breaker.kept \in 0 .. Forever
  BY NotifyAssumption, NoticeTypes DEF Breaker, Forever
<1>2. breaker' \in Breaker
  BY <1>1, NoticeTypes DEF NotifyTick, Older, Less, Breaker
<1>3. breaker'.open > 0 => breaker.open > 0 /\ breaker'.kept > breaker'.open
  <2>1. CASE breaker.kept <= 1
    BY <2>1 DEF NotifyTick, Older, Closed
  <2>2. CASE breaker.kept > 1
    <3>1. /\ breaker'.open = Less(breaker.open)
          /\ breaker'.kept = IF breaker.kept = Forever THEN Forever ELSE Less(breaker.kept)
      BY <1>1, <2>2 DEF NotifyTick, Older
    <3> QED BY <1>1, <2>2, <3>1 DEF Less, NotifyIInv, KeptInv
  <2> QED BY <1>1, <2>1, <2>2
<1>4. ASSUME NEW n \in Notices
      PROVE  /\ notice'[n] \in Notice
             /\ notice'[n].pc = notice[n].pc /\ notice'[n].early = notice[n].early
  <2> DEFINE seen == [notice[n].seen EXCEPT !.open = Less(notice[n].seen.open)]
  <2>1. notice'[n] = [notice[n] EXCEPT !.seen = seen]
    BY NoticeTypes DEF NotifyTick, Notice
  <2>2. seen \in Breaker
    BY <1>1, NoticeTypes DEF Breaker, Less
  <2> HIDE DEF seen
  <2> QED BY <2>1, <2>2, NoticeTypes DEF Notice
<1>5. marker' \in [Dests -> 0 .. DedupeTTL]
  BY <1>1 DEF NotifyTick, Less, NotifyIInv, NotifyTypeOK
<1>6. NotifyTypeOK'
  BY <1>2, <1>4, <1>5 DEF NotifyTick, NotifyTypeOK
<1>7. KeptInv' /\ EarlyInv'
  BY <1>3, <1>4 DEF KeptInv, EarlyInv, NotifyIInv
<1> QED BY <1>6, <1>7 DEF NotifyIInv

\* Every step keeps the invariant.
LEMMA NotifyNextInv == NotifyIInv /\ [NotifyNext]_notifyVars => NotifyIInv'
<1> SUFFICES ASSUME NotifyIInv, [NotifyNext]_notifyVars PROVE NotifyIInv'
  OBVIOUS
<1>1. marker \in [Dests -> 0 .. DedupeTTL] /\ DedupeTTL \in 0 .. DedupeTTL
  BY NotifyAssumption DEF NotifyIInv, NotifyTypeOK
<1>2. {"marking", "limits", "asking"} \cap Admitted = {}
  BY DEF Admitted
<1>3. ASSUME NEW c \in Notices, NotifyStep(c) PROVE NotifyIInv'
  <2>1. CASE Deduped(c) \/ SendThrows(c) \/ NotifyFails(c)
    BY <2>1, AnsweredStep DEF Deduped, SendThrows, NotifyFails
  <2>2. CASE NotSeen(c)
    BY <1>1, <1>2, <2>2, NoticeAtStep DEF NotSeen
  <2>3. CASE PutSeen(c)
    BY <1>1, <1>2, <2>3, NoticeTypes, NoticeAtStep DEF PutSeen
  <2>4. CASE Limits(c)
    BY <1>1, <1>2, <2>4, AnsweredStep, NoticeAtStep DEF Limits
  <2>5. CASE BreakerAllows(c)
    BY <2>5, BreakerAllowsStep
  <2>6. CASE Reopen(c) \/ NoteWrite(c)
    <3>1. notice[c].seen \in Breaker /\ notice[c].ok \in BOOLEAN
      BY NoticeTypes DEF Notice
    <3> QED BY <2>6, <3>1, BreakerStates, WriteBreakerStep DEF Reopen, NoteWrite
  <2>7. CASE Sent(c) \/ SendFails(c) \/ NoteRead(c)
    BY <2>7, SendingStep
  <2> QED BY <1>3, <2>1, <2>2, <2>3, <2>4, <2>5, <2>6, <2>7 DEF NotifyStep
<1>4. CASE UNCHANGED notifyVars
  BY <1>4 DEF notifyVars, NotifyIInv, NotifyTypeOK, KeptInv, EarlyInv
<1> QED BY <1>3, <1>4, NotifyArriveStep, NotifyTickStep DEF NotifyNext

\* An open breaker is closed before its time by a request that was past it.
LEMMA BreakerCloser ==
  ASSUME NotifyIInv, NotifyNext, breaker.open > 1, breaker'.open = 0
  PROVE  \E c \in Notices : notice[c].pc = "writing" /\ notice[c].early
<1>1. Cooldown \in Nat \ {0} /\ breaker.open \in Nat /\ breaker.kept > breaker.open
  BY NotifyAssumption, NoticeTypes DEF NotifyIInv, KeptInv
<1>2. breaker' # breaker
  BY <1>1
<1>3. ~NotifyTick
  <2>1. SUFFICES ASSUME NotifyTick PROVE FALSE
    OBVIOUS
  <2>2. breaker.kept \in Nat
    BY NoticeTypes, NotifyAssumption DEF Breaker, Forever
  <2> QED BY <1>1, <2>1, <2>2 DEF NotifyTick, Older, Less
<1>4. PICK c \in Notices : Reopen(c) \/ NoteWrite(c)
  BY <1>2, <1>3 DEF NotifyNext, NotifyArrive, NotifyStep, Deduped, NotSeen, PutSeen, Limits,
     BreakerAllows, Sent, SendFails, SendThrows, NoteRead, NotifyFails
<1>5. ~Reopen(c)
  BY <1>1 DEF Reopen, WriteBreaker
<1>6. notice[c].pc = "writing"
  BY <1>4, <1>5 DEF NoteWrite
<1> QED BY <1>1, <1>6 DEF NotifyIInv, EarlyInv, Admitted

LEMMA NotifyStarts == NotifyInit => NotifyIInv
<1> SUFFICES ASSUME NotifyInit PROVE NotifyIInv
  OBVIOUS
<1>1. Closed \in Breaker /\ Unused \in Notice /\ Closed.open = 0 /\ 0 \in 0 .. DedupeTTL
  <2>1. Cooldown \in Nat /\ Threshold \in Nat /\ Forever \in Nat /\ MaxAttempts \in Nat
    BY NotifyAssumption DEF Forever, MaxAttempts
  <2>2. Closed \in Breaker
    BY <2>1 DEF Closed, Breaker
  <2> QED BY <2>1, <2>2, NotifyAssumption DEF Unused, Notice, Closed
<1> QED BY <1>1 DEF NotifyInit, NotifyIInv, NotifyTypeOK, KeptInv, EarlyInv

(***************************************************************************)
(* The types, the expiry of the breaker and who is past it are one         *)
(* inductive invariant.                                                    *)
(***************************************************************************)
THEOREM NotifyInvariant == NotifySpec => []NotifyIInv
BY NotifyStarts, NotifyNextInv, PTL DEF NotifySpec

(***************************************************************************)
(* Nothing closes the breaker before its cooldown is over but the note of  *)
(* a request that had passed it before it opened (breakerNote).            *)
(***************************************************************************)
THEOREM NotifyBreakerHolds == NotifySpec => BreakerHolds
<1>1. NotifyIInv /\ [NotifyNext]_notifyVars
      => [breaker.open > 1 /\ breaker'.open = 0
           => \E c \in Notices : notice[c].pc = "writing" /\ notice[c].early]_notifyVars
  BY BreakerCloser
<1> QED BY <1>1, NotifyInvariant, PTL DEF NotifySpec, BreakerHolds

-----------------------------------------------------------------------------
(* The mail queue.                                                         *)

LEMMA Appended ==
  ASSUME NEW S, NEW s \in Seq(S), NEW e \in S
  PROVE  /\ Append(s, e) \in Seq(S) /\ Len(Append(s, e)) = Len(s) + 1
         /\ ToSet(Append(s, e)) = ToSet(s) \cup {e}
         /\ IsInjective(s) /\ e \notin ToSet(s) => IsInjective(Append(s, e))
<1>1. /\ Append(s, e) \in Seq(S) /\ Len(Append(s, e)) = Len(s) + 1 /\ Len(s) \in Nat
      /\ DOMAIN s = 1 .. Len(s) /\ DOMAIN Append(s, e) = 1 .. (Len(s) + 1)
      /\ \A i \in 1 .. Len(s) : Append(s, e)[i] = s[i]
      /\ Append(s, e)[Len(s) + 1] = e
  OBVIOUS
<1>2. \A i \in 1 .. (Len(s) + 1) : i = Len(s) + 1 \/ i \in 1 .. Len(s)
  BY <1>1
<1>3. ToSet(Append(s, e)) \subseteq ToSet(s) \cup {e}
  BY <1>1, <1>2 DEF ToSet
<1>4. \A i \in 1 .. Len(s) : i \in 1 .. (Len(s) + 1)
  BY <1>1
<1>5. Len(s) + 1 \in 1 .. (Len(s) + 1)
  BY <1>1
<1>6. ToSet(s) \cup {e} \subseteq ToSet(Append(s, e))
  BY <1>1, <1>4, <1>5 DEF ToSet
<1>7. IsInjective(s) /\ e \notin ToSet(s) => IsInjective(Append(s, e))
  BY <1>1, <1>2 DEF IsInjective, ToSet
<1> QED BY <1>1, <1>3, <1>6, <1>7

LEMMA FirstTaken ==
  ASSUME NEW S, NEW s \in Seq(S), s # <<>>
  PROVE  /\ Tail(s) \in Seq(S) /\ Len(Tail(s)) = Len(s) - 1
         /\ Head(s) \in S /\ Head(s) \in ToSet(s)
         /\ IsInjective(s) => IsInjective(Tail(s)) /\ ToSet(Tail(s)) = ToSet(s) \ {Head(s)}
<1>1. /\ Tail(s) \in Seq(S) /\ Len(Tail(s)) = Len(s) - 1 /\ Len(s) \in Nat \ {0}
      /\ Head(s) = s[1] /\ Head(s) \in S
      /\ DOMAIN s = 1 .. Len(s) /\ DOMAIN Tail(s) = 1 .. (Len(s) - 1)
      /\ \A i \in 1 .. (Len(s) - 1) : Tail(s)[i] = s[i + 1]
  OBVIOUS
<1>2. \A i \in 1 .. (Len(s) - 1) : i + 1 \in 1 .. Len(s) /\ i + 1 # 1
  BY <1>1
<1>3. \A i \in 1 .. Len(s) : i = 1 \/ (i - 1 \in 1 .. (Len(s) - 1) /\ (i - 1) + 1 = i)
  BY <1>1
<1>4. 1 \in DOMAIN s
  BY <1>1
<1>5. Head(s) \in ToSet(s)
  BY <1>1, <1>4 DEF ToSet
<1>6. ASSUME IsInjective(s) PROVE IsInjective(Tail(s)) /\ ToSet(Tail(s)) = ToSet(s) \ {Head(s)}
  <2>1. \A i, j \in 1 .. Len(s) : s[i] = s[j] => i = j
    BY <1>1, <1>6 DEF IsInjective
  <2>2. \A i, j \in 1 .. (Len(s) - 1) : Tail(s)[i] = Tail(s)[j] => i = j
    BY <1>1, <1>2, <2>1
  <2>3. ToSet(Tail(s)) \subseteq ToSet(s) \ {Head(s)}
    BY <1>1, <1>2, <1>4, <2>1 DEF ToSet
  <2>4. ToSet(s) \ {Head(s)} \subseteq ToSet(Tail(s))
    <3>1. ASSUME NEW i \in DOMAIN s, s[i] # Head(s) PROVE s[i] \in ToSet(Tail(s))
      <4>1. i \in 1 .. Len(s) /\ i # 1
        BY <1>1, <3>1
      <4>2. i - 1 \in DOMAIN Tail(s) /\ (i - 1) + 1 = i
        BY <1>1, <1>3, <4>1
      <4>3. Tail(s)[i - 1] = s[i]
        BY <1>1, <4>2
      <4> QED BY <4>2, <4>3 DEF ToSet
    <3> QED BY <3>1 DEF ToSet
  <2> QED BY <1>1, <2>2, <2>3, <2>4 DEF IsInjective
<1> QED BY <1>1, <1>5, <1>6

MailIInv == MailTypeOK /\ KeptInOnePlace

\* What the queue and a delivery hold, as the steps use it.
LEMMA MailHas ==
  ASSUME MailIInv
  PROVE  /\ queue \in Seq(Mails) /\ Len(queue) <= MaxItems /\ IsInjective(queue)
         /\ ToSet(queue) \subseteq Mails /\ NoMail \notin Mails
         /\ \A m \in Mails : fate[m] = "kept" <=> m \in ToSet(queue) \/ \E d \in Deliveries : sending[d] = m
         /\ \A d \in Deliveries : sending[d] = NoMail \/ sending[d] \in Mails
<1>1. NoMail \notin Mails
  BY DEF NoMail, Mails
<1>2. ToSet(queue) \subseteq Mails
  BY DEF MailIInv, MailTypeOK, ToSet
<1> QED BY <1>1, <1>2 DEF MailIInv, MailTypeOK, KeptInOnePlace, Held

\* What is to be shown of the state after a step, mail by mail.
LEMMA PlacesHold ==
  ASSUME MailTypeOK', NoMail \notin Mails, IsInjective(queue'), ToSet(queue') \subseteq Mails,
         \A m \in Mails :
           fate'[m] = "kept" <=> m \in ToSet(queue') \/ \E d \in Deliveries : sending'[d] = m,
         \A d \in Deliveries : sending'[d] # NoMail => sending'[d] \notin ToSet(queue'),
         \A d, e \in Deliveries :
           sending'[d] # NoMail /\ sending'[e] = sending'[d] => e = d
  PROVE  MailIInv'
<1>1. Held' = {m \in Mails : fate'[m] = "kept"}
  BY DEF Held, MailTypeOK
<1> QED BY <1>1 DEF MailIInv, KeptInOnePlace

\* A mail goes to the end of the queue and, if it was full, the first goes.
LEMMA EnqueueStep ==
  ASSUME MailIInv, NEW m \in Mails, m \notin ToSet(queue), NEW fates \in [Mails -> Fates],
         Enqueue(m, fates)
  PROVE  /\ queue' \in Seq(Mails) /\ Len(queue') <= MaxItems
         /\ IsInjective(queue') /\ ToSet(queue') \subseteq Mails
         /\ fate' \in [Mails -> Fates]
         /\ \E gone \in Mails \cup {NoMail} :
              /\ ToSet(queue') = (ToSet(queue) \cup {m}) \ {gone}
              /\ gone # m /\ gone \in ToSet(queue) \cup {NoMail}
              /\ \A n \in Mails : fate'[n] = IF n = gone THEN "pushed out" ELSE fates[n]
<1>1. MaxItems \in Nat \ {0} /\ Len(queue) \in Nat /\ Len(queue) <= MaxItems
  BY MailAssumption DEF MailIInv, MailTypeOK
<1>2. CASE Len(queue) < MaxItems
  <2>1. queue' = Append(queue, m) /\ fate' = fates
    BY <1>2 DEF Enqueue
  <2>2. /\ queue' \in Seq(Mails) /\ Len(queue') = Len(queue) + 1
        /\ ToSet(queue') = ToSet(queue) \cup {m} /\ IsInjective(queue')
    <3>1. queue \in Seq(Mails) /\ IsInjective(queue)
      BY MailHas
    <3> QED BY <2>1, <3>1, Appended
  <2>3. Len(queue') <= MaxItems
    BY <1>1, <1>2, <2>2
  <2>4. ToSet(queue') = (ToSet(queue) \cup {m}) \ {NoMail} /\ NoMail # m
    BY <2>2, MailHas
  <2>5. ToSet(queue') \subseteq Mails
    BY <2>2, MailHas
  <2>6. \A n \in Mails : fate'[n] = IF n = NoMail THEN "pushed out" ELSE fates[n]
    BY <2>1, MailHas
  <2>7. fate' \in [Mails -> Fates]
    BY <2>1
  <2>8. \E gone \in Mails \cup {NoMail} :
          /\ ToSet(queue') = (ToSet(queue) \cup {m}) \ {gone}
          /\ gone # m /\ gone \in ToSet(queue) \cup {NoMail}
          /\ \A n \in Mails : fate'[n] = IF n = gone THEN "pushed out" ELSE fates[n]
    <3> WITNESS NoMail \in Mails \cup {NoMail}
    <3> QED BY <2>4, <2>6
  <2> QED BY <2>2, <2>3, <2>5, <2>7, <2>8
<1>3. CASE ~(Len(queue) < MaxItems)
  <2>1. /\ queue' = Append(Tail(queue), m)
        /\ fate' = [fates EXCEPT ![Head(queue)] = "pushed out"]
    BY <1>3 DEF Enqueue
  <2>2. queue # <<>> /\ Len(queue) = MaxItems
    <3>1. Len(queue) = MaxItems /\ Len(queue) # 0
      BY <1>1, <1>3
    <3> QED BY <3>1
  <2>3. /\ Tail(queue) \in Seq(Mails) /\ Len(Tail(queue)) = Len(queue) - 1
        /\ Head(queue) \in Mails /\ Head(queue) \in ToSet(queue)
        /\ IsInjective(Tail(queue)) /\ ToSet(Tail(queue)) = ToSet(queue) \ {Head(queue)}
    BY <2>2, MailHas, FirstTaken
  <2>4. /\ queue' \in Seq(Mails) /\ Len(queue') = Len(Tail(queue)) + 1
        /\ ToSet(queue') = ToSet(Tail(queue)) \cup {m} /\ IsInjective(queue')
    <3> DEFINE rest == Tail(queue)
    <3>1. rest \in Seq(Mails) /\ IsInjective(rest) /\ m \notin ToSet(rest)
      BY <2>3
    <3>2. queue' = Append(rest, m)
      BY <2>1
    <3> HIDE DEF rest
    <3>3. /\ queue' \in Seq(Mails) /\ Len(queue') = Len(rest) + 1
          /\ ToSet(queue') = ToSet(rest) \cup {m} /\ IsInjective(queue')
      BY <3>1, <3>2, Appended
    <3> QED BY <3>3 DEF rest
  <2>5. Len(queue') <= MaxItems
    BY <1>1, <2>2, <2>3, <2>4
  <2>6. Head(queue) # m /\ ToSet(queue') = (ToSet(queue) \cup {m}) \ {Head(queue)}
    BY <2>3, <2>4
  <2>7. /\ fate' \in [Mails -> Fates]
        /\ \A n \in Mails : fate'[n] = IF n = Head(queue) THEN "pushed out" ELSE fates[n]
    BY <2>1, <2>3 DEF Fates
  <2>8. ToSet(queue') \subseteq Mails
    BY <2>6, MailHas
  <2>9. \E gone \in Mails \cup {NoMail} :
          /\ ToSet(queue') = (ToSet(queue) \cup {m}) \ {gone}
          /\ gone # m /\ gone \in ToSet(queue) \cup {NoMail}
          /\ \A n \in Mails : fate'[n] = IF n = gone THEN "pushed out" ELSE fates[n]
    <3>1. Head(queue) \in Mails \cup {NoMail} /\ Head(queue) \in ToSet(queue) \cup {NoMail}
      BY <2>3
    <3> USE <3>1
    <3> WITNESS Head(queue) \in Mails \cup {NoMail}
    <3> QED BY <2>6, <2>7
  <2> QED BY <2>4, <2>5, <2>7, <2>8, <2>9
<1> QED BY <1>2, <1>3

LEMMA AcceptStep ==
  ASSUME MailIInv, NEW m \in Mails, Accept(m)
  PROVE  MailIInv'
<1> DEFINE fates == [fate EXCEPT ![m] = "kept"]
<1>1. fate[m] = "new" /\ Enqueue(m, fates) /\ UNCHANGED <<sending, tried>>
  BY DEF Accept
<1>2. m \notin ToSet(queue) /\ \A d \in Deliveries : sending[d] # m
  BY <1>1, MailHas
<1>3. fates \in [Mails -> Fates] /\ \A n \in Mails : fates[n] = IF n = m THEN "kept" ELSE fate[n]
  BY DEF MailIInv, MailTypeOK, Fates
<1> HIDE DEF fates
<1>a. /\ queue' \in Seq(Mails) /\ Len(queue') <= MaxItems
      /\ IsInjective(queue') /\ ToSet(queue') \subseteq Mails /\ fate' \in [Mails -> Fates]
  BY <1>1, <1>2, <1>3, EnqueueStep, Zenon
<1>4. PICK gone \in Mails \cup {NoMail} :
         /\ ToSet(queue') = (ToSet(queue) \cup {m}) \ {gone}
         /\ gone # m /\ gone \in ToSet(queue) \cup {NoMail}
         /\ \A n \in Mails : fate'[n] = IF n = gone THEN "pushed out" ELSE fates[n]
  BY <1>1, <1>2, <1>3, EnqueueStep, Zenon
<1>5. MailTypeOK'
  BY <1>1, <1>a DEF MailIInv, MailTypeOK
<1>6. \A d \in Deliveries : sending[d] # NoMail => sending[d] \notin ToSet(queue)
  BY DEF MailIInv, KeptInOnePlace
<1>7. ASSUME NEW n \in Mails
      PROVE  fate'[n] = "kept" <=> n \in ToSet(queue') \/ \E d \in Deliveries : sending'[d] = n
  <2>1. sending' = sending
    BY <1>1
  <2>2. CASE n = gone
    <3>1. n \in ToSet(queue) /\ n \notin ToSet(queue') /\ fate'[n] = "pushed out"
      BY <1>4, <2>2, MailHas
    <3> QED BY <1>6, <2>1, <3>1, MailHas
  <2>3. CASE n = m
    <3>1. n \in ToSet(queue') /\ fate'[n] = "kept"
      BY <1>3, <1>4, <2>3
    <3> QED BY <3>1
  <2>4. CASE n # gone /\ n # m
    <3>1. fate'[n] = fate[n] /\ (n \in ToSet(queue') <=> n \in ToSet(queue))
      BY <1>3, <1>4, <2>4
    <3> QED BY <2>1, <3>1, MailHas
  <2> QED BY <2>2, <2>3, <2>4
<1>8. \A d \in Deliveries : sending'[d] # NoMail => sending'[d] \notin ToSet(queue')
  BY <1>1, <1>2, <1>4, <1>6
<1>9. \A d, e \in Deliveries : sending'[d] # NoMail /\ sending'[e] = sending'[d] => e = d
  BY <1>1 DEF MailIInv, KeptInOnePlace
<1> QED BY <1>a, <1>5, <1>7, <1>8, <1>9, MailHas, PlacesHold

LEMMA RequeueStep ==
  ASSUME MailIInv, NEW d \in Deliveries, Requeue(d)
  PROVE  MailIInv'
<1>1. /\ sending[d] # NoMail /\ Enqueue(sending[d], fate) /\ UNCHANGED tried
      /\ sending' = [sending EXCEPT ![d] = NoMail]
  BY DEF Requeue
<1>2. /\ sending[d] \in Mails /\ sending[d] \notin ToSet(queue) /\ fate \in [Mails -> Fates]
      /\ \A e \in Deliveries : sending[e] = sending[d] => e = d
      /\ \A e \in Deliveries : sending[e] # NoMail => sending[e] \notin ToSet(queue)
  BY <1>1, MailHas DEF MailIInv, KeptInOnePlace, MailTypeOK
<1>a. /\ queue' \in Seq(Mails) /\ Len(queue') <= MaxItems
      /\ IsInjective(queue') /\ ToSet(queue') \subseteq Mails /\ fate' \in [Mails -> Fates]
  BY <1>1, <1>2, EnqueueStep, Zenon
<1>3. PICK gone \in Mails \cup {NoMail} :
         /\ ToSet(queue') = (ToSet(queue) \cup {sending[d]}) \ {gone}
         /\ gone # sending[d] /\ gone \in ToSet(queue) \cup {NoMail}
         /\ \A n \in Mails : fate'[n] = IF n = gone THEN "pushed out" ELSE fate[n]
  BY <1>1, <1>2, EnqueueStep, Zenon
<1>4. \A e \in Deliveries : sending'[e] = IF e = d THEN NoMail ELSE sending[e]
  BY <1>1 DEF MailIInv, MailTypeOK
<1>5. MailTypeOK'
  BY <1>1, <1>a DEF MailIInv, MailTypeOK
<1>6. ASSUME NEW n \in Mails
      PROVE  fate'[n] = "kept" <=> n \in ToSet(queue') \/ \E e \in Deliveries : sending'[e] = n
  <2>1. CASE n = gone
    <3>1. n \in ToSet(queue) /\ n \notin ToSet(queue') /\ fate'[n] = "pushed out" /\ n # NoMail
      BY <1>3, <2>1, MailHas
    <3> QED BY <1>2, <1>4, <3>1
  <2>2. CASE n = sending[d]
    <3>1. n \in ToSet(queue') /\ fate'[n] = fate[n] /\ fate[n] = "kept"
      BY <1>3, <2>2, MailHas
    <3> QED BY <3>1
  <2>3. CASE n # gone /\ n # sending[d]
    <3>1. fate'[n] = fate[n] /\ (n \in ToSet(queue') <=> n \in ToSet(queue)) /\ n # NoMail
      BY <1>3, <2>3, MailHas
    <3>2. (\E e \in Deliveries : sending'[e] = n) <=> (\E e \in Deliveries : sending[e] = n)
      BY <1>4, <2>3, <3>1
    <3> QED BY <3>1, <3>2, MailHas
  <2> QED BY <2>1, <2>2, <2>3
<1>7. \A e \in Deliveries : sending'[e] # NoMail => sending'[e] \notin ToSet(queue')
  BY <1>2, <1>3, <1>4
<1>8. \A a, e \in Deliveries : sending'[a] # NoMail /\ sending'[e] = sending'[a] => e = a
  BY <1>4 DEF MailIInv, KeptInOnePlace
<1> QED BY <1>a, <1>5, <1>6, <1>7, <1>8, MailHas, PlacesHold

LEMMA TakeMailStep ==
  ASSUME MailIInv, NEW d \in Deliveries, Take(d)
  PROVE  MailIInv'
<1>1. /\ sending[d] = NoMail /\ queue # <<>> /\ fate' = fate
      /\ sending' = [sending EXCEPT ![d] = Head(queue)] /\ queue' = Tail(queue)
      /\ tried' = tried \cup {Head(queue)}
  BY DEF Take
<1>2. /\ queue' \in Seq(Mails) /\ Len(queue') = Len(queue) - 1
      /\ Head(queue) \in Mails /\ Head(queue) \in ToSet(queue)
      /\ IsInjective(queue') /\ ToSet(queue') = ToSet(queue) \ {Head(queue)}
  BY <1>1, MailHas, FirstTaken
<1>3. \A e \in Deliveries : sending'[e] = IF e = d THEN Head(queue) ELSE sending[e]
  BY <1>1 DEF MailIInv, MailTypeOK
<1>4. MailTypeOK'
  <2>1. MaxItems \in Nat /\ Len(queue) \in Nat /\ Len(queue) <= MaxItems
    BY MailHas, MailAssumption
  <2>2. Len(queue') <= MaxItems
    BY <1>2, <2>1
  <2> QED BY <1>1, <1>2, <2>2 DEF MailIInv, MailTypeOK
<1>5. \A e \in Deliveries : sending[e] # NoMail => sending[e] \notin ToSet(queue)
  BY DEF MailIInv, KeptInOnePlace
<1>6. ASSUME NEW n \in Mails
      PROVE  fate'[n] = "kept" <=> n \in ToSet(queue') \/ \E e \in Deliveries : sending'[e] = n
  <2>1. CASE n = Head(queue)
    BY <1>1, <1>2, <1>3, <2>1, MailHas
  <2>2. CASE n # Head(queue)
    <3>1. n # NoMail /\ (n \in ToSet(queue') <=> n \in ToSet(queue))
      BY <1>2, <2>2, MailHas
    <3>2. (\E e \in Deliveries : sending'[e] = n) <=> (\E e \in Deliveries : sending[e] = n)
      BY <1>1, <1>3, <2>2, <3>1
    <3> QED BY <1>1, <3>1, <3>2, MailHas
  <2> QED BY <2>1, <2>2
<1>7. \A e \in Deliveries : sending'[e] # NoMail => sending'[e] \notin ToSet(queue')
  BY <1>2, <1>3, <1>5
<1>8. \A a, e \in Deliveries : sending'[a] # NoMail /\ sending'[e] = sending'[a] => e = a
  <2>1. \A e \in Deliveries : sending[e] = Head(queue) => sending[e] = NoMail
    BY <1>2, <1>5
  <2>2. Head(queue) # NoMail
    BY <1>2, MailHas
  <2>3. \A a, e \in Deliveries : sending[a] # NoMail /\ sending[e] = sending[a] => e = a
    BY DEF MailIInv, KeptInOnePlace
  <2> QED BY <1>3, <2>1, <2>2, <2>3
<1> QED BY <1>2, <1>4, <1>6, <1>7, <1>8, MailHas, PlacesHold

\* A delivery is done with its mail: it was accepted, refused or is lost.
LEMMA SettledStep ==
  ASSUME MailIInv, NEW d \in Deliveries, sending[d] # NoMail, UNCHANGED <<queue, tried>>,
         NEW result \in {"delivered", "refused", "lost"},
         fate' = [fate EXCEPT ![sending[d]] = result],
         sending' = [sending EXCEPT ![d] = NoMail]
  PROVE  MailIInv'
<1>1. /\ sending[d] \in Mails
      /\ \A e \in Deliveries : sending'[e] = IF e = d THEN NoMail ELSE sending[e]
      /\ \A n \in Mails : fate'[n] = IF n = sending[d] THEN result ELSE fate[n]
  BY MailHas DEF MailIInv, MailTypeOK
<1>2. MailTypeOK'
  BY <1>1 DEF MailIInv, MailTypeOK, Fates
<1>3. \A a, e \in Deliveries : sending[a] # NoMail
        => sending[a] \notin ToSet(queue) /\ (sending[e] = sending[a] => e = a)
  BY DEF MailIInv, KeptInOnePlace
<1>4. ASSUME NEW n \in Mails
      PROVE  fate'[n] = "kept" <=> n \in ToSet(queue') \/ \E e \in Deliveries : sending'[e] = n
  <2>1. n # NoMail /\ queue' = queue
    BY MailHas
  <2>2. CASE n = sending[d]
    BY <1>1, <1>3, <2>1, <2>2
  <2>3. CASE n # sending[d]
    <3>1. (\E e \in Deliveries : sending'[e] = n) <=> (\E e \in Deliveries : sending[e] = n)
      BY <1>1, <2>1, <2>3
    <3> QED BY <1>1, <2>1, <2>3, <3>1, MailHas
  <2> QED BY <2>2, <2>3
<1>5. \A e \in Deliveries : sending'[e] # NoMail => sending'[e] \notin ToSet(queue')
  BY <1>1, <1>3
<1>6. \A a, e \in Deliveries : sending'[a] # NoMail /\ sending'[e] = sending'[a] => e = a
  BY <1>1, <1>3
<1> QED BY <1>2, <1>4, <1>5, <1>6, MailHas, PlacesHold

LEMMA MailRestartStep ==
  ASSUME MailIInv, MailRestart
  PROVE  MailIInv'
<1>1. /\ queue' = <<>> /\ tried' = tried /\ \A e \in Deliveries : sending'[e] = NoMail
      /\ sending' = [e \in Deliveries |-> NoMail]
      /\ fate' = [m \in Mails |-> IF fate[m] = "kept" THEN "lost" ELSE fate[m]]
  BY DEF MailRestart
<1>2. ToSet(queue') = {} /\ IsInjective(queue')
  BY <1>1 DEF ToSet, IsInjective
<1>3. queue' \in Seq(Mails) /\ Len(queue') = 0 /\ 0 <= MaxItems
  BY <1>1, MailAssumption
<1>4. MailTypeOK'
  BY <1>1, <1>3 DEF MailIInv, MailTypeOK, Fates
<1>5. \A m \in Mails : fate'[m] # "kept" /\ m # NoMail
  BY <1>1, MailHas
<1> QED BY <1>1, <1>2, <1>4, <1>5, MailHas, PlacesHold

LEMMA MailNextInv == MailIInv /\ [MailNext]_mailVars => MailIInv'
<1> SUFFICES ASSUME MailIInv, [MailNext]_mailVars PROVE MailIInv'
  OBVIOUS
<1>1. ASSUME NEW m \in Mails, Accept(m) PROVE MailIInv'
  BY <1>1, AcceptStep
<1>2. ASSUME NEW d \in Deliveries, Deliver(d) PROVE MailIInv'
  <2>1. CASE Take(d)
    BY <2>1, TakeMailStep
  <2>2. CASE Done(d)
    BY <2>2, SettledStep DEF Done
  <2>3. CASE Requeue(d)
    BY <2>3, RequeueStep
  <2>4. CASE TransportThrows(d)
    BY <2>4, SettledStep DEF TransportThrows
  <2> QED BY <1>2, <2>1, <2>2, <2>3, <2>4 DEF Deliver
<1>3. CASE MailRestart
  BY <1>3, MailRestartStep
<1>4. CASE UNCHANGED mailVars
  BY <1>4 DEF mailVars, MailIInv, MailTypeOK, KeptInOnePlace, Held
<1> QED BY <1>1, <1>2, <1>3, <1>4 DEF MailNext

LEMMA MailStarts == MailInit => MailIInv
<1> SUFFICES ASSUME MailInit PROVE MailIInv
  OBVIOUS
<1>1. /\ queue = <<>> /\ ToSet(queue) = {} /\ IsInjective(queue)
      /\ sending = [d \in Deliveries |-> NoMail] /\ fate = [m \in Mails |-> "new"] /\ tried = {}
  BY DEF MailInit, ToSet, IsInjective
<1>2. queue \in Seq(Mails) /\ Len(queue) = 0 /\ 0 <= MaxItems
  BY <1>1, MailAssumption
<1>3. MailTypeOK
  BY <1>1, <1>2 DEF MailTypeOK, Fates
<1>4. Held = {m \in Mails : fate[m] = "kept"}
  BY <1>1 DEF Held
<1> QED BY <1>1, <1>3, <1>4 DEF MailIInv, KeptInOnePlace

(***************************************************************************)
(* Where a mail is and what became of it are one inductive invariant.      *)
(***************************************************************************)
THEOREM MailInvariant == MailSpec => []MailIInv
BY MailStarts, MailNextInv, PTL DEF MailSpec

(***************************************************************************)
(* A mail to be delivered is in one place, for every size of the queue and *)
(* number of overlapping deliveries (deliverNextMail, enqueueMail).        *)
(***************************************************************************)
THEOREM MailsInOnePlace == MailSpec => []KeptInOnePlace
<1>1. MailIInv => KeptInOnePlace
  BY DEF MailIInv
<1> QED BY <1>1, MailInvariant, PTL

-----------------------------------------------------------------------------
(* The schedule, and the components side by side.                          *)

LEMMA ScheduleNextType == ScheduleTypeOK /\ [ScheduleNext]_scheduleVars => ScheduleTypeOK'
<1> SUFFICES ASSUME ScheduleTypeOK, [ScheduleNext]_scheduleVars PROVE ScheduleTypeOK'
  OBVIOUS
<1> DEFINE n == IF Len(Listed) < BatchLimit THEN Len(Listed) ELSE BatchLimit
<1>1. Len(Listed) \in Nat /\ BatchLimit \in Nat /\ Listed \in Seq(ToSet(Listed))
  BY ScheduleAssumption
<1>2. Selected \in Seq(ToSet(Listed))
  <2>1. n \in Nat /\ n <= Len(Listed)
    BY <1>1
  <2> QED BY <1>1, <2>1 DEF Selected
<1>3. Len(Selected) \in Nat /\ DOMAIN Selected = 1 .. Len(Selected)
  BY <1>2
<1>4. ASSUME NEW r \in Runs, Cron(r) PROVE ScheduleTypeOK'
  <2>1. 1 \in 0 .. Len(Selected)
    BY <1>2, <1>3, <1>4 DEF Cron
  <2> QED BY <1>4, <2>1 DEF Cron, ScheduleTypeOK
<1>5. ASSUME NEW r \in Runs, NEW ok \in BOOLEAN, RefreshEnds(r, ok) PROVE ScheduleTypeOK'
  <2>1. at[r] \in 1 .. Len(Selected)
    BY <1>3, <1>5 DEF RefreshEnds, ScheduleTypeOK
  <2>2. Ended(r, ok) \in 0 .. Len(Selected)
    BY <1>3, <2>1 DEF Ended
  <2>3. Selected[at[r]] \in ToSet(Selected)
    BY <1>3, <2>1 DEF ToSet
  <2> QED BY <1>5, <2>2, <2>3 DEF RefreshEnds, ScheduleTypeOK
<1>6. ASSUME NEW r \in Runs, Evicted(r) PROVE ScheduleTypeOK'
  BY <1>3, <1>6 DEF Evicted, ScheduleTypeOK
<1>7. CASE UNCHANGED scheduleVars
  BY <1>7 DEF scheduleVars, ScheduleTypeOK
<1> QED BY <1>4, <1>5, <1>6, <1>7 DEF ScheduleNext

(***************************************************************************)
(* Side by side as they run, the breaker, the queue and the schedule are   *)
(* of their types: the queue is within its maxItems, a refresh is of a     *)
(* domain that is listed (recordNotify, enqueueMail, runRefreshBatch).     *)
(***************************************************************************)
THEOREM RecoveryTypes == RecoverySpec => []RecoveryTypeOK
<1> DEFINE Inv == NotifyIInv /\ MailIInv /\ ScheduleTypeOK
<1>1. RecoveryInit => Inv
  <2>1. ScheduleInit => ScheduleTypeOK
    <3>1. Len(Selected) \in Nat
      BY ScheduleAssumption DEF Selected
    <3> QED BY <3>1 DEF ScheduleInit, ScheduleTypeOK
  <2> QED BY <2>1, NotifyStarts, MailStarts DEF RecoveryInit
<1>2. Inv /\ [RecoveryNext]_recoveryVars => Inv'
  <2>1. [RecoveryNext]_recoveryVars
          => [NotifyNext]_notifyVars /\ [MailNext]_mailVars /\ [ScheduleNext]_scheduleVars
    BY DEF RecoveryNext, recoveryVars
  <2> HIDE DEF Inv
  <2> QED BY <2>1, NotifyNextInv, MailNextInv, ScheduleNextType DEF Inv
<1>3. Inv => RecoveryTypeOK
  BY DEF RecoveryTypeOK, NotifyIInv, MailIInv
<1> QED BY <1>1, <1>2, <1>3, PTL DEF RecoverySpec
=============================================================================
