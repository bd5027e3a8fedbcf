--------------------------- MODULE Workers_proofs ---------------------------
(***************************************************************************)
(* Theorems about the guards of the workers, for every number of requests  *)
(* that overlap: what the limit of a KV counter lets through (KvLimiter),  *)
(* what a counter that refuses has let through, how often a route          *)
(* assertion is accepted (RouteAssertions), and, of the inbox              *)
(* (SecretsInbox), how often a nonce is accepted, how many letters a       *)
(* subject has, and what is left of it when it has been forgotten.  The    *)
(* last one puts them and the domain map (DomainMap_proofs) side by side.  *)
(***************************************************************************)
EXTENDS MCWorkers, DomainMap_proofs,
        SequenceTheorems, FiniteSetTheorems, TLAPS

-----------------------------------------------------------------------------
(* The limits that are KV counters.                                        *)

\* What the types say of the parts, as the steps use them.
LEMMA KvTypes ==
  ASSUME KvIInv
  PROVE  /\ KvMax \in Nat \ {0} /\ KvSpan \in Nat \ {0} /\ Tries \in Nat \ {0}
         /\ entry.count \in 0 .. KvMax /\ entry.reset \in 0 .. KvSpan /\ entry.kept \in 0 .. KvSpan
         /\ passed.puts \in 0 .. KvMax + 1 /\ passed.raced \in BOOLEAN
         /\ Free \in Asking /\ Free.pc = "idle"
         /\ \A c \in Requests :
              /\ asking[c] \in Asking
              /\ asking[c].next.count \in Nat /\ asking[c].next.reset \in 0 .. KvSpan
              /\ asking[c].opens \in BOOLEAN /\ asking[c].stale \in BOOLEAN
              /\ asking[c].try \in 0 .. Tries - 1
BY KvLimiterAssumption DEF KvIInv, KvTypeOK, Asking, Free

(***************************************************************************)
(* One request becomes rec and nothing is put.                             *)
(***************************************************************************)
LEMMA AskingStep ==
  ASSUME KvIInv, NEW c \in Requests, NEW rec \in Asking,
         asking' = [asking EXCEPT ![c] = rec], UNCHANGED <<entry, charges, passed>>,
         rec.pc = "writing" =>
           /\ rec.next.count <= KvMax
           /\ rec.opens => rec.next.count = 1
           /\ ~rec.opens /\ ~rec.stale /\ ~passed.raced /\ rec.next.reset > 0
                => passed.puts < rec.next.count
  PROVE  KvIInv'
<1>1. ASSUME NEW d \in Requests PROVE asking'[d] = IF d = c THEN rec ELSE asking[d]
  BY DEF KvIInv, KvTypeOK
<1>2. KvTypeOK' /\ CountedInv'
  BY DEF KvIInv, KvTypeOK, CountedInv, InWindow
<1>3. WriterInv'
  BY <1>1 DEF KvIInv, WriterInv
<1> QED BY <1>2, <1>3 DEF KvIInv

\* A request begins, is refused, starts over or fails: it is about to write nothing.
LEMMA NotWritingStep ==
  ASSUME KvIInv, NEW c \in Requests,
         AskLimit(c) \/ RefuseOver(c) \/ LimitBusy(c) \/ LimitFails(c)
  PROVE  KvIInv'
<1>1. PICK rec \in Asking : asking' = [asking EXCEPT ![c] = rec] /\ rec.pc # "writing"
  <2>1. CASE AskLimit(c)
    <3> DEFINE rec == [asking[c] EXCEPT !.pc = "reading"]
    <3>1. asking' = [asking EXCEPT ![c] = rec]
      BY <2>1 DEF AskLimit, KvIInv, KvTypeOK
    <3>2. rec \in Asking /\ rec.pc = "reading"
      BY KvTypes DEF Asking
    <3> HIDE DEF rec
    <3> QED BY <3>1, <3>2
  <2>2. CASE RefuseOver(c) \/ LimitFails(c)
    BY <2>2, KvTypes DEF RefuseOver, LimitFails
  <2>3. CASE LimitBusy(c) /\ asking[c].try + 1 < Tries
    <3> DEFINE rec == [Free EXCEPT !.pc = "reading", !.try = asking[c].try + 1]
    <3>1. asking' = [asking EXCEPT ![c] = rec]
      BY <2>3 DEF LimitBusy
    <3>2. asking[c].try + 1 \in 0 .. Tries - 1
      BY <2>3, KvTypes
    <3>3. rec \in Asking /\ rec.pc = "reading"
      BY <3>2, KvTypes DEF Asking, Free
    <3> HIDE DEF rec
    <3> QED BY <3>1, <3>3
  <2>4. CASE LimitBusy(c) /\ ~(asking[c].try + 1 < Tries)
    BY <2>4, KvTypes DEF LimitBusy
  <2> QED BY <2>1, <2>2, <2>3, <2>4
<1>2. UNCHANGED <<entry, charges, passed>>
  BY DEF AskLimit, RefuseOver, LimitBusy, LimitFails
<1> QED BY <1>1, <1>2, AskingStep

\* A request reads the entry: what it will write counts one more than is there.
LEMMA ReadLimitStep ==
  ASSUME KvIInv, NEW c \in Requests, ReadLimit(c)
  PROVE  KvIInv'
<1> DEFINE rec == [pc |-> "writing", next |-> Charged, opens |-> ~InWindow,
                  try |-> asking[c].try, stale |-> FALSE]
<1>1. asking' = [asking EXCEPT ![c] = rec] /\ UNCHANGED <<entry, charges, passed>>
  BY DEF ReadLimit
<1>2. CASE InWindow
  <2>1. entry.count < KvMax
    BY <1>2 DEF ReadLimit
  <2>2. Charged = [count |-> entry.count + 1, reset |-> entry.reset]
    BY <1>2 DEF Charged
  <2>3. Charged.count = entry.count + 1 /\ Charged \in [count : Nat, reset : 0 .. KvSpan]
    BY <2>2, KvTypes
  <2>4. rec \in Asking /\ ~rec.opens
    BY <1>2, <2>3, KvTypes DEF Asking
  <2>5. rec.next.count <= KvMax /\ (~passed.raced => passed.puts < rec.next.count)
    BY <1>2, <2>1, <2>3, KvTypes DEF KvIInv, CountedInv
  <2> HIDE DEF rec
  <2>6. PICK new \in Asking : new = rec
    BY <2>4
  <2> QED BY <1>1, <2>4, <2>5, <2>6, AskingStep
<1>3. CASE ~InWindow
  <2>1. Charged = [count |-> 1, reset |-> KvSpan]
    BY <1>3 DEF Charged
  <2>2. Charged.count = 1 /\ Charged \in [count : Nat, reset : 0 .. KvSpan]
    BY <2>1, KvTypes
  <2>3. rec \in Asking /\ rec.opens /\ rec.next.count = 1
    BY <1>3, <2>2, KvTypes DEF Asking
  <2>4. 1 <= KvMax
    BY KvTypes
  <2> HIDE DEF rec
  <2>5. PICK new \in Asking : new = rec
    BY <2>3
  <2> QED BY <1>1, <2>3, <2>4, <2>5, AskingStep
<1> QED BY <1>2, <1>3

(***************************************************************************)
(* A put takes effect.  Unless it overwrites what its request had not      *)
(* read, the entry counts it with all that came before in its window; and  *)
(* whoever has read the entry before is stale from now on.                 *)
(***************************************************************************)
LEMMA WriteLimitStep ==
  ASSUME KvIInv, NEW c \in Requests, WriteLimit(c)
  PROVE  KvIInv'
<1> DEFINE next == asking[c].next
<1>1. /\ next.count \in 0 .. KvMax /\ next.reset \in 0 .. KvSpan
      /\ asking[c].opens => next.count = 1
      /\ ~asking[c].opens /\ ~asking[c].stale /\ ~passed.raced /\ next.reset > 0
           => passed.puts < next.count
  BY KvTypes DEF WriteLimit, KvIInv, WriterInv
<1>2. entry' = [count |-> next.count, reset |-> next.reset, kept |-> KvSpan]
  BY DEF WriteLimit, PutCount
<1>3. /\ passed' \in [puts : 0 .. KvMax + 1, raced : BOOLEAN]
      /\ asking[c].opens /\ ~asking[c].stale => passed'.puts = 1
      /\ asking[c].stale => passed'.raced
      /\ ~asking[c].opens /\ ~asking[c].stale
           => passed'.raced = passed.raced /\ passed'.puts <= passed.puts + 1
  <2>1. passed' = IF asking[c].opens /\ ~asking[c].stale THEN [puts |-> 1, raced |-> FALSE]
                  ELSE [puts  |-> IF passed.puts > KvMax THEN passed.puts ELSE passed.puts + 1,
                        raced |-> passed.raced \/ asking[c].stale]
    BY DEF WriteLimit, PutCount
  <2>2. CASE asking[c].opens /\ ~asking[c].stale
    BY <2>1, <2>2, KvTypes
  <2>3. CASE ~(asking[c].opens /\ ~asking[c].stale)
    <3>1. passed' = [puts  |-> IF passed.puts > KvMax THEN passed.puts ELSE passed.puts + 1,
                     raced |-> passed.raced \/ asking[c].stale]
      BY <2>1, <2>3
    <3>2. passed'.puts \in 0 .. KvMax + 1 /\ passed'.puts <= passed.puts + 1
      BY <3>1, KvTypes
    <3>3. passed'.raced \in BOOLEAN /\ (asking[c].stale => passed'.raced)
      BY <3>1, KvTypes
    <3>4. ~asking[c].stale => passed'.raced = passed.raced
      BY <3>1, KvTypes
    <3>5. passed' = [puts |-> passed'.puts, raced |-> passed'.raced]
      BY <3>1
    <3>6. passed' \in [puts : 0 .. KvMax + 1, raced : BOOLEAN]
      BY <3>2, <3>3, <3>5
    <3> HIDE DEF next
    <3> QED BY <2>3, <3>2, <3>3, <3>4, <3>6
  <2> QED BY <2>2, <2>3
<1>4. ASSUME NEW d \in Requests
      PROVE  /\ asking'[d] \in Asking
             /\ asking'[d].pc = "writing" =>
                  /\ d # c /\ asking[d].pc = "writing" /\ asking'[d].stale
                  /\ asking'[d].next = asking[d].next /\ asking'[d].opens = asking[d].opens
  <2>1. CASE d = c
    BY <2>1, KvTypes DEF WriteLimit, PutCount
  <2>2. CASE d # c
    <3> DEFINE stale == asking[d].stale \/ asking[d].pc = "writing"
    <3>1. asking'[d] = [asking[d] EXCEPT !.stale = stale]
      BY <2>2 DEF WriteLimit, PutCount
    <3>2. stale \in BOOLEAN /\ (asking[d].pc = "writing" => stale)
      BY KvTypes
    <3> HIDE DEF stale
    <3> QED BY <2>2, <3>1, <3>2, KvTypes DEF Asking
  <2> QED BY <2>1, <2>2
<1>5. KvTypeOK'
  <2>1. entry' \in [count : 0 .. KvMax, reset : 0 .. KvSpan, kept : 0 .. KvSpan]
    BY <1>1, <1>2, KvTypes
  <2>2. asking' \in [Requests -> Asking]
    BY <1>4 DEF WriteLimit, PutCount
  <2>3. charges' \in [0 .. KvSpan -> 0 .. KvMax + 1]
    <3>1. \A a \in 0 .. KvSpan : charges[a] \in 0 .. KvMax + 1
      BY DEF KvIInv, KvTypeOK
    <3>2. KvMax \in Nat
      BY KvLimiterAssumption
    <3> QED BY <3>1, <3>2 DEF WriteLimit, PutCount
  <2> QED BY <1>3, <2>1, <2>2, <2>3 DEF KvTypeOK
<1>6. CountedInv'
  <2>1. SUFFICES ASSUME entry'.reset > 0, ~passed'.raced PROVE passed'.puts <= entry'.count
    BY DEF CountedInv, InWindow
  <2>2. entry'.count = next.count /\ entry'.reset = next.reset
    BY <1>2
  <2>3. CASE asking[c].opens
    BY <1>1, <1>3, <2>1, <2>2, <2>3, KvTypes
  <2>4. CASE ~asking[c].opens
    <3>1. ~asking[c].stale /\ ~passed.raced /\ passed.puts < next.count /\ passed'.puts <= passed.puts + 1
      BY <1>1, <1>3, <2>1, <2>2, <2>4, KvTypes
    <3> QED BY <1>1, <1>3, <2>2, <3>1, KvTypes
  <2> QED BY <2>3, <2>4, KvTypes
<1>7. WriterInv'
  BY <1>4 DEF KvIInv, WriterInv
<1> QED BY <1>5, <1>6, <1>7 DEF KvIInv

\* Time passes for the entry and for what is about to be written.
LEMMA KvTickStep ==
  ASSUME KvIInv, KvTick
  PROVE  KvIInv'
<1>1. UNCHANGED passed
  BY DEF KvTick
<1>2. /\ entry' \in [count : 0 .. KvMax, reset : 0 .. KvSpan, kept : 0 .. KvSpan]
      /\ InWindow' => InWindow /\ entry'.count = entry.count
  <2>1. CASE entry.kept <= 1
    BY <2>1, KvTypes DEF KvTick, Absent, InWindow
  <2>2. CASE ~(entry.kept <= 1)
    <3>1. entry' = [count |-> entry.count, reset |-> Minus(entry.reset), kept |-> entry.kept - 1]
      BY <2>2 DEF KvTick
    <3> QED BY <2>2, <3>1, KvTypes DEF Minus, InWindow
  <2> QED BY <2>1, <2>2
<1>3. ASSUME NEW c \in Requests
      PROVE  /\ asking'[c] \in Asking
             /\ asking'[c].pc = asking[c].pc /\ asking'[c].opens = asking[c].opens
             /\ asking'[c].stale = asking[c].stale
             /\ asking'[c].next.count = asking[c].next.count
             /\ asking'[c].next.reset > 0 => asking[c].next.reset > 0
  <2> DEFINE next == [asking[c].next EXCEPT !.reset = Minus(asking[c].next.reset)]
  <2>1. asking'[c] = [asking[c] EXCEPT !.next = next]
    BY KvTypes DEF KvTick, Asking
  <2>2. /\ next \in [count : Nat, reset : 0 .. KvSpan] /\ next.count = asking[c].next.count
        /\ next.reset > 0 => asking[c].next.reset > 0
    BY KvTypes DEF Asking, Minus
  <2> HIDE DEF next
  <2> QED BY <2>1, <2>2, KvTypes DEF Asking
<1>4. charges' \in [0 .. KvSpan -> 0 .. KvMax + 1]
  <2>1. charges' = [a \in 0 .. KvSpan |-> IF a = 0 THEN 0 ELSE charges[a - 1]]
    BY DEF KvTick
  <2>2. ASSUME NEW a \in 0 .. KvSpan, a # 0 PROVE charges[a - 1] \in 0 .. KvMax + 1
    <3>1. a - 1 \in 0 .. KvSpan
      BY <2>2, KvTypes
    <3> QED BY <3>1 DEF KvIInv, KvTypeOK
  <2>3. 0 \in 0 .. KvMax + 1
    BY KvTypes
  <2> QED BY <2>1, <2>2, <2>3
<1>5. KvTypeOK'
  BY <1>1, <1>2, <1>3, <1>4 DEF KvTick, KvIInv, KvTypeOK
<1>6. CountedInv' /\ WriterInv'
  BY <1>1, <1>2, <1>3 DEF KvIInv, CountedInv, WriterInv
<1> QED BY <1>5, <1>6 DEF KvIInv

LEMMA KvStarts == KvInit => KvIInv
<1> SUFFICES ASSUME KvInit PROVE KvIInv
  OBVIOUS
<1>1. Free \in Asking /\ Free.pc = "idle"
  BY KvLimiterAssumption DEF Free, Asking
<1>2. KvTypeOK
  <2>1. entry \in [count : 0 .. KvMax, reset : 0 .. KvSpan, kept : 0 .. KvSpan]
    BY KvLimiterAssumption DEF KvInit, Absent
  <2>2. passed \in [puts : 0 .. KvMax + 1, raced : BOOLEAN]
    BY KvLimiterAssumption DEF KvInit
  <2>3. charges \in [0 .. KvSpan -> 0 .. KvMax + 1]
    BY KvLimiterAssumption DEF KvInit
  <2> QED BY <1>1, <2>1, <2>2, <2>3 DEF KvInit, KvTypeOK
<1>3. CountedInv /\ WriterInv
  BY <1>1 DEF KvInit, CountedInv, WriterInv, InWindow, Absent
<1> QED BY <1>2, <1>3 DEF KvIInv

LEMMA KvNextInv == KvIInv /\ [KvNext]_kvVars => KvIInv'
<1> SUFFICES ASSUME KvIInv, [KvNext]_kvVars PROVE KvIInv'
  OBVIOUS
<1>1. CASE UNCHANGED kvVars
  BY <1>1 DEF kvVars, KvIInv, KvTypeOK, CountedInv, WriterInv, InWindow
<1> QED BY <1>1, NotWritingStep, ReadLimitStep, WriteLimitStep, KvTickStep DEF KvNext

(***************************************************************************)
(* The types, the count and what is about to be written are one inductive  *)
(* invariant.                                                              *)
(***************************************************************************)
THEOREM KvInvariant == KvSpec => []KvIInv
BY KvStarts, KvNextInv, PTL DEF KvSpec

(***************************************************************************)
(* No more than the maximum is let through in a window that no put has     *)
(* raced in (rateLimit, signRateLimit, notifySubjectLimit).                *)
(***************************************************************************)
THEOREM KvLimitIsKept == KvSpec => []KvLimitHolds
<1>1. KvIInv => KvLimitHolds
  BY KvTypes DEF KvIInv, CountedInv, KvLimitHolds
<1> QED BY <1>1, KvInvariant, PTL

(***************************************************************************)
(* Nothing is counted that was not put: a request that has read the entry  *)
(* writes one more than the puts since that window began, and a put is     *)
(* added to those of every window that has not ended.                      *)
(***************************************************************************)
LEMMA EarnedStep ==
  ASSUME KvIInv, RefusalEarned, EarnedInv, [KvNext]_kvVars
  PROVE  RefusalEarned' /\ EarnedInv'
<1> DEFINE Grown(a) == IF charges[a] > KvMax THEN charges[a] ELSE charges[a] + 1
<1>0. /\ KvMax \in Nat \ {0} /\ KvSpan \in Nat \ {0}
      /\ \A a \in 0 .. KvSpan : charges[a] \in 0 .. KvMax + 1
      /\ \A r \in 0 .. KvSpan : KvSpan - r \in 0 .. KvSpan
  <2>1. KvMax \in Nat \ {0} /\ KvSpan \in Nat \ {0}
    BY KvLimiterAssumption
  <2>2. \A a \in 0 .. KvSpan : charges[a] \in 0 .. KvMax + 1
    BY DEF KvIInv, KvTypeOK
  <2>3. \A r \in 0 .. KvSpan : KvSpan - r \in 0 .. KvSpan
    BY <2>1
  <2> QED BY <2>1, <2>2, <2>3
<1>1. CASE UNCHANGED kvVars
  BY <1>1 DEF kvVars, RefusalEarned, EarnedInv, InWindow, ChargedSince
<1>2. ASSUME NEW c \in Requests,
             AskLimit(c) \/ RefuseOver(c) \/ ReadLimit(c) \/ LimitBusy(c) \/ LimitFails(c)
      PROVE  RefusalEarned' /\ EarnedInv'
  <2>1. UNCHANGED <<entry, charges, passed>>
    BY <1>2 DEF AskLimit, RefuseOver, ReadLimit, LimitBusy, LimitFails
  <2>2. RefusalEarned'
    BY <2>1 DEF RefusalEarned, InWindow, ChargedSince
  <2>3. \A d \in Requests \ {c} : asking'[d] = asking[d]
    BY <1>2 DEF AskLimit, RefuseOver, ReadLimit, LimitBusy, LimitFails, KvIInv, KvTypeOK
  <2>4. CASE ReadLimit(c)
    <3>1. asking'[c].next = Charged
      BY <2>4 DEF ReadLimit, KvIInv, KvTypeOK
    <3>2. Charged.reset > 0 => Charged.count <= charges[KvSpan - Charged.reset] + 1
      <4>1. CASE InWindow
        <5>1. Charged.count = entry.count + 1 /\ Charged.reset = entry.reset
          BY <4>1 DEF Charged
        <5>2. entry.count <= charges[KvSpan - entry.reset]
          BY <4>1 DEF RefusalEarned, ChargedSince
        <5>3. charges[KvSpan - entry.reset] \in Nat
          BY <1>0, KvTypes
        <5> QED BY <5>1, <5>2, <5>3, KvTypes
      <4>2. CASE ~InWindow
        <5>1. Charged.count = 1 /\ Charged.reset = KvSpan
          BY <4>2 DEF Charged
        <5>2. charges[KvSpan - KvSpan] \in Nat
          BY <1>0
        <5> QED BY <5>1, <5>2
      <4> QED BY <4>1, <4>2
    <3> QED BY <2>1, <2>2, <2>3, <3>1, <3>2 DEF EarnedInv
  <2>5. CASE ~ReadLimit(c)
    <3>1. asking'[c].pc # "writing"
      <4>1. CASE AskLimit(c)
        BY <4>1, KvTypes DEF AskLimit, KvIInv, KvTypeOK, Asking
      <4>2. CASE RefuseOver(c) \/ LimitFails(c)
        <5>1. asking'[c] = Free
          BY <4>2 DEF RefuseOver, LimitFails, KvIInv, KvTypeOK
        <5> QED BY <5>1 DEF Free
      <4>3. CASE LimitBusy(c)
        <5>1. \/ asking'[c] = Free
              \/ asking'[c] = [Free EXCEPT !.pc = "reading", !.try = asking[c].try + 1]
          BY <4>3 DEF LimitBusy, KvIInv, KvTypeOK
        <5>2. Free.pc = "idle" /\ \A n : [Free EXCEPT !.pc = "reading", !.try = n].pc = "reading"
          BY DEF Free
        <5> QED BY <5>1, <5>2
      <4> QED BY <1>2, <2>5, <4>1, <4>2, <4>3
    <3> QED BY <2>1, <2>2, <2>3, <3>1 DEF EarnedInv
  <2> QED BY <2>4, <2>5
<1>3. ASSUME NEW c \in Requests, WriteLimit(c)
      PROVE  RefusalEarned' /\ EarnedInv'
  <2>1. /\ entry'.count = asking[c].next.count /\ entry'.reset = asking[c].next.reset
        /\ \A a \in 0 .. KvSpan : charges'[a] = Grown(a)
    BY <1>3 DEF WriteLimit, PutCount
  <2>2. asking[c].next.count \in 0 .. KvMax /\ asking[c].next.reset \in 0 .. KvSpan
    BY <1>3, KvTypes DEF WriteLimit, KvIInv, WriterInv
  <2>3. \A a \in 0 .. KvSpan : Grown(a) >= charges[a]
    BY <1>0
  <2>4. RefusalEarned'
    <3> SUFFICES ASSUME entry'.reset > 0 PROVE entry'.count <= charges'[KvSpan - entry'.reset]
      BY DEF RefusalEarned, InWindow, ChargedSince
    <3> DEFINE a == KvSpan - asking[c].next.reset
    <3>1. asking[c].next.count <= charges[a] + 1
      BY <1>3, <2>1 DEF WriteLimit, EarnedInv
    <3>2. a \in 0 .. KvSpan /\ charges[a] \in 0 .. KvMax + 1
      BY <1>0, <2>2
    <3> HIDE DEF a
    <3>3. charges'[a] = IF charges[a] > KvMax THEN charges[a] ELSE charges[a] + 1
      BY <2>1, <3>2
    <3>4. asking[c].next.count <= charges'[a]
      BY <1>0, <2>2, <3>1, <3>2, <3>3
    <3> QED BY <2>1, <3>4 DEF a
  <2>5. ASSUME NEW d \in Requests, asking'[d].pc = "writing", asking'[d].next.reset > 0
        PROVE  asking'[d].next.count <= charges'[KvSpan - asking'[d].next.reset] + 1
    <3>1. d # c /\ asking[d].pc = "writing" /\ asking'[d].next = asking[d].next
      <4>1. CASE d = c
        BY <1>3, <2>5, <4>1, KvTypes DEF WriteLimit, PutCount
      <4>2. CASE d # c
        BY <1>3, <2>5, <4>2, KvTypes DEF WriteLimit, PutCount, Asking
      <4> QED BY <4>1, <4>2
    <3> DEFINE a == KvSpan - asking[d].next.reset
    <3>2. asking[d].next.count <= charges[a] + 1
      BY <2>5, <3>1 DEF EarnedInv
    <3>3. a \in 0 .. KvSpan /\ charges[a] \in 0 .. KvMax + 1
      BY <1>0, KvTypes
    <3>4. charges'[a] \in Nat /\ charges'[a] >= charges[a] /\ asking[d].next.count \in Nat
      BY <1>0, <2>1, <3>3, KvTypes
    <3> HIDE DEF a
    <3>5. asking[d].next.count <= charges'[a] + 1
      BY <3>2, <3>3, <3>4
    <3> QED BY <3>1, <3>5 DEF a
  <2> QED BY <2>4, <2>5 DEF EarnedInv
<1>4. CASE KvTick
  <2>1. \A a \in 0 .. KvSpan : charges'[a] = IF a = 0 THEN 0 ELSE charges[a - 1]
    BY <1>4 DEF KvTick
  <2>2. ASSUME NEW r \in 0 .. KvSpan, r > 0
        PROVE  charges'[KvSpan - (r - 1)] = charges[KvSpan - r]
    <3>1. KvSpan - (r - 1) \in 0 .. KvSpan /\ KvSpan - (r - 1) # 0
          /\ (KvSpan - (r - 1)) - 1 = KvSpan - r
      BY <1>0, <2>2
    <3> QED BY <2>1, <3>1
  <2>3. RefusalEarned'
    <3> SUFFICES ASSUME entry'.kept > 0, entry'.reset > 0
                 PROVE entry'.count <= charges'[KvSpan - entry'.reset]
      BY DEF RefusalEarned, InWindow, ChargedSince
    <3>1. ~(entry.kept <= 1)
      BY <1>4 DEF KvTick, Absent
    <3>2. entry'.count = entry.count /\ entry'.reset = Minus(entry.reset)
      BY <1>4, <3>1 DEF KvTick
    <3>3. entry.reset > 0 /\ entry'.reset = entry.reset - 1 /\ InWindow
      BY <3>1, <3>2, KvTypes DEF Minus, InWindow
    <3> QED BY <2>2, <3>2, <3>3, KvTypes DEF RefusalEarned, ChargedSince
  <2>4. ASSUME NEW c \in Requests, asking'[c].pc = "writing", asking'[c].next.reset > 0
        PROVE  asking'[c].next.count <= charges'[KvSpan - asking'[c].next.reset] + 1
    <3>1. asking'[c] = [asking[c] EXCEPT !.next.reset = Minus(asking[c].next.reset)]
      BY <1>4 DEF KvTick
    <3>2. /\ asking[c].pc = "writing" /\ asking'[c].next.count = asking[c].next.count
          /\ asking'[c].next.reset = Minus(asking[c].next.reset)
      BY <2>4, <3>1, KvTypes DEF Asking
    <3>3. asking[c].next.reset > 0 /\ asking'[c].next.reset = asking[c].next.reset - 1
      BY <2>4, <3>2, KvTypes DEF Minus
    <3>4. charges'[KvSpan - asking'[c].next.reset] = charges[KvSpan - asking[c].next.reset]
      BY <2>2, <3>3, KvTypes
    <3> QED BY <3>2, <3>3, <3>4 DEF EarnedInv
  <2> QED BY <2>3, <2>4 DEF EarnedInv
<1> QED BY <1>1, <1>2, <1>3, <1>4 DEF KvNext

(***************************************************************************)
(* No client is refused before it has made KvMax requests in the window    *)
(* (rateLimit, signRateLimit, notifySubjectLimit, notifyRateLimit).        *)
(***************************************************************************)
THEOREM KvRefusalEarned == KvSpec => []RefusalEarned
<1>1. KvInit => RefusalEarned /\ EarnedInv
  BY DEF KvInit, RefusalEarned, EarnedInv, InWindow, Absent, Free
<1> QED BY <1>1, EarnedStep, KvInvariant, PTL DEF KvSpec

-----------------------------------------------------------------------------
(* The verification of route assertions.                                   *)

\* What the types say of the parts, as the steps use them.
LEMMA AssertTypes ==
  ASSUME AssertIInv
  PROVE  /\ MaxTime \in Nat /\ AssertTTL \in Nat \ {0} /\ ReplayTTL \in Nat /\ Ahead \in Nat
         /\ now \in Nat /\ now <= MaxTime
         /\ \A a \in issued : /\ a \in Assertions /\ a.challenge \in Challenges
                              /\ a.iat \in Nat /\ a.exp \in Nat /\ accepted[a] \in 0 .. 2
         /\ \A c \in Challenges : marker[c] \in Nat
         /\ \A v \in Verifies : verify[v] \in Verify /\ verify[v].ttl \in Nat
         /\ NoVerify \in Verify /\ NoVerify.pc = "idle"
BY AssertionAssumption, ClockAssumption
   DEF AssertIInv, AssertTypeOK, Assertions, Verify, NoVerify

(***************************************************************************)
(* One verification becomes rec, of which the invariant holds, and nothing *)
(* is put or signed.                                                       *)
(***************************************************************************)
LEMMA VerifyStep ==
  ASSUME AssertIInv, NEW v \in Verifies, NEW rec \in Verify,
         verify' = [verify EXCEPT ![v] = rec],
         UNCHANGED <<now, issued, marker, accepted, raced>>,
         held' \in [Isolates -> SUBSET Challenges],
         rec.pc # "idle" => rec.assertion \in issued /\ rec.isolate \in Isolates,
         Lasts => Outlasting(rec) /\ First(rec)
  PROVE  AssertIInv'
<1>1. ASSUME NEW w \in Verifies PROVE verify'[w] = IF w = v THEN rec ELSE verify[w]
  BY DEF AssertIInv, AssertTypeOK
<1>2. verify' \in [Verifies -> Verify]
  BY DEF AssertIInv, AssertTypeOK
<1>3. AssertTypeOK'
  BY <1>1, <1>2 DEF AssertIInv, AssertTypeOK, Verify
<1>4. WindowInv' /\ VerifiedOnce' /\ (Lasts => MarkerInv')
  BY DEF AssertIInv, WindowInv, VerifiedOnce, MarkerInv, Spent
<1>5. ASSUME Lasts, NEW w \in Verifies PROVE Outlasting(verify[w])' /\ First(verify[w])'
  BY <1>1, <1>5 DEF AssertIInv, Outlasting, First, Spent
<1> QED BY <1>3, <1>4, <1>5 DEF AssertIInv, Lasts

\* A verification ends, and nothing is put.
LEMMA VerifyEndsStep ==
  ASSUME AssertIInv, NEW v \in Verifies, verify[v].pc # "idle", VerifyEnds(v),
         UNCHANGED <<now, issued, marker, accepted, raced>>
  PROVE  AssertIInv'
<1>1. verify[v].isolate \in Isolates /\ held' \in [Isolates -> SUBSET Challenges]
  BY DEF VerifyEnds, AssertIInv, AssertTypeOK
<1>2. Outlasting(NoVerify) /\ First(NoVerify)
  BY AssertTypes DEF Outlasting, First
<1> QED BY <1>1, <1>2, AssertTypes, VerifyStep DEF VerifyEnds

\* An assertion is signed: it is new, or it was signed before, and not spent by that.
LEMMA RouteAssertStep ==
  ASSUME AssertIInv, NEW c \in Challenges, NEW ahead \in 0 .. Ahead, RouteAssert(c, now + ahead)
  PROVE  AssertIInv'
<1> DEFINE clock == now + ahead
           a == [challenge |-> c, iat |-> clock,
                 exp |-> IF ChallengeExp[c] < clock + AssertTTL THEN ChallengeExp[c] ELSE clock + AssertTTL]
<1>1. /\ issued' = issued \cup {a}
      /\ accepted' = [b \in issued \cup {a} |-> IF b \in issued THEN accepted[b] ELSE 0]
      /\ UNCHANGED <<now, marker, held, verify, raced>>
  BY DEF RouteAssert
<1>2. /\ clock \in 0 .. MaxTime + Ahead /\ clock <= now + Ahead
      /\ ChallengeExp[c] \in Nat
  BY AssertTypes, AssertionAssumption
<1>3. /\ a \in Assertions /\ a.exp <= a.iat + AssertTTL /\ a.iat <= now + Ahead
  BY <1>2, AssertTypes DEF Assertions
<1> HIDE DEF a, clock
<1>4. ASSUME NEW b \in issued PROVE accepted'[b] = accepted[b] /\ b \in issued'
  BY <1>1
<1>5. ASSUME NEW b \in issued', b \notin issued PROVE accepted'[b] = 0 /\ b = a
  BY <1>1, <1>5
<1>6. AssertTypeOK'
  <2>1. issued' \subseteq Assertions'
    BY <1>1, <1>3 DEF AssertIInv, AssertTypeOK, Assertions
  <2>2. accepted' \in [issued' -> 0 .. 2]
    BY <1>1, AssertTypes
  <2>3. verify' \in [Verifies -> Verify']
    BY <1>1, AssertTypes DEF AssertIInv, AssertTypeOK, Verify
  <2> QED BY <1>1, <2>1, <2>2, <2>3 DEF AssertIInv, AssertTypeOK
<1>7. WindowInv'
  BY <1>1, <1>3 DEF AssertIInv, WindowInv
<1>8. VerifiedOnce' /\ (Lasts => MarkerInv')
  BY <1>1, <1>4, <1>5 DEF AssertIInv, VerifiedOnce, MarkerInv, Spent
<1>9. ASSUME Lasts, NEW v \in Verifies PROVE Outlasting(verify[v])' /\ First(verify[v])'
  <2>1. Outlasting(verify[v])'
    BY <1>1, <1>9 DEF AssertIInv, Outlasting
  <2>2. First(verify[v])'
    <3>1. verify[v].pc = "putting" => verify[v].assertion \in issued
      BY DEF AssertIInv, AssertTypeOK
    <3> QED BY <1>1, <1>4, <1>5, <1>9, <3>1 DEF AssertIInv, First, Spent
  <2> QED BY <2>1, <2>2
<1> QED BY <1>1, <1>6, <1>7, <1>8, <1>9 DEF AssertIInv, Lasts

\* A verification begins: what it is to remember outlasts its assertion.
LEMMA VerifyBeginStep ==
  ASSUME AssertIInv, NEW v \in Verifies, NEW a \in issued, NEW i \in Isolates, VerifyBegin(v, a, i)
  PROVE  AssertIInv'
<1> DEFINE rec == [pc |-> "looking", assertion |-> a, isolate |-> i, ttl |-> RememberFor(a),
                  late |-> FALSE, overtaken |-> FALSE]
<1>1. /\ verify' = [verify EXCEPT ![v] = rec]
      /\ UNCHANGED <<now, issued, marker, accepted, raced>>
  BY DEF VerifyBegin
<1>2. held' \in [Isolates -> SUBSET Challenges]
  BY AssertTypes DEF VerifyBegin, AssertIInv, AssertTypeOK
<1>3. RememberFor(a) \in Nat /\ (Lasts => a.exp <= now + RememberFor(a))
  BY AssertTypes DEF RememberFor, Lasts, AssertIInv, WindowInv
<1>4. rec \in Verify /\ rec.pc = "looking" /\ rec.assertion = a /\ rec.isolate = i
  BY <1>3 DEF Verify
<1>5. Lasts => Outlasting(rec) /\ First(rec)
  BY <1>3 DEF Outlasting, First
<1> HIDE DEF rec
<1>6. PICK new \in Verify : new = rec
  BY <1>4
<1> QED BY <1>1, <1>2, <1>4, <1>5, <1>6, VerifyStep

\* No marker was found: what was accepted of this challenge is out of its time.
LEMMA NotReplayedStep ==
  ASSUME AssertIInv, NEW v \in Verifies, NotReplayed(v)
  PROVE  AssertIInv'
<1> DEFINE rec == [verify[v] EXCEPT !.pc = "putting", !.late = verify[v].assertion.exp <= now]
<1>1. /\ verify' = [verify EXCEPT ![v] = rec]
      /\ UNCHANGED <<now, issued, marker, held, accepted, raced>>
  <2>1. verify' = [verify EXCEPT ![v].pc = "putting", ![v].late = verify[v].assertion.exp <= now]
    BY DEF NotReplayed
  <2> QED BY <2>1 DEF NotReplayed, AssertIInv, AssertTypeOK
<1>2. /\ verify[v].assertion \in issued /\ verify[v].isolate \in Isolates
      /\ marker[verify[v].assertion.challenge] <= now /\ verify[v].pc = "looking"
  BY DEF NotReplayed, AssertIInv, AssertTypeOK
<1>3. /\ rec \in Verify /\ rec.pc = "putting" /\ rec.assertion = verify[v].assertion
      /\ rec.isolate = verify[v].isolate /\ rec.ttl = verify[v].ttl
      /\ ~rec.late => ~(verify[v].assertion.exp <= now)
  <2>1. (verify[v].assertion.exp <= now) \in BOOLEAN
    BY <1>2, AssertTypes
  <2> QED BY <2>1, AssertTypes DEF Verify
<1> HIDE DEF rec
<1>4. ASSUME Lasts PROVE Outlasting(rec) /\ First(rec)
  <2>1. Outlasting(rec)
    BY <1>2, <1>3, <1>4 DEF AssertIInv, Outlasting
  <2>2. ASSUME NEW a \in issued, a.challenge = verify[v].assertion.challenge, Spent(a)
        PROVE  a.exp <= now
    BY <1>2, <1>4, <2>2, AssertTypes DEF AssertIInv, MarkerInv
  <2> QED BY <1>2, <1>3, <2>1, <2>2 DEF First
<1>5. PICK new \in Verify : new = rec
  BY <1>3
<1>6. held' \in [Isolates -> SUBSET Challenges]
  BY <1>1 DEF AssertIInv, AssertTypeOK
<1> QED BY <1>1, <1>2, <1>3, <1>4, <1>5, <1>6, VerifyStep

(***************************************************************************)
(* A put takes effect.  What was accepted of the challenge before is out   *)
(* of its time, or the challenge has raced; the assertion itself may be    *)
(* accepted now, if it was not yet out of its time when it was looked up.  *)
(***************************************************************************)
LEMMA PutMarkerStep ==
  ASSUME AssertIInv, NEW v \in Verifies, verify[v].pc = "putting", PutMarkerOf(v),
         UNCHANGED <<now, issued>>, accepted' \in [issued -> 0 .. 2],
         \A b \in issued :
           \/ accepted'[b] = accepted[b]
           \/ b = verify[v].assertion /\ ~verify[v].late /\ accepted'[b] <= accepted[b] + 1
  PROVE  AssertIInv'
<1> DEFINE a == verify[v].assertion
           c == a.challenge
<1>1. /\ marker' = [marker EXCEPT ![c] = now + verify[v].ttl]
      /\ held' = [held EXCEPT ![verify[v].isolate] = @ \ {c}]
      /\ raced' = IF verify[v].overtaken THEN raced \cup {c} ELSE raced
  BY DEF PutMarkerOf
<1>2. a \in issued /\ c \in Challenges /\ verify[v].isolate \in Isolates
  BY AssertTypes DEF AssertIInv, AssertTypeOK
<1>3. ASSUME NEW w \in Verifies
      PROVE  /\ verify'[w] \in Verify
             /\ w = v => verify'[w].pc = "idle"
             /\ w # v => /\ verify'[w].pc = verify[w].pc /\ verify'[w].assertion = verify[w].assertion
                         /\ verify'[w].isolate = verify[w].isolate
                         /\ verify'[w].ttl = verify[w].ttl /\ verify'[w].late = verify[w].late
                         /\ verify'[w].pc = "putting" /\ ~verify'[w].overtaken
                              => ~verify[w].overtaken /\ verify[w].assertion.challenge # c
  <2>1. CASE w = v
    BY <2>1, AssertTypes DEF PutMarkerOf
  <2>2. CASE w # v
    <3> DEFINE late == verify[w].overtaken \/ (verify[w].pc = "putting" /\ verify[w].assertion.challenge = c)
    <3>1. verify'[w] = [verify[w] EXCEPT !.overtaken = late]
      BY <2>2 DEF PutMarkerOf
    <3>2. late \in BOOLEAN
          /\ (verify[w].pc = "putting" /\ ~late => ~verify[w].overtaken /\ verify[w].assertion.challenge # c)
      BY AssertTypes DEF Verify
    <3> HIDE DEF late, a, c
    <3> QED BY <2>2, <3>1, <3>2, AssertTypes DEF Verify
  <2> QED BY <2>1, <2>2
<1>4. AssertTypeOK'
  <2>1. marker' \in [Challenges -> Nat] /\ held' \in [Isolates -> SUBSET Challenges]
    BY <1>1, <1>2, AssertTypes DEF AssertIInv, AssertTypeOK
  <2>2. verify' \in [Verifies -> Verify]
    BY <1>3 DEF PutMarkerOf
  <2>3. ASSUME NEW w \in Verifies, verify'[w].pc # "idle"
        PROVE  verify'[w].assertion \in issued /\ verify'[w].isolate \in Isolates
    BY <1>3, <2>3 DEF AssertIInv, AssertTypeOK
  <2>4. raced' \subseteq Challenges
    BY <1>1, <1>2 DEF AssertIInv, AssertTypeOK
  <2> QED BY <2>1, <2>2, <2>3, <2>4 DEF AssertIInv, AssertTypeOK, Assertions, Verify
<1>5. ASSUME NEW b \in issued, b.challenge # c
      PROVE  /\ accepted'[b] = accepted[b] /\ marker'[b.challenge] = marker[b.challenge]
             /\ b.challenge \in raced' <=> b.challenge \in raced
  BY <1>1, <1>2, <1>5, AssertTypes DEF AssertIInv, AssertTypeOK
<1>6. /\ c \notin raced' => ~verify[v].overtaken /\ c \notin raced
      /\ marker'[c] = now + verify[v].ttl
  BY <1>1, <1>2 DEF AssertIInv, AssertTypeOK
<1>7. ASSUME Lasts, NEW b \in issued, b.challenge = c, accepted[b] >= 1, c \notin raced'
      PROVE  b.exp <= now
  BY <1>2, <1>6, <1>7 DEF AssertIInv, First, Spent
<1>8. Lasts => MarkerInv'
  <2>1. SUFFICES ASSUME Lasts, NEW b \in issued, accepted'[b] >= 1, b.challenge \notin raced'
                 PROVE  b.exp <= now \/ b.exp <= marker'[b.challenge]
    BY DEF MarkerInv, Spent
  <2>2. CASE b.challenge # c
    BY <1>5, <2>1, <2>2 DEF AssertIInv, MarkerInv, Spent
  <2>3. CASE b.challenge = c /\ accepted[b] >= 1
    BY <1>7, <2>1, <2>3
  <2>4. CASE b.challenge = c /\ ~(accepted[b] >= 1)
    <3>1. b = a
      BY <2>1, <2>4
    <3>2. a.exp <= now + verify[v].ttl
      BY <2>1 DEF AssertIInv, Outlasting
    <3> QED BY <1>6, <3>1, <3>2
  <2> QED BY <2>2, <2>3, <2>4
<1>9. VerifiedOnce'
  <2>1. SUFFICES ASSUME Lasts, NEW b \in issued, b.challenge \notin raced' PROVE accepted'[b] <= 1
    BY DEF VerifiedOnce, Lasts
  <2>2. CASE accepted'[b] = accepted[b]
    BY <1>1, <2>1, <2>2 DEF AssertIInv, VerifiedOnce
  <2>3. CASE accepted'[b] # accepted[b]
    <3>1. b = a /\ ~verify[v].late /\ accepted'[b] <= accepted[b] + 1
      BY <2>3
    <3>2. ~Spent(a)
      BY <1>6, <2>1, <3>1 DEF AssertIInv, First
    <3>3. accepted[b] = 0
      BY <1>6, <2>1, <3>1, <3>2, AssertTypes DEF Spent
    <3> QED BY <3>1, <3>3
  <2> QED BY <2>2, <2>3
<1>10. ASSUME Lasts, NEW w \in Verifies PROVE Outlasting(verify[w])' /\ First(verify[w])'
  <2>1. Outlasting(verify[w])'
    BY <1>3, <1>10 DEF AssertIInv, Outlasting
  <2>2. First(verify[w])'
    <3>1. ASSUME verify'[w].pc = "putting", ~verify'[w].overtaken
          PROVE  /\ w # v /\ verify'[w].assertion = verify[w].assertion /\ verify[w].pc = "putting"
                 /\ verify'[w].late = verify[w].late /\ ~verify[w].overtaken
                 /\ verify[w].assertion.challenge # c /\ verify[w].assertion \in issued
      BY <1>3, <3>1 DEF AssertIInv, AssertTypeOK
    <3>2. First(verify[w])
      BY <1>10 DEF AssertIInv
    <3>3. ASSUME verify'[w].pc = "putting", ~verify'[w].overtaken, NEW b \in issued,
                 b.challenge = verify'[w].assertion.challenge,
                 accepted'[b] >= 1, b.challenge \notin raced'
          PROVE  b.exp <= now
      BY <1>5, <3>1, <3>2, <3>3 DEF First, Spent
    <3>4. ASSUME verify'[w].pc = "putting", ~verify'[w].overtaken, ~verify'[w].late
          PROVE  ~(/\ accepted'[verify'[w].assertion] >= 1
                   /\ verify'[w].assertion.challenge \notin raced')
      BY <1>5, <3>1, <3>2, <3>4 DEF First, Spent
    <3> QED BY <3>3, <3>4 DEF First, Spent
  <2> QED BY <2>1, <2>2
<1>11. WindowInv'
  BY DEF AssertIInv, WindowInv
<1> QED BY <1>4, <1>8, <1>9, <1>10, <1>11 DEF AssertIInv, Lasts

\* An isolate is evicted with its verifications and its locks.
LEMMA EvictVerifierStep ==
  ASSUME AssertIInv, NEW i \in Isolates, EvictVerifier(i)
  PROVE  AssertIInv'
<1>1. ASSUME NEW v \in Verifies
      PROVE  verify'[v] \in Verify /\ (verify'[v] = verify[v] \/ verify'[v].pc = "idle")
  BY AssertTypes DEF EvictVerifier
<1>2. /\ UNCHANGED <<now, issued, marker, accepted, raced>>
      /\ verify' \in [Verifies -> Verify]
      /\ held' \in [Isolates -> SUBSET Challenges]
  BY <1>1 DEF EvictVerifier, AssertIInv, AssertTypeOK
<1>3. AssertTypeOK'
  BY <1>1, <1>2 DEF AssertIInv, AssertTypeOK, Assertions, Verify
<1>4. WindowInv' /\ VerifiedOnce' /\ (Lasts => MarkerInv')
  BY <1>2 DEF AssertIInv, WindowInv, VerifiedOnce, MarkerInv, Spent
<1>5. ASSUME Lasts, NEW v \in Verifies PROVE Outlasting(verify[v])' /\ First(verify[v])'
  BY <1>1, <1>2, <1>5 DEF AssertIInv, Outlasting, First, Spent
<1> QED BY <1>2, <1>3, <1>4, <1>5 DEF AssertIInv, Lasts

\* Time passes: what is out of its time stays so.
LEMMA AssertTickStep ==
  ASSUME AssertIInv, AssertTick
  PROVE  AssertIInv'
<1>1. now' = now + 1 /\ now' \in 0 .. MaxTime /\ UNCHANGED assertVars
  BY AssertTypes DEF AssertTick, Advance
<1>2. AssertTypeOK'
  BY <1>1 DEF assertVars, AssertIInv, AssertTypeOK, Assertions, Verify
<1>3. WindowInv' /\ VerifiedOnce' /\ (Lasts => MarkerInv')
  BY <1>1, AssertTypes DEF assertVars, AssertIInv, WindowInv, VerifiedOnce, MarkerInv, Spent
<1>4. ASSUME Lasts, NEW v \in Verifies PROVE Outlasting(verify[v])' /\ First(verify[v])'
  <2>1. verify[v].pc # "idle" => verify[v].assertion \in issued
    BY DEF AssertIInv, AssertTypeOK
  <2>2. Outlasting(verify[v])'
    BY <1>1, <1>4, <2>1, AssertTypes DEF assertVars, AssertIInv, Outlasting
  <2>3. First(verify[v])'
    BY <1>1, <1>4, AssertTypes DEF assertVars, AssertIInv, First, Spent
  <2> QED BY <2>2, <2>3
<1> QED BY <1>1, <1>2, <1>3, <1>4 DEF AssertIInv, Lasts

\* Every step keeps the invariant.
LEMMA AssertNextInv == AssertIInv /\ [AssertNext]_<<now, assertVars>> => AssertIInv'
<1> SUFFICES ASSUME AssertIInv, [AssertNext]_<<now, assertVars>> PROVE AssertIInv'
  OBVIOUS
<1>1. ASSUME NEW v \in Verifies, Replayed(v) PROVE AssertIInv'
  BY <1>1, VerifyEndsStep DEF Replayed
<1>2. ASSUME NEW v \in Verifies, VerifyAccept(v) PROVE AssertIInv'
  <2> DEFINE a == verify[v].assertion
  <2>1. /\ accepted' = [accepted EXCEPT ![a] = IF ~verify[v].late /\ accepted[a] < 2
                                                THEN accepted[a] + 1 ELSE accepted[a]]
        /\ verify[v].pc = "putting" /\ PutMarkerOf(v) /\ UNCHANGED <<now, issued>>
    BY <1>2 DEF VerifyAccept
  <2>2. a \in issued /\ accepted[a] \in 0 .. 2 /\ accepted \in [issued -> 0 .. 2]
    BY <2>1, AssertTypes DEF AssertIInv, AssertTypeOK
  <2>3. accepted' \in [issued -> 0 .. 2]
    BY <2>1, <2>2
  <2>4. ASSUME NEW b \in issued
        PROVE  \/ accepted'[b] = accepted[b]
               \/ b = a /\ ~verify[v].late /\ accepted'[b] <= accepted[b] + 1
    BY <2>1, <2>2
  <2> QED BY <2>1, <2>3, <2>4, PutMarkerStep
<1>3. ASSUME NEW v \in Verifies, VerifyFails(v) PROVE AssertIInv'
  <2>1. CASE VerifyEnds(v) /\ UNCHANGED <<marker, raced>>
    BY <1>3, <2>1, VerifyEndsStep DEF VerifyFails
  <2>2. CASE verify[v].pc = "putting" /\ PutMarkerOf(v)
    <3>1. accepted' \in [issued -> 0 .. 2] /\ \A b \in issued : accepted'[b] = accepted[b]
      BY <1>3 DEF VerifyFails, AssertIInv, AssertTypeOK
    <3> QED BY <1>3, <2>2, <3>1, PutMarkerStep DEF VerifyFails
  <2> QED BY <1>3, <2>1, <2>2 DEF VerifyFails
<1>4. CASE UNCHANGED <<now, assertVars>>
  BY <1>4 DEF assertVars, AssertIInv, AssertTypeOK, Assertions, Verify, WindowInv, MarkerInv,
              Outlasting, First, Spent, VerifiedOnce, Lasts
<1> QED BY <1>1, <1>2, <1>3, <1>4, RouteAssertStep, VerifyBeginStep, NotReplayedStep,
           EvictVerifierStep, AssertTickStep DEF AssertNext

LEMMA AssertStarts == InitClock /\ AssertInit => AssertIInv
<1> SUFFICES ASSUME InitClock, AssertInit PROVE AssertIInv
  OBVIOUS
<1>1. now = 0 /\ now \in 0 .. MaxTime
  BY ClockAssumption DEF InitClock
<1>2. NoVerify \in Verify /\ NoVerify.pc = "idle"
  BY DEF NoVerify, Verify
<1>3. AssertTypeOK
  BY <1>2 DEF AssertInit, AssertTypeOK
<1>4. WindowInv /\ MarkerInv /\ VerifiedOnce
  BY DEF AssertInit, WindowInv, MarkerInv, VerifiedOnce
<1>5. \A v \in Verifies : Outlasting(verify[v]) /\ First(verify[v])
  BY <1>2 DEF AssertInit, Outlasting, First
<1> QED BY <1>1, <1>3, <1>4, <1>5 DEF AssertIInv

(***************************************************************************)
(* The types, how long markers last and who is first at a challenge are    *)
(* one inductive invariant.                                                *)
(***************************************************************************)
THEOREM AssertInvariant == AssertSpec => []AssertIInv
BY AssertStarts, AssertNextInv, PTL DEF AssertSpec

(***************************************************************************)
(* Where the marker is meant to last, an assertion is accepted once, until *)
(* verifications of its challenge overlap in two isolates or it runs out   *)
(* between its check and the answer of KV (handleRouteAssertVerify).       *)
(***************************************************************************)
THEOREM AssertionVerifiedOnce == AssertSpec => []VerifiedOnce
<1>1. AssertIInv => VerifiedOnce
  BY DEF AssertIInv
<1> QED BY <1>1, AssertInvariant, PTL

-----------------------------------------------------------------------------
(* The inbox: what its steps keep.                                         *)

\* Where a nonce is claimed in KV alone, and while its claim has the lock.
InKv == {"looking", "claiming", "owning", "settling"}
Marking(q) == q.pc \in {"marking", "clearing"} /\ q.at # Excused

\* A request in flight has a letter and does not outlast CallLimit, and claims
\* its nonce the way of the deployment.
Flying(q) ==
  /\ q.pc # "idle" => q.letter \in Letters /\ q.began <= now /\ now <= q.began + CallLimit
  /\ q.pc \in {"locking", "marking", "clearing"} => deployed.locks
  /\ q.pc \in InKv => ~deployed.locks

\* Locks, claims and markers end within their ttl, and the history is finite.
BaseInv ==
  /\ now \in Nat
  /\ InboxTypeOK
  /\ IsFiniteSet(passes)
  /\ \A c \in InboxCalls : Flying(desk[c])

\* Who holds the lock of a nonce has locked it at `at`, no one else holds it,
\* and what was accepted before it, or with it, had expired by then.
LockInv ==
  deployed.locks /\ CallLimit < LockTTL =>
    /\ \A c \in InboxCalls : Marking(desk[c]) =>
         /\ desk[c].began <= desk[c].at /\ desk[c].at <= now
         /\ locks[KeyOf(c)] = desk[c].at + LockTTL
         /\ \A d \in InboxCalls : Marking(desk[d]) /\ KeyOf(d) = KeyOf(c) => d = c
         /\ \A p \in passes : p.key = KeyOf(c) => p.at + LockTTL <= desk[c].at
    /\ \A p \in passes : p.at + LockTTL <= now \/ p.at + LockTTL <= locks[p.key]

\* One isolate: who asks KV about a nonce has the claim in memory, alone; what
\* was accepted is marked or has expired, the latter for who goes on to claim.
MemoryInv ==
  deployed.oneIsolate /\ ~deployed.locks /\ ~deployed.janitor /\ ~failed /\ CallLimit < ClaimTTL =>
    /\ \A c \in InboxCalls : desk[c].pc \in InKv =>
         /\ claims[KeyOf(c)] = desk[c].began + ClaimTTL
         /\ \A d \in InboxCalls : desk[d].pc \in InKv /\ KeyOf(d) = KeyOf(c) => d = c
         /\ desk[c].pc # "looking" =>
              \A p \in passes : p.key = KeyOf(c) => p.at + LockTTL <= now
    /\ \A p \in passes : p.at <= now
    /\ \A p \in passes : p.at + LockTTL <= now \/ p.at + LockTTL <= marks[p.key].until
    /\ \A d \in doomed : d.what # "claim"

\* A forget under way that will find the key k.
Finds(c, k) == desk[c].pc = "listing" /\ IsStrictPrefix(desk[c].letter.subject, k)

\* Someone is about to put the marker of k.
Marked(k) == \E c \in InboxCalls : desk[c].pc = "marking" /\ KeyOf(c) = k

\* Locks are there only where they are bound, and while nothing has failed end
\* no later than their marker, if there is one.
MarkInv ==
  /\ \A k \in LetterKeys : locks[k] <= now + LockTTL
  /\ ~deployed.locks => \A k \in LetterKeys : locks[k] = 0
  /\ deployed.locks =>
       /\ \A k \in LetterKeys : marks[k].by = Settled
       /\ \A d \in doomed : d.what # "claim"
  /\ ~failed =>
       /\ \A c \in InboxCalls : desk[c].pc # "clearing"
       /\ \A k \in LetterKeys : locks[k] <= marks[k].until \/ marks[k].until = 0 \/ Marked(k)

\* What a forget found is doomed, or about to be listed; a lock is listed by its
\* marker.
Vowed(k) ==
  /\ \A c \in InboxCalls :
       desk[c].pc \in {"idle", "reading", "removing", "listing"} \/ KeyOf(c) # k
  /\ k \in LiveItems =>
       \/ [what |-> "item", key |-> k] \in doomed
       \/ \E c \in InboxCalls : Finds(c, k) /\ k \in desk[c].found
  /\ k \in LiveMarks =>
       \/ [what |-> "mark", key |-> k] \in doomed
       \/ \E c \in InboxCalls : Finds(c, k)
  /\ k \in Locked =>
       \/ [what |-> "lock", key |-> k] \in doomed
       \/ /\ k \in LiveMarks /\ [what |-> "mark", key |-> k] \notin doomed
          /\ \E c \in InboxCalls : Finds(c, k)

VowInv == ~failed => \A k \in vowed : Vowed(k)

\* The letters that are of the subject of l alone, those of them that are stored,
\* and the requests about to store another.
Own(l) ==
  {LetterKey(m) : m \in {m \in Letters : m.subject = l.subject}}
    \ {LetterKey(m) : m \in {m \in Letters : m.subject # l.subject}}
Stored(l) == Own(l) \cap LiveItems
Storing(l) ==
  {c \in InboxCalls : desk[c].pc = "storing" /\ desk[c].letter.subject = l.subject}

\* What is stored and what is about to be, together.
CountInv ==
  SubjectMax \in 1 .. ListLimit =>
    \A l \in Letters :
      LET n == Cardinality(Stored(l)) + Cardinality(Storing(l))
      IN n > 0 => n < SubjectMax + peak

-----------------------------------------------------------------------------
(* The inbox: requests, and what they become.                              *)

\* What the types say of the parts, as the steps use them.
LEMMA InboxTypes ==
  ASSUME BaseInv
  PROVE  /\ LockTTL \in Nat \ {0} /\ ClaimTTL \in Nat \ {0} /\ ClaimTTL <= LockTTL
         /\ ItemTTL \in Nat \ {0} /\ CallLimit \in Nat
         /\ deployed \in Deployment
         /\ Vacant \in Desk /\ Vacant.pc = "idle"
         /\ \A k \in LetterKeys :
              /\ items[k] \in Nat /\ locks[k] \in Nat /\ claims[k] \in Nat
              /\ marks[k].until \in Nat
         /\ \A p \in passes : p.key \in LetterKeys /\ p.at \in Nat
         /\ \A c \in InboxCalls :
              /\ desk[c] \in Desk
              /\ desk[c].letter \in Letters \cup {NoLetter} /\ desk[c].began \in Nat
              /\ desk[c].at \in Nat \cup {Excused} /\ desk[c].found \subseteq LetterKeys
              /\ desk[c].pc # "idle" => KeyOf(c) \in LetterKeys
<1>1. /\ LockTTL \in Nat \ {0} /\ ClaimTTL \in Nat \ {0} /\ ClaimTTL <= LockTTL
      /\ ItemTTL \in Nat \ {0} /\ CallLimit \in Nat /\ deployed \in Deployment
  BY InboxAssumption DEF BaseInv, InboxTypeOK
<1>2. Vacant \in Desk /\ Vacant.pc = "idle"
  BY DEF Vacant, Desk
<1>3. \A k \in LetterKeys :
        /\ items[k] \in Nat /\ locks[k] \in Nat /\ claims[k] \in Nat
        /\ marks[k].until \in Nat
  BY DEF BaseInv, InboxTypeOK, Expiries
<1>4. \A p \in passes : p.key \in LetterKeys /\ p.at \in Nat
  BY DEF BaseInv, InboxTypeOK
<1>5. ASSUME NEW c \in InboxCalls
      PROVE  /\ desk[c] \in Desk
             /\ desk[c].letter \in Letters \cup {NoLetter} /\ desk[c].began \in Nat
             /\ desk[c].at \in Nat \cup {Excused} /\ desk[c].found \subseteq LetterKeys
             /\ desk[c].pc # "idle" => KeyOf(c) \in LetterKeys
  <2>1. desk[c] \in Desk /\ Flying(desk[c])
    BY DEF BaseInv, InboxTypeOK
  <2>2. /\ desk[c].letter \in Letters \cup {NoLetter} /\ desk[c].began \in Nat
        /\ desk[c].at \in Nat \cup {Excused} /\ desk[c].found \subseteq LetterKeys
    BY <2>1 DEF Desk
  <2>3. desk[c].pc # "idle" => KeyOf(c) \in LetterKeys
    BY <2>1 DEF Flying, KeyOf, LetterKeys
  <2> QED BY <2>1, <2>2, <2>3
<1> QED BY <1>1, <1>2, <1>3, <1>4, <1>5

\* What a request that proceeds becomes.
Moved(c, pc) == [desk[c] EXCEPT !.pc = pc]

Places == {"idle", "counting", "storing", "reading", "removing", "listing"} \cup Claiming

LEMMA MovedTypes ==
  ASSUME BaseInv, NEW c \in InboxCalls, NEW pc \in Places
  PROVE  /\ Moved(c, pc) \in Desk /\ Moved(c, pc).pc = pc
         /\ Moved(c, pc).letter = desk[c].letter /\ Moved(c, pc).began = desk[c].began
         /\ Moved(c, pc).at = desk[c].at /\ Moved(c, pc).found = desk[c].found
<1>1. desk[c] \in Desk
  BY DEF BaseInv, InboxTypeOK
<1> QED BY <1>1 DEF Moved, Desk, Places

\* One request becomes q, and the others stay.
LEMMA DeskStep ==
  ASSUME BaseInv, NEW c \in InboxCalls, NEW q \in Desk, Flying(q),
         desk' = [desk EXCEPT ![c] = q], now' = now, deployed' = deployed
  PROVE  /\ desk' \in [InboxCalls -> Desk]
         /\ \A d \in InboxCalls : desk'[d] = IF d = c THEN q ELSE desk[d]
         /\ \A d \in InboxCalls : Flying(desk[d])'
<1>1. desk \in [InboxCalls -> Desk]
  BY DEF BaseInv, InboxTypeOK
<1>2. /\ desk' \in [InboxCalls -> Desk]
      /\ \A d \in InboxCalls : desk'[d] = IF d = c THEN q ELSE desk[d]
  BY <1>1
<1> QED BY <1>2 DEF BaseInv, Flying

\* A request that leaves is gone, and the others stay.
LEMMA LeaveStep ==
  ASSUME BaseInv, NEW c \in InboxCalls, Leave(c), now' = now, deployed' = deployed
  PROVE  /\ desk' \in [InboxCalls -> Desk]
         /\ \A d \in InboxCalls : desk'[d] = IF d = c THEN Vacant ELSE desk[d]
         /\ \A d \in InboxCalls : Flying(desk[d])'
<1>1. Vacant \in Desk /\ Flying(Vacant)
  BY InboxTypes DEF Flying, Vacant, InKv
<1> QED BY <1>1, DeskStep DEF Leave

\* What counting, storing, reading and forgetting letters leave alone.
LEMMA LetterMoves ==
  ASSUME NEW c \in InboxCalls,
         \/ CountSubject(c) \/ StoreLetter(c) \/ StoreLetterFails(c)
         \/ ReadLetter(c) \/ RemoveLetter(c)
         \/ ForgetAll(c) \/ ForgetSome(c) \/ ForgetFails(c)
  PROVE  /\ UNCHANGED <<now, deployed, marks, locks, claims, passes>> /\ (failed => failed')
         /\ desk[c].pc \notin {"idle", "marking"}
         /\ Leave(c) \/ Proceed(c, "storing") \/ Proceed(c, "removing")
         /\ \A d \in doomed' : d \in doomed \/ d.what # "claim"
<1>1. CASE CountSubject(c)
  BY <1>1 DEF CountSubject
<1>2. CASE StoreLetter(c) \/ StoreLetterFails(c)
  BY <1>2 DEF StoreLetter, StoreLetterFails
<1>3. CASE ReadLetter(c) \/ RemoveLetter(c)
  BY <1>3 DEF ReadLetter, RemoveLetter
<1>4. ASSUME NEW letters, NEW markers
      PROVE  \A d \in Deletions(letters, markers) : d.what # "claim"
  BY DEF Deletions
<1>5. CASE ForgetAll(c)
  <2>1. \A d \in doomed' : d \in doomed \/ d.what # "claim"
    BY <1>4, <1>5 DEF ForgetAll
  <2> QED BY <1>5, <2>1 DEF ForgetAll
<1>6. CASE ForgetSome(c)
  <2>1. PICK ls, ms : doomed' = doomed \cup Deletions(ls, ms)
    BY <1>6 DEF ForgetSome
  <2>2. \A d \in doomed' : d \in doomed \/ d.what # "claim"
    BY <1>4, <2>1
  <2> QED BY <1>6, <2>2 DEF ForgetSome
<1>7. CASE ForgetFails(c)
  BY <1>7 DEF ForgetFails
<1> QED BY <1>1, <1>2, <1>3, <1>5, <1>6, <1>7

\* A request in flight proceeds to a place on its path.
LEMMA ProceedStep ==
  ASSUME BaseInv, NEW c \in InboxCalls, desk[c].pc # "idle", NEW pc \in Places \ {"idle"},
         pc \in {"locking", "marking", "clearing"} => deployed.locks,
         pc \in InKv => ~deployed.locks,
         Proceed(c, pc), now' = now, deployed' = deployed
  PROVE  /\ desk' \in [InboxCalls -> Desk]
         /\ \A d \in InboxCalls : desk'[d] = IF d = c THEN Moved(c, pc) ELSE desk[d]
         /\ \A d \in InboxCalls : Flying(desk[d])'
<1>1. desk' = [desk EXCEPT ![c] = Moved(c, pc)]
  BY DEF Proceed, Moved
<1>2. Flying(Moved(c, pc))
  BY MovedTypes DEF BaseInv, Flying
<1> QED BY <1>1, <1>2, MovedTypes, DeskStep

\* An erasure changes nothing of a request but its claim time, and that only of
\* those that claim the nonce.
LEMMA ExcuseTypes ==
  ASSUME BaseInv, NEW k \in LetterKeys
  PROVE  /\ Excuse(k) \in [InboxCalls -> Desk]
         /\ \A c \in InboxCalls :
              /\ Excuse(k)[c].pc = desk[c].pc /\ Excuse(k)[c].letter = desk[c].letter
              /\ Excuse(k)[c].began = desk[c].began /\ Excuse(k)[c].found = desk[c].found
              /\ Excuse(k)[c].at = IF desk[c].pc \in Claiming /\ KeyOf(c) = k THEN Excused
                                   ELSE desk[c].at
              /\ Flying(Excuse(k)[c])
<1>1. ASSUME NEW c \in InboxCalls
      PROVE  /\ Excuse(k)[c] \in Desk
             /\ Excuse(k)[c].pc = desk[c].pc /\ Excuse(k)[c].letter = desk[c].letter
             /\ Excuse(k)[c].began = desk[c].began /\ Excuse(k)[c].found = desk[c].found
             /\ Excuse(k)[c].at = IF desk[c].pc \in Claiming /\ KeyOf(c) = k THEN Excused
                                  ELSE desk[c].at
  <2>1. desk[c] \in Desk
    BY DEF BaseInv, InboxTypeOK
  <2>2. Excuse(k)[c] = IF desk[c].pc \in Claiming /\ KeyOf(c) = k
                         THEN [desk[c] EXCEPT !.at = Excused] ELSE desk[c]
    BY DEF Excuse
  <2> QED BY <2>1, <2>2 DEF Desk
<1>2. Excuse(k) \in [InboxCalls -> Desk]
  BY <1>1 DEF Excuse
<1>3. ASSUME NEW c \in InboxCalls PROVE Flying(Excuse(k)[c])
  BY <1>1 DEF BaseInv, Flying
<1> QED BY <1>1, <1>2, <1>3

-----------------------------------------------------------------------------
(* The inbox: the types.                                                   *)

\* The nonce is released in memory: the claims are still times.
LEMMA ReleaseTypes ==
  ASSUME BaseInv, NEW c \in InboxCalls, desk[c].pc # "idle", ReleaseClaim(c)
  PROVE  /\ claims' \in Expiries
         /\ \A k \in LetterKeys : claims'[k] = IF k = KeyOf(c) THEN 0 ELSE claims[k]
BY InboxTypes DEF BaseInv, InboxTypeOK, ReleaseClaim, Expiries

\* What is accepted is accepted under a key in flight.
LEMMA AcceptTypes ==
  ASSUME BaseInv, NEW c \in InboxCalls, desk[c].pc # "idle", NEW at \in Nat \cup {Excused},
         Accept(c, at)
  PROVE  /\ passes' \subseteq [key : LetterKeys, at : Nat, n : Nat] /\ IsFiniteSet(passes')
         /\ \/ passes' = passes
            \/ /\ at # Excused
               /\ \E r : r.key = KeyOf(c) /\ r.at = at /\ passes' = passes \cup {r}
<1>1. Cardinality(passes) \in Nat /\ KeyOf(c) \in LetterKeys
  BY FS_CardinalityType, InboxTypes DEF BaseInv
<1>2. passes \subseteq [key : LetterKeys, at : Nat, n : Nat] /\ IsFiniteSet(passes)
  BY DEF BaseInv, InboxTypeOK
<1>3. CASE passes' = passes
  BY <1>2, <1>3
<1>4. CASE /\ at # Excused
           /\ passes' = passes \cup {[key |-> KeyOf(c), at |-> at, n |-> Cardinality(passes)]}
  <2> DEFINE r == [key |-> KeyOf(c), at |-> at, n |-> Cardinality(passes)]
  <2>1. r \in [key : LetterKeys, at : Nat, n : Nat] /\ r.key = KeyOf(c) /\ r.at = at
    BY <1>1, <1>4
  <2>2. passes' = passes \cup {r}
    BY <1>4
  <2> HIDE DEF r
  <2>3. IsFiniteSet(passes')
    BY <1>2, <2>2, FS_AddElement
  <2> QED BY <1>2, <1>4, <2>1, <2>2, <2>3
<1>5. \/ passes' = passes
      \/ /\ at # Excused
         /\ passes' = passes \cup {[key |-> KeyOf(c), at |-> at, n |-> Cardinality(passes)]}
  BY DEF Accept
<1> QED BY <1>3, <1>4, <1>5

\* An erasure only takes from what was accepted.
LEMMA UnpassedTypes ==
  ASSUME BaseInv, NEW k
  PROVE  /\ Unpassed(k) \subseteq passes /\ IsFiniteSet(Unpassed(k))
         /\ \A p \in Unpassed(k) : p.key # k
BY FS_Subset DEF BaseInv, Unpassed

\* A time after a ttl is a time.
LEMMA TtlTypes ==
  ASSUME BaseInv
  PROVE  /\ now + LockTTL \in Nat /\ now + ItemTTL \in Nat /\ now + ClaimTTL \in Nat
BY InboxTypes DEF BaseInv

\* The steps of a nonce with a Durable Object keep the types.
LEMMA LockBase ==
  ASSUME BaseInv, NEW c \in InboxCalls,
         \/ ClaimLock(c) \/ LockHeld(c) \/ LockLost(c)
         \/ PutMarker(c) \/ MarkerFails(c) \/ ClearLock(c)
  PROVE  BaseInv'
<1> USE DEF BaseInv, InboxTypeOK
<1>1. /\ desk[c].pc # "idle" => KeyOf(c) \in LetterKeys
      /\ desk[c].at \in Nat \cup {Excused}
      /\ now + LockTTL \in Nat
  BY InboxTypes, TtlTypes
<1>2. desk[c].pc \in {"locking", "marking", "clearing"} => deployed.locks
  BY DEF Flying
<1>3. CASE ClaimLock(c)
  <2> DEFINE q == [desk[c] EXCEPT !.pc = "marking", !.at = now]
  <2>1. desk' = [desk EXCEPT ![c] = q]
    BY <1>3 DEF ClaimLock
  <2>2. q \in Desk /\ q.pc = "marking" /\ q.letter = desk[c].letter /\ q.began = desk[c].began
    BY InboxTypes DEF Desk, Claiming
  <2>3. Flying(q)
    BY <1>2, <1>3, <2>2 DEF Flying, ClaimLock, InKv
  <2> HIDE DEF q
  <2>4. /\ desk' \in [InboxCalls -> Desk]
        /\ \A d \in InboxCalls : Flying(desk[d])'
    BY <1>3, <2>1, <2>2, <2>3, DeskStep DEF ClaimLock
  <2> QED BY <1>1, <1>3, <2>4 DEF ClaimLock, Expiries
<1>4. CASE LockHeld(c)
  BY <1>4, LeaveStep, ReleaseTypes DEF LockHeld
<1>5. CASE LockLost(c)
  <2>1. locks' \in Expiries
    BY <1>1, <1>5 DEF LockLost, Expiries
  <2> QED BY <1>5, <2>1, LeaveStep, ReleaseTypes DEF LockLost
<1>6. CASE PutMarker(c)
  <2>1. /\ desk' \in [InboxCalls -> Desk]
        /\ \A d \in InboxCalls : Flying(desk[d])'
    BY <1>6, ProceedStep DEF PutMarker, Places, InKv
  <2>2. marks' \in [LetterKeys -> [until : Nat, by : InboxCalls \cup {Settled}]]
    BY <1>1, <1>6 DEF PutMarker
  <2>3. passes' \subseteq [key : LetterKeys, at : Nat, n : Nat] /\ IsFiniteSet(passes')
    BY <1>1, <1>6, AcceptTypes DEF PutMarker
  <2> QED BY <1>6, <2>1, <2>2, <2>3, ReleaseTypes DEF PutMarker
<1>7. CASE MarkerFails(c)
  <2>1. /\ desk' \in [InboxCalls -> Desk]
        /\ \A d \in InboxCalls : Flying(desk[d])'
    BY <1>2, <1>7, ProceedStep DEF MarkerFails, Places, Claiming, InKv
  <2>2. marks' \in [LetterKeys -> [until : Nat, by : InboxCalls \cup {Settled}]]
    BY <1>1, <1>7 DEF MarkerFails
  <2> QED BY <1>7, <2>1, <2>2 DEF MarkerFails
<1>8. CASE ClearLock(c)
  <2>1. CASE Leave(c) /\ UNCHANGED passes
    <3>1. locks' \in Expiries
      BY <1>1, <1>8 DEF ClearLock, Expiries
    <3> QED BY <1>8, <2>1, <3>1, LeaveStep, ReleaseTypes DEF ClearLock
  <2>2. CASE /\ locks' = [locks EXCEPT ![KeyOf(c)] = 0]
             /\ passes' = Unpassed(KeyOf(c)) /\ desk' = [Excuse(KeyOf(c)) EXCEPT ![c] = Vacant]
    <3>1. locks' \in Expiries
      BY <1>1, <2>2 DEF Expiries
    <3>2. /\ desk' \in [InboxCalls -> Desk]
          /\ \A d \in InboxCalls : desk'[d] = IF d = c THEN Vacant ELSE Excuse(KeyOf(c))[d]
      BY <1>1, <1>8, <2>2, InboxTypes, ExcuseTypes DEF ClearLock
    <3>3. ASSUME NEW d \in InboxCalls PROVE Flying(desk[d])'
      <4>1. Flying(desk'[d])
        BY <1>1, <1>8, <3>2, ExcuseTypes DEF ClearLock, Flying, Vacant, InKv
      <4> QED BY <1>8, <4>1 DEF ClearLock, Flying
    <3>4. passes' \subseteq [key : LetterKeys, at : Nat, n : Nat] /\ IsFiniteSet(passes')
      BY <2>2, UnpassedTypes
    <3> QED BY <1>8, <3>1, <3>2, <3>3, <3>4, ReleaseTypes DEF ClearLock
  <2> QED BY <1>8, <2>1, <2>2 DEF ClearLock
<1> QED BY <1>3, <1>4, <1>5, <1>6, <1>7, <1>8

\* The steps of a nonce in KV alone keep the types.
LEMMA KvBase ==
  ASSUME BaseInv, NEW c \in InboxCalls,
         \/ LookUp(c) \/ PutClaim(c) \/ CheckClaim(c) \/ SettleClaim(c) \/ KvBusy(c) \/ KvFails(c)
  PROVE  BaseInv'
<1> USE DEF BaseInv, InboxTypeOK
<1>1. /\ desk[c].pc # "idle" => KeyOf(c) \in LetterKeys
      /\ desk[c].at \in Nat \cup {Excused}
      /\ now + LockTTL \in Nat
  BY InboxTypes, TtlTypes
<1>2. desk[c].pc \in InKv => ~deployed.locks
  BY DEF Flying
<1>3. CASE LookUp(c)
  BY <1>2, <1>3, LeaveStep, ReleaseTypes, ProceedStep DEF LookUp, Places, Claiming, InKv
<1>4. CASE PutClaim(c)
  BY <1>1, <1>2, <1>4, ProceedStep DEF PutClaim, Places, Claiming, InKv
<1>5. CASE CheckClaim(c)
  BY <1>2, <1>5, LeaveStep, ReleaseTypes, ProceedStep DEF CheckClaim, Places, Claiming, InKv
<1>6. CASE SettleClaim(c)
  <2>1. /\ desk' \in [InboxCalls -> Desk]
        /\ \A d \in InboxCalls : Flying(desk[d])'
    BY <1>6, ProceedStep DEF SettleClaim, Places, InKv
  <2>2. marks' \in [LetterKeys -> [until : Nat, by : InboxCalls \cup {Settled}]]
    BY <1>1, <1>6 DEF SettleClaim
  <2>3. passes' \subseteq [key : LetterKeys, at : Nat, n : Nat] /\ IsFiniteSet(passes')
    BY <1>1, <1>6, AcceptTypes DEF SettleClaim
  <2> QED BY <1>6, <2>1, <2>2, <2>3, ReleaseTypes DEF SettleClaim
<1>7. CASE KvBusy(c)
  BY <1>2, <1>7, ProceedStep DEF KvBusy, Places, Claiming, InKv
<1>8. CASE KvFails(c)
  <2>1. marks' \in [LetterKeys -> [until : Nat, by : InboxCalls \cup {Settled}]]
    BY <1>1, <1>8 DEF KvFails
  <2> QED BY <1>8, <2>1, LeaveStep, ReleaseTypes DEF KvFails
<1> QED BY <1>3, <1>4, <1>5, <1>6, <1>7, <1>8

\* A request that is taken up is in flight, and the others stay.
LEMMA TakeUpStep ==
  ASSUME BaseInv, NEW c \in InboxCalls, NEW l \in Letters, NEW pc \in Places,
         NEW found \in SUBSET LetterKeys, TakeUp(c, l, pc, found),
         pc \in {"locking", "marking", "clearing"} => deployed.locks,
         pc \in InKv => ~deployed.locks,
         now' = now, deployed' = deployed
  PROVE  /\ started' \in 0 .. MaxCalls
         /\ desk' \in [InboxCalls -> Desk]
         /\ \A d \in InboxCalls : d # c => desk'[d] = desk[d]
         /\ desk'[c].pc = pc /\ desk'[c].letter = l /\ desk'[c].began = now
         /\ desk'[c].at = 0 /\ desk'[c].found = found
         /\ \A d \in InboxCalls : Flying(desk[d])'
<1> DEFINE q == [pc |-> pc, letter |-> l, began |-> now, at |-> 0, found |-> found]
<1>1. desk' = [desk EXCEPT ![c] = q] /\ started' = started + 1 /\ started < MaxCalls
  BY DEF TakeUp
<1>2. /\ q \in Desk /\ q.pc = pc /\ q.letter = l /\ q.began = now /\ q.at = 0
      /\ q.found = found
  BY DEF BaseInv, Desk, Places
<1>3. Flying(q)
  BY <1>2, InboxTypes DEF BaseInv, Flying
<1> HIDE DEF q
<1>4. started' \in 0 .. MaxCalls
  BY <1>1, InboxAssumption DEF BaseInv, InboxTypeOK
<1> QED BY <1>1, <1>2, <1>3, <1>4, DeskStep

\* Requests begin with their types.
LEMMA BeginBase ==
  ASSUME BaseInv, NEW c \in InboxCalls, NEW l \in Letters,
         PostLetter(c, l) \/ GetLetter(c, l) \/ Forget(c, l)
  PROVE  BaseInv'
<1> USE DEF BaseInv, InboxTypeOK
<1>1. LetterKey(l) \in LetterKeys /\ now + ClaimTTL \in Nat
  BY TtlTypes DEF LetterKeys
<1>2. CASE PostLetter(c, l)
  <2>1. /\ started' \in 0 .. MaxCalls /\ desk' \in [InboxCalls -> Desk]
        /\ \A d \in InboxCalls : Flying(desk[d])'
    BY <1>2, TakeUpStep DEF PostLetter, Places, Claiming, InKv
  <2>2. claims' \in Expiries
    BY <1>1, <1>2 DEF PostLetter, Expiries
  <2> QED BY <1>2, <2>1, <2>2 DEF PostLetter
<1>3. CASE GetLetter(c, l)
  <2>1. /\ started' \in 0 .. MaxCalls /\ desk' \in [InboxCalls -> Desk]
        /\ \A d \in InboxCalls : Flying(desk[d])'
    BY <1>3, TakeUpStep DEF GetLetter, Places, InKv
  <2> QED BY <1>3, <2>1 DEF GetLetter
<1>4. CASE Forget(c, l)
  <2>1. Under(l.subject, LiveItems) \subseteq LetterKeys
    BY DEF Under, LiveItems
  <2>2. /\ started' \in 0 .. MaxCalls /\ desk' \in [InboxCalls -> Desk]
        /\ \A d \in InboxCalls : Flying(desk[d])'
    BY <1>4, <2>1, TakeUpStep DEF Forget, Places, InKv
  <2>3. vowed' \subseteq LetterKeys
    BY <1>4 DEF Forget, Vow, Under, LiveItems, LiveMarks
  <2> QED BY <1>4, <2>2, <2>3 DEF Forget
<1> QED BY <1>2, <1>3, <1>4

\* Letters are counted, stored, read and removed with their types.
LEMMA LetterBase ==
  ASSUME BaseInv, NEW c \in InboxCalls,
         \/ CountSubject(c) \/ StoreLetter(c) \/ StoreLetterFails(c)
         \/ ReadLetter(c) \/ RemoveLetter(c)
  PROVE  BaseInv'
<1> USE DEF BaseInv, InboxTypeOK
<1>1. desk[c].pc # "idle" => KeyOf(c) \in LetterKeys
  BY InboxTypes
<1>2. now + ItemTTL \in Nat
  BY TtlTypes
<1>3. CASE CountSubject(c)
  <2>1. /\ desk' \in [InboxCalls -> Desk]
        /\ \A d \in InboxCalls : Flying(desk[d])'
    BY <1>3, LeaveStep, ProceedStep DEF CountSubject, Places, InKv
  <2>2. Cardinality({d \in InboxCalls : desk[d].pc = "storing"}) \in Nat
    BY InboxAssumption, FS_Subset, FS_CardinalityType
  <2>3. peak' \in Nat
    BY <1>3, <2>2 DEF CountSubject
  <2> QED BY <1>3, <2>1, <2>3 DEF CountSubject
<1>4. CASE StoreLetter(c)
  BY <1>1, <1>2, <1>4, LeaveStep DEF StoreLetter, Expiries
<1>5. CASE StoreLetterFails(c)
  <2>1. items' \in Expiries
    BY <1>1, <1>2, <1>5 DEF StoreLetterFails, Expiries
  <2> QED BY <1>5, <2>1, LeaveStep DEF StoreLetterFails
<1>6. CASE ReadLetter(c)
  BY <1>6, LeaveStep, ProceedStep DEF ReadLetter, Places, InKv
<1>7. CASE RemoveLetter(c)
  <2>1. items' \in Expiries
    BY <1>1, <1>7 DEF RemoveLetter, Expiries
  <2> QED BY <1>7, <2>1, LeaveStep DEF RemoveLetter
<1> QED BY <1>3, <1>4, <1>5, <1>6, <1>7

\* The first keys of a listing are some of them.
Foremost(ks) == IF Cardinality(ks) <= ForgetMax THEN {ks} ELSE kSubset(ForgetMax, ks)

LEMMA FirstOf ==
  ASSUME NEW ks, NEW ls \in Foremost(ks)
  PROVE  ls \subseteq ks
BY DEF Foremost, kSubset

\* A forget deletes letters, markers and locks of the subject it lists.
LEMMA ForgetBase ==
  ASSUME BaseInv, NEW c \in InboxCalls, ForgetAll(c) \/ ForgetSome(c) \/ ForgetFails(c)
  PROVE  BaseInv'
<1> USE DEF BaseInv, InboxTypeOK
<1>1. /\ desk[c].found \subseteq LetterKeys
      /\ Under(desk[c].letter.subject, LiveMarks) \subseteq LetterKeys
  BY InboxTypes DEF Under, LiveMarks
<1>2. ASSUME NEW ls \in SUBSET LetterKeys, NEW ms \in SUBSET LetterKeys
      PROVE  Deletions(ls, ms) \subseteq [what : {"item", "mark", "lock", "claim"}, key : LetterKeys]
  BY DEF Deletions
<1>3. CASE ForgetAll(c)
  BY <1>1, <1>2, <1>3, LeaveStep DEF ForgetAll
<1>4. CASE ForgetSome(c)
  <2>1. PICK ls \in Foremost(desk[c].found), ms \in Foremost(Under(desk[c].letter.subject, LiveMarks)) :
          doomed' = doomed \cup Deletions(ls, ms)
    BY <1>4 DEF ForgetSome, Foremost
  <2>2. ls \in SUBSET LetterKeys /\ ms \in SUBSET LetterKeys
    BY <1>1, FirstOf
  <2>3. doomed' \subseteq [what : {"item", "mark", "lock", "claim"}, key : LetterKeys]
    BY <1>2, <2>1, <2>2
  <2> QED BY <1>4, <2>3, LeaveStep DEF ForgetSome
<1>5. CASE ForgetFails(c)
  BY <1>5, LeaveStep DEF ForgetFails
<1> QED BY <1>3, <1>4, <1>5

\* Deletions in the background keep the types.
LEMMA DeleteBase ==
  ASSUME BaseInv, NEW d \in doomed, Delete(d) \/ DeleteFails(d)
  PROVE  BaseInv'
<1> USE DEF BaseInv, InboxTypeOK
<1>1. d.key \in LetterKeys
  OBVIOUS
<1>2. CASE Delete(d)
  <2>1. items' \in Expiries /\ locks' \in Expiries
    BY <1>1, <1>2 DEF Delete, Expiries
  <2>2. marks' \in [LetterKeys -> [until : Nat, by : InboxCalls \cup {Settled}]]
    BY <1>1, <1>2 DEF Delete, NoMark
  <2>3. /\ passes' \subseteq [key : LetterKeys, at : Nat, n : Nat] /\ IsFiniteSet(passes')
    BY <1>2, UnpassedTypes DEF Delete
  <2>4. /\ desk' \in [InboxCalls -> Desk]
        /\ \A c \in InboxCalls : Flying(desk'[c])
    BY <1>1, <1>2, ExcuseTypes DEF Delete
  <2>5. \A c \in InboxCalls : Flying(desk[c])'
    BY <1>2, <2>4 DEF Delete, Flying
  <2> QED BY <1>2, <2>1, <2>2, <2>3, <2>4, <2>5 DEF Delete
<1>3. CASE DeleteFails(d)
  BY <1>3 DEF DeleteFails, Flying
<1> QED BY <1>2, <1>3

\* The janitor, an eviction, and time keep the types.
LEMMA RestBase ==
  ASSUME BaseInv,
         \/ \E k \in LetterKeys : Janitor(k)
         \/ \E c \in InboxCalls : EvictIsolate(c)
         \/ InboxTick
         \/ UNCHANGED <<now, inboxVars>>
  PROVE  BaseInv'
<1> USE DEF BaseInv, InboxTypeOK
<1>1. ASSUME NEW k \in LetterKeys, Janitor(k) PROVE BaseInv'
  BY <1>1 DEF Janitor, Flying
<1>2. ASSUME NEW c \in InboxCalls, EvictIsolate(c) PROVE BaseInv'
  <2>1. CASE deployed.oneIsolate
    <3>1. desk' = [d \in InboxCalls |-> Vacant] /\ claims' = [k \in LetterKeys |-> 0]
      BY <1>2, <2>1 DEF EvictIsolate
    <3>2. Vacant \in Desk /\ \A d \in InboxCalls : Flying(desk'[d])
      BY <3>1, InboxTypes DEF Flying, Vacant, InKv
    <3>3. \A d \in InboxCalls : Flying(desk[d])'
      BY <1>2, <3>2 DEF EvictIsolate, Flying
    <3> QED BY <1>2, <3>1, <3>2, <3>3 DEF EvictIsolate, Expiries
  <2>2. CASE ~deployed.oneIsolate
    BY <1>2, <2>2, LeaveStep DEF EvictIsolate
  <2> QED BY <2>1, <2>2
<1>3. CASE InboxTick
  <2>1. /\ now \in Nat /\ now' = now + 1
        /\ \A c \in InboxCalls : desk[c].pc # "idle" => now - desk[c].began < CallLimit
    BY <1>3 DEF InboxTick, Advance
  <2>2. UNCHANGED inboxVars
    BY <1>3 DEF InboxTick
  <2>3. ASSUME NEW c \in InboxCalls PROVE Flying(desk[c])'
    <3>1. desk[c].began \in Nat /\ CallLimit \in Nat /\ Flying(desk[c])
      BY InboxTypes
    <3> QED BY <2>1, <2>2, <3>1 DEF Flying, inboxVars
  <2> QED BY <2>1, <2>2, <2>3 DEF inboxVars
<1>4. CASE UNCHANGED <<now, inboxVars>>
  BY <1>4 DEF inboxVars, Flying
<1> QED BY <1>1, <1>2, <1>3, <1>4

\* Every step keeps the types.
LEMMA BaseNext ==
  ASSUME BaseInv, [InboxNext]_<<now, inboxVars>>
  PROVE  BaseInv'
BY LockBase, KvBase, BeginBase, LetterBase, ForgetBase, DeleteBase, RestBase
   DEF InboxNext, Nonce

-----------------------------------------------------------------------------
(* The inbox: where Durable Objects are bound, a nonce is accepted once.   *)

\* A request is another one's continuation, or holds no lock.
Continues(q, r) ==
  Marking(r) => Marking(q) /\ r.letter = q.letter /\ r.began = q.began /\ r.at = q.at

\* A step that changes no lock, accepts nothing and has no request lock.
LEMMA LockQuiet ==
  ASSUME BaseInv, LockInv, BaseInv', now <= now', UNCHANGED <<deployed, locks>>,
         passes' \subseteq passes,
         \A c \in InboxCalls : Continues(desk[c], desk'[c])
  PROVE  LockInv'
<1> SUFFICES ASSUME deployed.locks, CallLimit < LockTTL PROVE LockInv'
  BY DEF LockInv
<1>1. now \in Nat /\ now' \in Nat /\ LockTTL \in Nat /\ \A p \in passes : p.at \in Nat
  BY InboxTypes DEF BaseInv
<1>2. ASSUME NEW c \in InboxCalls, Marking(desk'[c])
      PROVE  /\ Marking(desk[c]) /\ KeyOf(c)' = KeyOf(c)
             /\ desk'[c].began = desk[c].began /\ desk'[c].at = desk[c].at
             /\ desk[c].at \in Nat
  BY <1>2, InboxTypes DEF Continues, KeyOf, Marking
<1>3. ASSUME NEW c \in InboxCalls, Marking(desk[c])'
      PROVE  (/\ desk[c].began <= desk[c].at /\ desk[c].at <= now
              /\ locks[KeyOf(c)] = desk[c].at + LockTTL
              /\ \A d \in InboxCalls : Marking(desk[d]) /\ KeyOf(d) = KeyOf(c) => d = c
              /\ \A p \in passes : p.key = KeyOf(c) => p.at + LockTTL <= desk[c].at)'
  <2>1. Marking(desk'[c])
    BY <1>3 DEF Marking
  <2>2. ASSUME NEW d \in InboxCalls, Marking(desk[d])', KeyOf(d)' = KeyOf(c)' PROVE d = c
    <3>1. Marking(desk'[d])
      BY <2>2 DEF Marking
    <3> QED BY <1>2, <2>1, <2>2, <3>1 DEF LockInv
  <2> QED BY <1>1, <1>2, <2>1, <2>2 DEF LockInv
<1>4. ASSUME NEW p \in passes'
      PROVE  p.at + LockTTL <= now' \/ p.at + LockTTL <= locks'[p.key]
  BY <1>1 DEF LockInv
<1> QED BY <1>3, <1>4 DEF LockInv

\* The lock of a nonce that is being marked is held.
LEMMA LockIsHeld ==
  ASSUME BaseInv, LockInv, deployed.locks, CallLimit < LockTTL,
         NEW c \in InboxCalls, Marking(desk[c])
  PROVE  locks[KeyOf(c)] > now
<1>1. /\ desk[c].began \in Nat /\ desk[c].at \in Nat /\ CallLimit \in Nat /\ now \in Nat
      /\ LockTTL \in Nat
  BY InboxTypes DEF BaseInv, Marking
<1>2. now <= desk[c].began + CallLimit
  BY DEF BaseInv, Flying, Marking
<1> QED BY <1>1, <1>2 DEF LockInv

\* The nonce is locked, by whoever gets to know of it: its lock was free.
LEMMA LockTaken ==
  ASSUME BaseInv, LockInv, BaseInv', NEW c \in InboxCalls, desk[c].pc = "locking",
         locks[KeyOf(c)] <= now,
         locks' = [locks EXCEPT ![KeyOf(c)] = now + LockTTL],
         UNCHANGED <<now, deployed, passes>>,
         \A d \in InboxCalls \ {c} : desk'[d] = desk[d],
         desk'[c].pc = "marking" =>
           desk'[c].letter = desk[c].letter /\ desk'[c].began = desk[c].began /\ desk'[c].at = now,
         desk'[c].pc \in {"idle", "marking"}
  PROVE  LockInv'
<1> SUFFICES ASSUME deployed.locks, CallLimit < LockTTL PROVE LockInv'
  BY DEF LockInv
<1>1. /\ now \in Nat /\ LockTTL \in Nat \ {0} /\ KeyOf(c) \in LetterKeys
      /\ \A p \in passes : p.key \in LetterKeys /\ p.at \in Nat
      /\ desk[c].began <= now
      /\ \A d \in InboxCalls : desk[d].pc # "idle" => KeyOf(d) \in LetterKeys
  BY InboxTypes DEF BaseInv, Flying
<1>2. \A k \in LetterKeys : locks'[k] = IF k = KeyOf(c) THEN now + LockTTL ELSE locks[k]
  BY <1>1 DEF BaseInv, InboxTypeOK, Expiries
<1>3. \A d \in InboxCalls : Marking(desk[d]) => KeyOf(d) # KeyOf(c) /\ d # c
  BY <1>1, InboxTypes, LockIsHeld DEF Marking
<1>4. \A p \in passes : p.key = KeyOf(c) => p.at + LockTTL <= now
  BY <1>1, InboxTypes DEF LockInv
<1>5. ASSUME NEW d \in InboxCalls, Marking(desk[d])'
      PROVE  \/ d # c /\ desk'[d] = desk[d] /\ Marking(desk[d]) /\ KeyOf(d)' = KeyOf(d)
             \/ d = c /\ desk'[c].pc = "marking" /\ KeyOf(c)' = KeyOf(c)
  BY <1>5 DEF Marking, KeyOf
<1>6. ASSUME NEW d \in InboxCalls, Marking(desk[d])'
      PROVE  (/\ desk[d].began <= desk[d].at /\ desk[d].at <= now
              /\ locks[KeyOf(d)] = desk[d].at + LockTTL
              /\ \A e \in InboxCalls : Marking(desk[e]) /\ KeyOf(e) = KeyOf(d) => e = d
              /\ \A p \in passes : p.key = KeyOf(d) => p.at + LockTTL <= desk[d].at)'
  <2>1. \A e \in InboxCalls : Marking(desk[e])' /\ KeyOf(e)' = KeyOf(d)' => e = d
    BY <1>3, <1>5, <1>6 DEF LockInv
  <2>2. CASE d = c
    BY <1>1, <1>2, <1>4, <1>5, <1>6, <2>1, <2>2
  <2>3. CASE d # c
    <3>1. KeyOf(d) \in LetterKeys /\ KeyOf(d) # KeyOf(c)
      BY <1>1, <1>3, <1>5, <1>6, <2>3 DEF Marking
    <3> QED BY <1>2, <1>5, <1>6, <2>1, <2>3, <3>1 DEF LockInv
  <2> QED BY <2>2, <2>3
<1>7. ASSUME NEW p \in passes
      PROVE  p.at + LockTTL <= now \/ p.at + LockTTL <= locks'[p.key]
  BY <1>1, <1>2, <1>4 DEF LockInv
<1> QED BY <1>6, <1>7 DEF LockInv

\* The nonce k is given back: no one marks it any more, and nothing was accepted
\* under it that has not expired.
LEMMA LockGivenBack ==
  ASSUME BaseInv, LockInv, BaseInv', NEW k \in LetterKeys,
         locks' \in {locks, [locks EXCEPT ![k] = 0]},
         UNCHANGED <<now, deployed>>, passes' \subseteq passes,
         \A p \in passes' : p.key = k => p.at + LockTTL <= now,
         \A c \in InboxCalls :
           /\ Continues(desk[c], desk'[c])
           /\ Marking(desk'[c]) => KeyOf(c) # k
  PROVE  LockInv'
<1> SUFFICES ASSUME deployed.locks, CallLimit < LockTTL PROVE LockInv'
  BY DEF LockInv
<1>1. /\ \A p \in passes : p.key \in LetterKeys /\ p.at \in Nat
      /\ \A d \in InboxCalls : desk[d].pc # "idle" => KeyOf(d) \in LetterKeys
  BY InboxTypes
<1>2. \A l \in LetterKeys : l # k => locks'[l] = locks[l]
  BY DEF BaseInv, InboxTypeOK, Expiries
<1>3. ASSUME NEW d \in InboxCalls, Marking(desk[d])'
      PROVE  /\ Marking(desk[d]) /\ KeyOf(d)' = KeyOf(d) /\ KeyOf(d) # k
             /\ KeyOf(d) \in LetterKeys
             /\ desk'[d].began = desk[d].began /\ desk'[d].at = desk[d].at
  <2>1. Marking(desk'[d])
    BY <1>3 DEF Marking
  <2>2. /\ Marking(desk[d]) /\ desk'[d].letter = desk[d].letter /\ KeyOf(d) # k
        /\ desk'[d].began = desk[d].began /\ desk'[d].at = desk[d].at
    BY <2>1 DEF Continues
  <2> QED BY <1>1, <2>2 DEF KeyOf, Marking
<1>4. ASSUME NEW d \in InboxCalls, Marking(desk[d])'
      PROVE  (/\ desk[d].began <= desk[d].at /\ desk[d].at <= now
              /\ locks[KeyOf(d)] = desk[d].at + LockTTL
              /\ \A e \in InboxCalls : Marking(desk[e]) /\ KeyOf(e) = KeyOf(d) => e = d
              /\ \A p \in passes : p.key = KeyOf(d) => p.at + LockTTL <= desk[d].at)'
  BY <1>2, <1>3, <1>4 DEF LockInv
<1>5. ASSUME NEW p \in passes'
      PROVE  p.at + LockTTL <= now \/ p.at + LockTTL <= locks'[p.key]
  BY <1>1, <1>2 DEF LockInv
<1> QED BY <1>4, <1>5 DEF LockInv

\* Nothing more is accepted.
LEMMA OnceKept ==
  ASSUME AcceptedOnce, passes' \subseteq passes, UNCHANGED deployed, failed => failed'
  PROVE  AcceptedOnce'
BY DEF AcceptedOnce

\* The marker is put: what is accepted now is apart from what was accepted before.
LEMMA LockAccepted ==
  ASSUME BaseInv, LockInv, AcceptedOnce, BaseInv', NEW c \in InboxCalls, PutMarker(c)
  PROVE  LockInv' /\ (CallLimit < LockTTL => AcceptedOnce')
<1>1. desk[c].pc = "marking" /\ deployed.locks
  BY DEF PutMarker, BaseInv, Flying
<1>2. CASE ~(CallLimit < LockTTL)
  BY <1>2 DEF LockInv
<1>3. CASE CallLimit < LockTTL
  <2>1. \A d \in InboxCalls : desk'[d] = IF d = c THEN Moved(c, "counting") ELSE desk[d]
    BY <1>1, ProceedStep DEF PutMarker, Places, InKv
  <2>2. Moved(c, "counting").pc = "counting"
    BY MovedTypes DEF Places
  <2>3. \A d \in InboxCalls : Continues(desk[d], desk'[d]) /\ (d = c => ~Marking(desk'[d]))
    BY <2>1, <2>2 DEF Continues, Marking
  <2>4. UNCHANGED <<now, deployed, locks>> /\ Accept(c, desk[c].at)
    BY DEF PutMarker
  <2>5. CASE passes' = passes
    <3>1. now <= now'
      BY <2>4 DEF BaseInv
    <3>2. AcceptedOnce'
      BY <2>4, <2>5 DEF AcceptedOnce, PutMarker
    <3> QED BY <2>3, <2>4, <2>5, <3>1, <3>2, LockQuiet
  <2>6. CASE passes' # passes
    <3>1. PICK r : desk[c].at # Excused /\ r.key = KeyOf(c) /\ r.at = desk[c].at /\ passes' = passes \cup {r}
      BY <1>1, <2>4, <2>6, AcceptTypes, InboxTypes
    <3>2. /\ Marking(desk[c]) /\ r.at \in Nat /\ LockTTL \in Nat
          /\ \A p \in passes : p.at \in Nat
      BY <1>1, <3>1, InboxTypes DEF Marking
    <3>3. /\ locks[r.key] = r.at + LockTTL
          /\ \A p \in passes : p.key = r.key => p.at + LockTTL <= r.at
          /\ \A d \in InboxCalls : Marking(desk[d]) /\ KeyOf(d) = r.key => d = c
      BY <1>1, <1>3, <3>1, <3>2 DEF LockInv
    <3>4. AcceptedOnce'
      <4>1. ASSUME NEW p \in passes', NEW q \in passes', p # q, p.key = q.key
            PROVE  p.at + LockTTL <= q.at \/ q.at + LockTTL <= p.at
        <5>1. CASE p \in passes /\ q \in passes
          BY <1>1, <1>3, <4>1, <5>1 DEF AcceptedOnce
        <5>2. CASE p = r \/ q = r
          BY <3>1, <3>2, <3>3, <4>1, <5>2
        <5> QED BY <3>1, <5>1, <5>2
      <4> QED BY <4>1 DEF AcceptedOnce
    <3>5. ASSUME NEW d \in InboxCalls, Marking(desk[d])'
          PROVE  Marking(desk[d]) /\ KeyOf(d)' = KeyOf(d) /\ KeyOf(d) # r.key /\ desk'[d] = desk[d]
      <4>1. d # c /\ desk'[d] = desk[d]
        BY <2>1, <2>3, <3>5 DEF Marking
      <4>2. Marking(desk[d])
        BY <3>5, <4>1 DEF Marking
      <4>3. KeyOf(d)' = KeyOf(d)
        BY <4>1 DEF KeyOf
      <4> QED BY <3>3, <4>1, <4>2, <4>3
    <3>6. ASSUME NEW d \in InboxCalls, Marking(desk[d])'
          PROVE  (/\ desk[d].began <= desk[d].at /\ desk[d].at <= now
                  /\ locks[KeyOf(d)] = desk[d].at + LockTTL
                  /\ \A e \in InboxCalls : Marking(desk[e]) /\ KeyOf(e) = KeyOf(d) => e = d
                  /\ \A p \in passes : p.key = KeyOf(d) => p.at + LockTTL <= desk[d].at)'
      BY <1>1, <1>3, <2>4, <3>1, <3>5, <3>6 DEF LockInv
    <3>7. \A p \in passes' : p.at + LockTTL <= now \/ p.at + LockTTL <= locks[p.key]
      BY <1>1, <1>3, <3>1, <3>2, <3>3 DEF LockInv
    <3> QED BY <2>4, <3>4, <3>6, <3>7 DEF LockInv
  <2> QED BY <2>5, <2>6
<1> QED BY <1>1, <1>2, <1>3

\* The steps of a nonce with a Durable Object.
LEMMA LockNonceStep ==
  ASSUME BaseInv, LockInv, BaseInv', NEW c \in InboxCalls,
         ClaimLock(c) \/ LockHeld(c) \/ LockLost(c) \/ MarkerFails(c) \/ ClearLock(c)
  PROVE  LockInv' /\ passes' \subseteq passes
<1>1. now \in Nat /\ (desk[c].pc # "idle" => KeyOf(c) \in LetterKeys) /\ now <= now
  BY InboxTypes DEF BaseInv
<1>2. ~Marking(Vacant)
  BY DEF Marking, Vacant
<1>3. CASE ClaimLock(c)
  <2> DEFINE q == [desk[c] EXCEPT !.pc = "marking", !.at = now]
  <2>1. desk' = [desk EXCEPT ![c] = q]
    BY <1>3 DEF ClaimLock
  <2>2. q.pc = "marking" /\ q.letter = desk[c].letter /\ q.began = desk[c].began /\ q.at = now
    BY InboxTypes DEF Desk
  <2> HIDE DEF q
  <2>3. desk'[c] = q /\ \A d \in InboxCalls \ {c} : desk'[d] = desk[d]
    BY <2>1 DEF BaseInv, InboxTypeOK
  <2>4. LockInv'
    BY <1>3, <2>2, <2>3, LockTaken DEF ClaimLock
  <2> QED BY <1>3, <2>4 DEF ClaimLock
<1>4. CASE LockHeld(c)
  <2>1. \A d \in InboxCalls : Continues(desk[d], desk'[d])
    BY <1>2, <1>4, LeaveStep DEF LockHeld, Continues
  <2> QED BY <1>1, <1>4, <2>1, LockQuiet DEF LockHeld
<1>5. CASE LockLost(c)
  <2>1. \A d \in InboxCalls : desk'[d] = IF d = c THEN Vacant ELSE desk[d]
    BY <1>5, LeaveStep DEF LockLost
  <2>2. CASE locks' = locks
    <3>1. \A d \in InboxCalls : Continues(desk[d], desk'[d])
      BY <1>2, <2>1 DEF Continues
    <3> QED BY <1>1, <1>5, <2>2, <3>1, LockQuiet DEF LockLost
  <2>3. CASE locks' # locks
    <3>1. locks[KeyOf(c)] <= now /\ locks' = [locks EXCEPT ![KeyOf(c)] = now + LockTTL]
      BY <1>1, <1>5, <2>3, InboxTypes DEF LockLost
    <3>2. desk'[c].pc = "idle" /\ \A d \in InboxCalls \ {c} : desk'[d] = desk[d]
      BY <2>1, InboxTypes
    <3> QED BY <1>5, <3>1, <3>2, LockTaken DEF LockLost
  <2> QED BY <2>2, <2>3
<1>6. CASE MarkerFails(c)
  <2>1. deployed.locks
    BY <1>6 DEF MarkerFails, BaseInv, Flying
  <2>2. \A d \in InboxCalls : desk'[d] = IF d = c THEN Moved(c, "clearing") ELSE desk[d]
    BY <1>6, <2>1, ProceedStep DEF MarkerFails, Places, Claiming, InKv
  <2>3. \A d \in InboxCalls : Continues(desk[d], desk'[d])
    BY <1>6, <2>2, MovedTypes DEF MarkerFails, Places, Claiming, Continues, Marking
  <2> QED BY <1>1, <1>6, <2>3, LockQuiet DEF MarkerFails
<1>7. CASE ClearLock(c)
  <2>1. KeyOf(c) \in LetterKeys /\ desk[c].pc = "clearing" /\ deployed.locks
    BY <1>1, <1>7 DEF ClearLock, BaseInv, Flying
  <2>2. CASE Leave(c) /\ UNCHANGED <<locks, passes>>
    <3>1. \A d \in InboxCalls : Continues(desk[d], desk'[d])
      BY <1>2, <1>7, <2>2, LeaveStep DEF ClearLock, Continues
    <3> QED BY <1>1, <1>7, <2>2, <3>1, LockQuiet DEF ClearLock
  <2>3. CASE /\ locks' = [locks EXCEPT ![KeyOf(c)] = 0] /\ desk[c].at = Excused
             /\ passes' = Unpassed(KeyOf(c)) /\ desk' = [Excuse(KeyOf(c)) EXCEPT ![c] = Vacant]
    <3>1. \A d \in InboxCalls : desk'[d] = IF d = c THEN Vacant ELSE Excuse(KeyOf(c))[d]
      BY <2>1, <2>3, ExcuseTypes
    <3>2. ASSUME NEW d \in InboxCalls
          PROVE  Continues(desk[d], desk'[d]) /\ (Marking(desk'[d]) => KeyOf(d) # KeyOf(c))
      BY <1>2, <2>1, <3>1, ExcuseTypes DEF Continues, Marking, Claiming
    <3>3. passes' \subseteq passes /\ \A p \in passes' : p.key # KeyOf(c)
      BY <2>3, UnpassedTypes
    <3> QED BY <1>7, <2>1, <2>3, <3>2, <3>3, LockGivenBack DEF ClearLock
  <2>4. CASE /\ locks' = [locks EXCEPT ![KeyOf(c)] = 0] /\ desk[c].at # Excused
             /\ Leave(c) /\ UNCHANGED passes
    <3>1. CASE CallLimit < LockTTL
      <4>1. Marking(desk[c])
        BY <2>1, <2>4 DEF Marking
      <4>2. \A d \in InboxCalls : desk'[d] = IF d = c THEN Vacant ELSE desk[d]
        BY <1>7, <2>4, LeaveStep DEF ClearLock
      <4>3. ASSUME NEW d \in InboxCalls
            PROVE  Continues(desk[d], desk'[d]) /\ (Marking(desk'[d]) => KeyOf(d) # KeyOf(c))
        BY <1>2, <2>1, <3>1, <4>1, <4>2 DEF Continues, LockInv
      <4>4. ASSUME NEW p \in passes, p.key = KeyOf(c) PROVE p.at + LockTTL <= now
        <5>1. desk[c].at \in Nat /\ p.at \in Nat /\ LockTTL \in Nat
          BY <2>4, InboxTypes
        <5>2. p.at + LockTTL <= desk[c].at /\ desk[c].at <= now
          BY <2>1, <3>1, <4>1, <4>4 DEF LockInv
        <5> QED BY <1>1, <5>1, <5>2
      <4> QED BY <1>7, <2>1, <2>4, <4>3, <4>4, LockGivenBack DEF ClearLock
    <3>2. CASE ~(CallLimit < LockTTL)
      BY <2>4, <3>2 DEF LockInv
    <3> QED BY <3>1, <3>2
  <2> QED BY <1>7, <2>2, <2>3, <2>4 DEF ClearLock
<1> QED BY <1>3, <1>4, <1>5, <1>6, <1>7

\* What is not about a lock leaves the locks, or gives a nonce back.
LEMMA LockRestStep ==
  ASSUME BaseInv, LockInv, BaseInv',
         \/ \E c \in InboxCalls, l \in Letters :
              PostLetter(c, l) \/ GetLetter(c, l) \/ Forget(c, l)
         \/ \E c \in InboxCalls :
              \/ CountSubject(c) \/ StoreLetter(c) \/ StoreLetterFails(c)
              \/ ReadLetter(c) \/ RemoveLetter(c)
              \/ ForgetAll(c) \/ ForgetSome(c) \/ ForgetFails(c)
              \/ EvictIsolate(c)
         \/ \E d \in doomed : Delete(d) \/ DeleteFails(d)
         \/ \E k \in LetterKeys : Janitor(k)
         \/ InboxTick
         \/ UNCHANGED <<now, inboxVars>>
  PROVE  LockInv' /\ passes' \subseteq passes /\ deployed' = deployed /\ (failed => failed')
<1>1. now \in Nat /\ now <= now
  BY DEF BaseInv
<1>2. ~Marking(Vacant)
  BY DEF Marking, Vacant
<1>3. ASSUME UNCHANGED <<locks, deployed, desk>>, now <= now', passes' \subseteq passes
      PROVE  LockInv'
  <2>1. \A c \in InboxCalls : Continues(desk[c], desk'[c])
    BY <1>3 DEF Continues
  <2> QED BY <1>3, <2>1, LockQuiet
<1>4. ASSUME NEW c \in InboxCalls, NEW l \in Letters,
             PostLetter(c, l) \/ GetLetter(c, l) \/ Forget(c, l)
      PROVE  LockInv' /\ passes' \subseteq passes /\ deployed' = deployed /\ (failed => failed')
  <2>1. UNCHANGED <<now, deployed, locks, passes, failed>>
    BY <1>4 DEF PostLetter, GetLetter, Forget
  <2>2. Under(l.subject, LiveItems) \in SUBSET LetterKeys /\ {} \in SUBSET LetterKeys
    BY DEF Under, LiveItems
  <2>3. /\ \A d \in InboxCalls : d # c => desk'[d] = desk[d]
        /\ desk'[c].pc \in {"locking", "looking", "reading", "listing"}
    BY <1>4, <2>1, <2>2, TakeUpStep
       DEF PostLetter, GetLetter, Forget, Places, Claiming, InKv
  <2>4. \A d \in InboxCalls : Continues(desk[d], desk'[d])
    BY <2>3 DEF Continues, Marking
  <2> QED BY <1>1, <2>1, <2>4, LockQuiet
<1>5. ASSUME NEW c \in InboxCalls,
             \/ CountSubject(c) \/ StoreLetter(c) \/ StoreLetterFails(c)
             \/ ReadLetter(c) \/ RemoveLetter(c)
             \/ ForgetAll(c) \/ ForgetSome(c) \/ ForgetFails(c)
      PROVE  LockInv' /\ passes' \subseteq passes /\ deployed' = deployed /\ (failed => failed')
  <2>1. /\ UNCHANGED <<now, deployed, locks, passes>> /\ (failed => failed')
        /\ desk[c].pc # "idle"
    BY <1>5, LetterMoves
  <2>2. Leave(c) \/ Proceed(c, "storing") \/ Proceed(c, "removing")
    BY <1>5, LetterMoves
  <2>3. /\ \A d \in InboxCalls : d # c => desk'[d] = desk[d]
        /\ desk'[c].pc \in {"idle", "storing", "removing"}
    BY <2>1, <2>2, LeaveStep, ProceedStep, MovedTypes, InboxTypes DEF Places, InKv
  <2>4. \A d \in InboxCalls : Continues(desk[d], desk'[d])
    BY <2>3 DEF Continues, Marking
  <2> QED BY <1>1, <2>1, <2>4, LockQuiet
<1>6. ASSUME NEW c \in InboxCalls, EvictIsolate(c)
      PROVE  LockInv' /\ passes' \subseteq passes /\ deployed' = deployed /\ (failed => failed')
  <2>1. UNCHANGED <<now, deployed, locks, passes>> /\ failed'
    BY <1>6 DEF EvictIsolate
  <2>2. \A d \in InboxCalls : desk'[d] = desk[d] \/ desk'[d] = Vacant
    BY <1>6, <2>1, LeaveStep DEF EvictIsolate
  <2>3. \A d \in InboxCalls : Continues(desk[d], desk'[d])
    BY <1>2, <2>2 DEF Continues
  <2> QED BY <1>1, <2>1, <2>3, LockQuiet
<1>7. ASSUME NEW d \in doomed, Delete(d)
      PROVE  LockInv' /\ passes' \subseteq passes /\ deployed' = deployed /\ (failed => failed')
  <2>1. UNCHANGED <<now, deployed, failed>> /\ d.key \in LetterKeys
    BY <1>7 DEF Delete, BaseInv, InboxTypeOK
  <2>2. CASE deployed.locks /\ d.what = "lock"
    <3>1. /\ locks' = [locks EXCEPT ![d.key] = 0]
          /\ passes' = Unpassed(d.key) /\ desk' = Excuse(d.key)
      BY <1>7, <2>2 DEF Delete
    <3>2. \A c \in InboxCalls :
            Continues(desk[c], desk'[c]) /\ (Marking(desk'[c]) => KeyOf(c) # d.key)
      BY <2>1, <3>1, ExcuseTypes DEF Continues, Marking, Claiming
    <3>3. passes' \subseteq passes /\ \A p \in passes' : p.key # d.key
      BY <3>1, UnpassedTypes
    <3> QED BY <2>1, <3>1, <3>2, <3>3, LockGivenBack
  <2>3. CASE deployed.locks /\ d.what # "lock"
    BY <1>1, <1>3, <1>7, <2>1, <2>3 DEF Delete
  <2>4. CASE ~deployed.locks
    <3>1. passes' \subseteq passes
      BY <1>7, <2>4, UnpassedTypes DEF Delete
    <3> QED BY <2>1, <2>4, <3>1 DEF LockInv
  <2> QED BY <2>2, <2>3, <2>4
<1>8. ASSUME NEW d \in doomed, DeleteFails(d)
      PROVE  LockInv' /\ passes' \subseteq passes /\ deployed' = deployed /\ (failed => failed')
  BY <1>1, <1>3, <1>8 DEF DeleteFails
<1>9. ASSUME NEW k \in LetterKeys, Janitor(k)
      PROVE  LockInv' /\ passes' \subseteq passes /\ deployed' = deployed /\ (failed => failed')
  BY <1>1, <1>3, <1>9 DEF Janitor
<1>10. CASE InboxTick \/ UNCHANGED <<now, inboxVars>>
  <2>1. UNCHANGED <<locks, deployed, desk, passes, failed>> /\ now <= now'
    BY <1>1, <1>10 DEF InboxTick, Advance, inboxVars
  <2> QED BY <1>3, <2>1
<1> QED BY <1>4, <1>5, <1>6, <1>7, <1>8, <1>9, <1>10

-----------------------------------------------------------------------------
(* The inbox: in KV alone, a single isolate accepts a nonce once.          *)

\* What MemoryInv is about.
InMemory ==
  /\ deployed.oneIsolate /\ ~deployed.locks /\ ~deployed.janitor
  /\ ~failed /\ CallLimit < ClaimTTL

\* The request c that asks KV had asked it before, and if it goes on to claim,
\* its nonce is not marked.
GoesOn(c) ==
  desk'[c].pc \in InKv =>
    /\ desk[c].pc \in InKv /\ desk'[c].letter = desk[c].letter /\ desk'[c].began = desk[c].began
    /\ claims'[KeyOf(c)] = claims[KeyOf(c)]
    /\ desk[c].pc = "looking" /\ desk'[c].pc # "looking" => marks[KeyOf(c)].until <= now

\* p was accepted before, or is now, and is marked from now on if its marker
\* changes.
Recorded(p) ==
  /\ \/ p \in passes
     \/ p.at = now /\ \A c \in InboxCalls : desk'[c].pc \in InKv => KeyOf(c) # p.key
  /\ \/ p \in passes /\ marks'[p.key].until = marks[p.key].until
     \/ marks'[p.key].until = now + LockTTL

\* A step in which no request begins to ask KV.
LEMMA MemoryStep ==
  ASSUME BaseInv, MemoryInv, BaseInv', now <= now', UNCHANGED deployed, failed => failed',
         \A c \in InboxCalls : GoesOn(c),
         \A p \in passes' : Recorded(p),
         \A d \in doomed' : d \in doomed \/ d.what # "claim" \/ deployed.janitor
  PROVE  MemoryInv'
<1> SUFFICES ASSUME InMemory PROVE MemoryInv'
  BY DEF MemoryInv, InMemory
<1>1. /\ now \in Nat /\ now' \in Nat /\ LockTTL \in Nat
      /\ \A p \in passes : p.key \in LetterKeys /\ p.at \in Nat
      /\ \A k \in LetterKeys : marks[k].until \in Nat
      /\ \A c \in InboxCalls : desk[c].pc # "idle" => KeyOf(c) \in LetterKeys
  BY InboxTypes DEF BaseInv
<1>2. ASSUME NEW c \in InboxCalls, desk'[c].pc \in InKv
      PROVE  desk[c].pc \in InKv /\ KeyOf(c)' = KeyOf(c)
  BY <1>2 DEF GoesOn, KeyOf
<1>3. ASSUME NEW c \in InboxCalls, desk'[c].pc \in InKv
      PROVE  /\ claims'[KeyOf(c)] = desk'[c].began + ClaimTTL
             /\ \A d \in InboxCalls : desk'[d].pc \in InKv /\ KeyOf(d)' = KeyOf(c)' => d = c
  BY <1>2, <1>3 DEF GoesOn, MemoryInv, InMemory
<1>4. ASSUME NEW c \in InboxCalls, desk'[c].pc \in InKv, desk'[c].pc # "looking",
             NEW p \in passes', p.key = KeyOf(c)
      PROVE  p.at + LockTTL <= now'
  <2>1. p \in passes /\ p.at \in Nat
    BY <1>1, <1>4 DEF Recorded
  <2>2. CASE desk[c].pc = "looking"
    <3>1. marks[p.key].until <= now
      BY <1>4, <2>2 DEF GoesOn
    <3>2. p.at + LockTTL <= now \/ p.at + LockTTL <= marks[p.key].until
      BY <2>1 DEF MemoryInv, InMemory
    <3> QED BY <1>1, <2>1, <3>1, <3>2
  <2>3. CASE desk[c].pc # "looking"
    <3>1. p.at + LockTTL <= now
      BY <1>2, <1>4, <2>1, <2>3 DEF MemoryInv, InMemory
    <3> QED BY <1>1, <2>1, <3>1
  <2> QED BY <2>2, <2>3
<1>5. ASSUME NEW p \in passes'
      PROVE  /\ p.at <= now'
             /\ p.at + LockTTL <= now' \/ p.at + LockTTL <= marks'[p.key].until
  <2>1. p.at \in Nat /\ p.at <= now
    BY <1>1 DEF Recorded, MemoryInv, InMemory
  <2>2. CASE p \in passes /\ marks'[p.key].until = marks[p.key].until
    <3>1. p.at + LockTTL <= now \/ p.at + LockTTL <= marks[p.key].until
      BY <2>2 DEF MemoryInv, InMemory
    <3> QED BY <1>1, <2>1, <2>2, <3>1
  <2>3. CASE marks'[p.key].until = now + LockTTL
    BY <1>1, <2>1, <2>3
  <2> QED BY <2>2, <2>3 DEF Recorded
<1>6. \A d \in doomed' : d.what # "claim"
  BY DEF MemoryInv, InMemory
<1>7. ASSUME NEW c \in InboxCalls, (desk[c].pc \in InKv)'
      PROVE  (/\ claims[KeyOf(c)] = desk[c].began + ClaimTTL
              /\ \A d \in InboxCalls : desk[d].pc \in InKv /\ KeyOf(d) = KeyOf(c) => d = c
              /\ desk[c].pc # "looking" =>
                   \A p \in passes : p.key = KeyOf(c) => p.at + LockTTL <= now)'
  BY <1>2, <1>3, <1>4, <1>7 DEF InKv
<1> QED BY <1>5, <1>6, <1>7 DEF MemoryInv

\* The claim of a request that asks KV has not expired.
LEMMA ClaimIsHeld ==
  ASSUME BaseInv, MemoryInv, InMemory, NEW c \in InboxCalls, desk[c].pc \in InKv
  PROVE  claims[KeyOf(c)] > now
<1>1. /\ desk[c].began \in Nat /\ CallLimit \in Nat /\ now \in Nat /\ ClaimTTL \in Nat
  BY InboxTypes DEF BaseInv
<1>2. now <= desk[c].began + CallLimit /\ claims[KeyOf(c)] = desk[c].began + ClaimTTL
  BY DEF BaseInv, Flying, MemoryInv, InMemory, InKv
<1> QED BY <1>1, <1>2 DEF InMemory

\* A request begins to claim a nonce that no other one has.
LEMMA MemoryPost ==
  ASSUME BaseInv, MemoryInv, BaseInv', NEW c \in InboxCalls, NEW l \in Letters, PostLetter(c, l)
  PROVE  MemoryInv'
<1> SUFFICES ASSUME InMemory PROVE MemoryInv'
  BY DEF MemoryInv, InMemory, PostLetter
<1> DEFINE k == LetterKey(l)
<1>1. /\ k \in LetterKeys /\ now \in Nat /\ ClaimTTL \in Nat
      /\ \A d \in InboxCalls : desk[d].pc # "idle" => KeyOf(d) \in LetterKeys
  BY InboxTypes DEF BaseInv, LetterKeys
<1>2. /\ claims[k] <= now
      /\ TakeUp(c, l, "looking", {})
      /\ claims' = [claims EXCEPT ![k] = now + ClaimTTL]
      /\ UNCHANGED <<now, deployed, items, marks, locks, doomed, failed, peak, passes>>
  BY DEF PostLetter, InMemory
<1>3. /\ \A d \in InboxCalls : d # c => desk'[d] = desk[d]
      /\ desk'[c].pc = "looking" /\ desk'[c].letter = l /\ desk'[c].began = now
  BY <1>2, TakeUpStep DEF Places, Claiming, InKv, InMemory
<1>4. KeyOf(c)' = k /\ \A d \in InboxCalls : d # c => KeyOf(d)' = KeyOf(d)
  BY <1>3 DEF KeyOf
<1>5. \A d \in InboxCalls : desk[d].pc \in InKv => claims[KeyOf(d)] > now
  BY ClaimIsHeld
<1>6. \A j \in LetterKeys : claims'[j] = IF j = k THEN now + ClaimTTL ELSE claims[j]
  BY <1>1, <1>2 DEF BaseInv, InboxTypeOK, Expiries
<1>7. ASSUME NEW d \in InboxCalls, d # c, desk[d].pc \in InKv
      PROVE  KeyOf(d) # k /\ claims'[KeyOf(d)] = claims[KeyOf(d)]
  <2>1. KeyOf(d) # k
    BY <1>1, <1>2, <1>5, <1>7, InboxTypes
  <2> QED BY <1>1, <1>6, <1>7, <2>1 DEF InKv
<1> HIDE DEF k
<1>8. ASSUME NEW d \in InboxCalls, (desk[d].pc \in InKv)'
      PROVE  (/\ claims[KeyOf(d)] = desk[d].began + ClaimTTL
              /\ \A e \in InboxCalls : desk[e].pc \in InKv /\ KeyOf(e) = KeyOf(d) => e = d
              /\ desk[d].pc # "looking" =>
                   \A p \in passes : p.key = KeyOf(d) => p.at + LockTTL <= now)'
  <2>1. CASE d = c
    BY <1>1, <1>2, <1>3, <1>4, <1>6, <1>7, <2>1
  <2>2. CASE d # c
    BY <1>2, <1>3, <1>4, <1>7, <1>8, <2>2 DEF MemoryInv, InMemory
  <2> QED BY <2>1, <2>2
<1> QED BY <1>2, <1>8 DEF MemoryInv, InMemory

\* No one else asks KV about the nonce of a request that does.
LEMMA AloneInKv ==
  ASSUME MemoryInv, InMemory, NEW c \in InboxCalls, desk[c].pc \in InKv,
         NEW d \in InboxCalls \ {c}, desk[d].pc \in InKv
  PROVE  KeyOf(d) # KeyOf(c)
BY DEF MemoryInv, InMemory, InKv

\* A request releases its nonce, and no one else's.
LEMMA MemoryRelease ==
  ASSUME BaseInv, MemoryInv, BaseInv', NEW c \in InboxCalls, desk[c].pc \in InKv,
         ReleaseClaim(c), desk'[c].pc \notin InKv,
         \A d \in InboxCalls : d # c => desk'[d] = desk[d],
         UNCHANGED <<now, deployed, doomed>>, failed => failed',
         InMemory => \A p \in passes' : Recorded(p)
  PROVE  MemoryInv'
<1> SUFFICES ASSUME InMemory PROVE MemoryInv'
  BY DEF MemoryInv, InMemory
<1>1. /\ now <= now' /\ KeyOf(c) \in LetterKeys
      /\ \A d \in InboxCalls : desk[d].pc # "idle" => KeyOf(d) \in LetterKeys
  BY InboxTypes DEF BaseInv, InKv
<1>2. ASSUME NEW d \in InboxCalls PROVE GoesOn(d)
  <2> SUFFICES ASSUME desk'[d].pc \in InKv PROVE GoesOn(d)
    BY DEF GoesOn
  <2>1. d # c /\ desk'[d] = desk[d] /\ KeyOf(d) # KeyOf(c) /\ KeyOf(d) \in LetterKeys
    BY <1>1, AloneInKv DEF InKv
  <2>2. claims'[KeyOf(d)] = claims[KeyOf(d)]
    BY <2>1, ReleaseTypes DEF InKv
  <2> QED BY <2>1, <2>2 DEF GoesOn
<1> QED BY <1>1, <1>2, MemoryStep

\* What was accepted stays recorded where no marker of it changes.
LEMMA StillRecorded ==
  ASSUME passes' \subseteq passes, \A p \in passes' : marks'[p.key] = marks[p.key]
  PROVE  \A p \in passes' : Recorded(p)
BY DEF Recorded

\* The steps of a nonce in KV alone.
LEMMA MemoryNonceStep ==
  ASSUME BaseInv, MemoryInv, AcceptedOnce, BaseInv', NEW c \in InboxCalls,
         \/ LookUp(c) \/ PutClaim(c) \/ CheckClaim(c) \/ SettleClaim(c) \/ KvBusy(c) \/ KvFails(c)
  PROVE  MemoryInv' /\ AcceptedOnce'
<1>1. /\ desk[c].pc \in InKv /\ ~deployed.locks
      /\ UNCHANGED <<now, deployed, doomed>> /\ (failed => failed')
  BY DEF LookUp, PutClaim, CheckClaim, SettleClaim, KvBusy, KvFails, InKv, BaseInv, Flying
<1>2. /\ now \in Nat /\ now <= now' /\ LockTTL \in Nat
      /\ KeyOf(c) \in LetterKeys
      /\ \A p \in passes : p.key \in LetterKeys
  BY <1>1, InboxTypes DEF BaseInv, InKv
<1>3. CASE UNCHANGED <<marks, passes>> /\ Leave(c) /\ ReleaseClaim(c)
  <2>1. /\ desk'[c].pc = "idle" /\ \A d \in InboxCalls : d # c => desk'[d] = desk[d]
    BY <1>1, <1>3, LeaveStep, InboxTypes
  <2>2. \A p \in passes' : Recorded(p)
    BY <1>3, StillRecorded
  <2>3. MemoryInv'
    BY <1>1, <1>3, <2>1, <2>2, MemoryRelease DEF InKv
  <2> QED BY <1>1, <1>3, <2>3, OnceKept
<1>4. ASSUME NEW pc \in InKv, Proceed(c, pc), UNCHANGED <<claims, passes>>,
             \A p \in passes : Recorded(p),
             desk[c].pc = "looking" /\ pc # "looking" => marks[KeyOf(c)].until <= now
      PROVE  MemoryInv' /\ AcceptedOnce'
  <2>1. \A d \in InboxCalls : desk'[d] = IF d = c THEN Moved(c, pc) ELSE desk[d]
    BY <1>1, <1>4, ProceedStep DEF InKv, Places, Claiming
  <2>2. Moved(c, pc).pc = pc /\ Moved(c, pc).letter = desk[c].letter /\ Moved(c, pc).began = desk[c].began
    BY <1>4, MovedTypes DEF InKv, Places, Claiming
  <2>3. \A d \in InboxCalls : GoesOn(d)
    BY <1>1, <1>4, <2>1, <2>2 DEF GoesOn
  <2>4. MemoryInv'
    BY <1>1, <1>2, <1>4, <2>3, MemoryStep
  <2> QED BY <1>1, <1>4, <2>4, OnceKept
<1>5. CASE LookUp(c)
  <2>1. CASE KeyOf(c) \in LiveMarks
    BY <1>3, <1>5, <2>1 DEF LookUp
  <2>2. CASE KeyOf(c) \notin LiveMarks
    <3>1. marks[KeyOf(c)].until <= now
      BY <1>2, <2>2, InboxTypes DEF LiveMarks
    <3>2. \A p \in passes : Recorded(p)
      BY <1>5, StillRecorded DEF LookUp
    <3> QED BY <1>4, <1>5, <2>2, <3>1, <3>2 DEF LookUp, InKv
  <2> QED BY <2>1, <2>2
<1>6. CASE PutClaim(c)
  <2>1. \A k \in LetterKeys :
          marks'[k].until = IF k = KeyOf(c) THEN now + LockTTL ELSE marks[k].until
    BY <1>2, <1>6 DEF PutClaim, BaseInv, InboxTypeOK
  <2>2. \A p \in passes : Recorded(p)
    BY <1>2, <2>1 DEF Recorded
  <2> QED BY <1>4, <1>6, <2>2 DEF PutClaim, InKv
<1>7. CASE CheckClaim(c)
  <2>1. \A p \in passes : Recorded(p)
    BY <1>7, StillRecorded DEF CheckClaim
  <2> QED BY <1>3, <1>4, <1>7, <2>1 DEF CheckClaim, InKv
<1>8. CASE SettleClaim(c)
  <2>1. \A d \in InboxCalls : desk'[d] = IF d = c THEN Moved(c, "counting") ELSE desk[d]
    BY <1>1, <1>8, ProceedStep DEF SettleClaim, Places, InKv
  <2>2. desk'[c].pc \notin InKv /\ \A d \in InboxCalls : d # c => desk'[d] = desk[d]
    BY <2>1, MovedTypes DEF Places, InKv
  <2>3. \A k \in LetterKeys :
          marks'[k].until = IF k = KeyOf(c) THEN now + LockTTL ELSE marks[k].until
    BY <1>2, <1>8 DEF SettleClaim, BaseInv, InboxTypeOK
  <2>4. \/ passes' = passes
        \/ \E r : r.key = KeyOf(c) /\ r.at = now /\ passes' = passes \cup {r}
    <3>1. PICK at \in Nat \cup {Excused} : Accept(c, at) /\ (at = Excused \/ at = now)
      BY <1>2, <1>8 DEF SettleClaim
    <3> QED BY <1>1, <3>1, AcceptTypes DEF InKv
  <2>5. ASSUME InMemory
        PROVE  (\A p \in passes' : Recorded(p)) /\ AcceptedOnce'
    <3>1. \A p \in passes : Recorded(p)
      BY <1>2, <2>3 DEF Recorded
    <3>2. CASE passes' = passes
      BY <1>1, <3>1, <3>2, OnceKept
    <3>3. CASE \E r : r.key = KeyOf(c) /\ r.at = now /\ passes' = passes \cup {r}
      <4>1. PICK r : r.key = KeyOf(c) /\ r.at = now /\ passes' = passes \cup {r}
        BY <3>3
      <4>2. \A d \in InboxCalls : desk'[d].pc \in InKv => KeyOf(d) # r.key
        BY <1>1, <2>2, <2>5, <4>1, AloneInKv
      <4>3. Recorded(r)
        BY <1>2, <2>3, <4>1, <4>2 DEF Recorded
      <4>4. \A p \in passes : p.key = r.key => p.at + LockTTL <= r.at
        BY <1>1, <1>8, <2>5, <4>1 DEF MemoryInv, InMemory, SettleClaim, InKv
      <4>5. \A p, q \in passes : p # q /\ p.key = q.key =>
              p.at + LockTTL <= q.at \/ q.at + LockTTL <= p.at
        BY <2>5 DEF AcceptedOnce, InMemory
      <4>6. \A p, q \in passes' : p # q /\ p.key = q.key =>
              p.at + LockTTL <= q.at \/ q.at + LockTTL <= p.at
        BY <4>1, <4>4, <4>5
      <4>7. AcceptedOnce'
        BY <4>6 DEF AcceptedOnce
      <4> QED BY <3>1, <4>1, <4>3, <4>7
    <3> QED BY <2>4, <3>2, <3>3
  <2>6. MemoryInv'
    BY <1>1, <1>8, <2>2, <2>5, MemoryRelease DEF SettleClaim
  <2>7. CASE ~InMemory
    <3>1. deployed' = deployed /\ failed' = failed /\ ~deployed.locks
      BY <1>1, <1>8 DEF SettleClaim
    <3> QED BY <2>6, <2>7, <3>1 DEF AcceptedOnce, InMemory
  <2> QED BY <2>5, <2>6, <2>7
<1>9. CASE KvBusy(c)
  <2>1. \A p \in passes : Recorded(p)
    BY <1>9, StillRecorded DEF KvBusy
  <2> QED BY <1>4, <1>9, <2>1 DEF KvBusy, InKv
<1>10. CASE KvFails(c)
  <2>1. failed' /\ passes' = passes
    BY <1>10 DEF KvFails
  <2> QED BY <1>1, <2>1, OnceKept DEF MemoryInv
<1> QED BY <1>5, <1>6, <1>7, <1>8, <1>9, <1>10

\* Of the other steps, none asks KV about a nonce, or marks one.
LEMMA MemoryRestStep ==
  ASSUME BaseInv, MemoryInv, BaseInv',
         \/ \E c \in InboxCalls, l \in Letters : GetLetter(c, l) \/ Forget(c, l)
         \/ \E c \in InboxCalls :
              \/ CountSubject(c) \/ StoreLetter(c) \/ StoreLetterFails(c)
              \/ ReadLetter(c) \/ RemoveLetter(c)
              \/ ForgetAll(c) \/ ForgetSome(c) \/ ForgetFails(c)
              \/ EvictIsolate(c)
         \/ \E d \in doomed : Delete(d) \/ DeleteFails(d)
         \/ \E k \in LetterKeys : Janitor(k)
         \/ InboxTick
         \/ UNCHANGED <<now, inboxVars>>
  PROVE  MemoryInv'
<1>1. now \in Nat /\ now <= now /\ now <= now + 1
  BY DEF BaseInv
<1>2. ASSUME UNCHANGED <<claims, marks, passes, deployed>>, now <= now', failed => failed',
             \A c \in InboxCalls :
               desk'[c].pc \in InKv => desk'[c] = desk[c],
             \A d \in doomed' : d \in doomed \/ d.what # "claim" \/ deployed.janitor
      PROVE  MemoryInv'
  <2>1. \A p \in passes' : Recorded(p)
    BY <1>2, StillRecorded
  <2>2. \A c \in InboxCalls : GoesOn(c)
    BY <1>2 DEF GoesOn
  <2> QED BY <1>2, <2>1, <2>2, MemoryStep
<1>3. ASSUME NEW c \in InboxCalls, NEW l \in Letters, GetLetter(c, l) \/ Forget(c, l)
      PROVE  MemoryInv'
  <2>1. UNCHANGED <<now, deployed, claims, marks, passes, failed, doomed>>
    BY <1>3 DEF GetLetter, Forget
  <2>2. Under(l.subject, LiveItems) \in SUBSET LetterKeys /\ {} \in SUBSET LetterKeys
    BY DEF Under, LiveItems
  <2>3. /\ \A d \in InboxCalls : d # c => desk'[d] = desk[d]
        /\ desk'[c].pc \in {"reading", "listing"}
    BY <1>3, <2>1, <2>2, TakeUpStep DEF GetLetter, Forget, Places, InKv
  <2>4. \A d \in InboxCalls : desk'[d].pc \in InKv => desk'[d] = desk[d]
    BY <2>3 DEF InKv
  <2> QED BY <1>1, <1>2, <2>1, <2>4
<1>4. ASSUME NEW c \in InboxCalls,
             \/ CountSubject(c) \/ StoreLetter(c) \/ StoreLetterFails(c)
             \/ ReadLetter(c) \/ RemoveLetter(c)
             \/ ForgetAll(c) \/ ForgetSome(c) \/ ForgetFails(c)
      PROVE  MemoryInv'
  <2>1. /\ UNCHANGED <<now, deployed, claims, marks, passes>> /\ (failed => failed')
        /\ desk[c].pc # "idle"
    BY <1>4, LetterMoves
  <2>2. Leave(c) \/ Proceed(c, "storing") \/ Proceed(c, "removing")
    BY <1>4, LetterMoves
  <2>3. /\ \A d \in InboxCalls : d # c => desk'[d] = desk[d]
        /\ desk'[c].pc \in {"idle", "storing", "removing"}
    BY <2>1, <2>2, LeaveStep, ProceedStep, MovedTypes, InboxTypes DEF Places, InKv
  <2>4. \A d \in InboxCalls : desk'[d].pc \in InKv => desk'[d] = desk[d]
    BY <2>3 DEF InKv
  <2>5. \A d \in doomed' : d \in doomed \/ d.what # "claim"
    BY <1>4, LetterMoves
  <2> QED BY <1>1, <1>2, <2>1, <2>4, <2>5
<1>5. ASSUME NEW c \in InboxCalls, EvictIsolate(c) PROVE MemoryInv'
  BY <1>5 DEF EvictIsolate, MemoryInv
<1>6. ASSUME NEW d \in doomed, Delete(d) PROVE MemoryInv'
  <2>1. UNCHANGED <<now, deployed, claims, failed>> /\ doomed' = doomed \ {d}
    BY <1>6 DEF Delete
  <2>2. d.key \in LetterKeys
    BY DEF BaseInv, InboxTypeOK
  <2>3. CASE ~InMemory
    BY <2>1, <2>3 DEF MemoryInv, InMemory
  <2>4. CASE InMemory
    <3>1. d.what # "claim" /\ ~deployed.locks
      BY <2>4 DEF MemoryInv, InMemory
    <3>2. CASE d.what # "mark"
      <4>1. UNCHANGED <<marks, passes, desk>>
        BY <1>6, <3>1, <3>2 DEF Delete
      <4> QED BY <1>1, <1>2, <2>1, <4>1
    <3>3. CASE d.what = "mark"
      <4>1. passes' = Unpassed(d.key) /\ desk' = Excuse(d.key) /\ marks' = [marks EXCEPT ![d.key] = NoMark]
        BY <1>6, <3>1, <3>3 DEF Delete
      <4>2. passes' \subseteq passes /\ \A p \in passes' : marks'[p.key] = marks[p.key]
        BY <4>1, UnpassedTypes, InboxTypes DEF BaseInv, InboxTypeOK
      <4>3. \A p \in passes' : Recorded(p)
        BY <4>2, StillRecorded
      <4>4. \A c \in InboxCalls : GoesOn(c)
        BY <2>1, <2>2, <4>1, ExcuseTypes DEF GoesOn
      <4> QED BY <1>1, <2>1, <4>3, <4>4, MemoryStep
    <3> QED BY <3>2, <3>3
  <2> QED BY <2>3, <2>4
<1>7. ASSUME NEW d \in doomed, DeleteFails(d) PROVE MemoryInv'
  BY <1>7 DEF DeleteFails, MemoryInv
<1>8. ASSUME NEW k \in LetterKeys, Janitor(k) PROVE MemoryInv'
  BY <1>8 DEF Janitor, MemoryInv
<1>9. CASE InboxTick \/ UNCHANGED <<now, inboxVars>>
  <2>1. UNCHANGED <<claims, marks, passes, deployed, desk, doomed, failed>> /\ now <= now'
    BY <1>1, <1>9 DEF InboxTick, Advance, inboxVars
  <2> QED BY <1>2, <2>1
<1> QED BY <1>3, <1>4, <1>5, <1>6, <1>7, <1>8, <1>9

-----------------------------------------------------------------------------
(* The inbox: a nonce is accepted once.                                    *)

OnceInv == BaseInv /\ LockInv /\ MemoryInv /\ AcceptedOnce

\* At first nothing is asked, and nothing has been.
LEMMA OnceInit ==
  ASSUME InitClock, InboxInit
  PROVE  OnceInv
<1>1. /\ now = 0 /\ deployed \in Deployments /\ desk = [c \in InboxCalls |-> Vacant]
      /\ doomed = {} /\ passes = {} /\ failed = FALSE /\ started = 0 /\ peak = 0 /\ vowed = {}
      /\ items = [k \in LetterKeys |-> 0] /\ locks = [k \in LetterKeys |-> 0]
      /\ claims = [k \in LetterKeys |-> 0] /\ marks = [k \in LetterKeys |-> NoMark]
  BY DEF InitClock, InboxInit
<1>2. \A c \in InboxCalls : desk[c].pc = "idle" /\ Flying(desk[c])
  BY <1>1 DEF Vacant, Flying, InKv
<1>3. InboxTypeOK
  <2>1. Vacant \in Desk /\ NoMark \in [until : Nat, by : InboxCalls \cup {Settled}]
    BY DEF Vacant, Desk, NoMark
  <2>2. started \in 0 .. MaxCalls
    BY <1>1, InboxAssumption
  <2> QED BY <1>1, <2>1, <2>2 DEF InboxTypeOK, Expiries
<1>4. BaseInv
  BY <1>1, <1>2, <1>3, FS_EmptySet DEF BaseInv
<1> QED BY <1>1, <1>2, <1>4 DEF OnceInv, LockInv, MemoryInv, AcceptedOnce, Marking, InKv

\* Every step keeps it.
LEMMA OnceNext ==
  ASSUME OnceInv, [InboxNext]_<<now, inboxVars>>
  PROVE  OnceInv'
<1> USE DEF OnceInv
<1>1. BaseInv'
  BY BaseNext
<1>2. ASSUME NEW c \in InboxCalls,
             \/ ClaimLock(c) \/ LockHeld(c) \/ LockLost(c)
             \/ PutMarker(c) \/ MarkerFails(c) \/ ClearLock(c)
      PROVE  OnceInv'
  <2>1. deployed.locks /\ deployed' = deployed /\ (failed => failed')
    BY <1>2 DEF ClaimLock, LockHeld, LockLost, PutMarker, MarkerFails, ClearLock, BaseInv, Flying
  <2>2. MemoryInv'
    BY <2>1 DEF MemoryInv
  <2>3. CASE PutMarker(c)
    <3>1. LockInv' /\ (CallLimit < LockTTL => AcceptedOnce')
      BY <1>1, <2>3, LockAccepted
    <3>2. CallLimit < ClaimTTL => CallLimit < LockTTL
      BY InboxTypes
    <3>3. ~(CallLimit < LockTTL) => AcceptedOnce'
      BY <3>2 DEF AcceptedOnce
    <3> QED BY <1>1, <2>2, <3>1, <3>3
  <2>4. CASE ~PutMarker(c)
    <3>1. LockInv' /\ passes' \subseteq passes
      BY <1>1, <1>2, <2>4, LockNonceStep
    <3> QED BY <1>1, <2>1, <2>2, <3>1, OnceKept
  <2> QED BY <2>3, <2>4
<1>3. ASSUME NEW c \in InboxCalls,
             \/ LookUp(c) \/ PutClaim(c) \/ CheckClaim(c) \/ SettleClaim(c) \/ KvBusy(c) \/ KvFails(c)
      PROVE  OnceInv'
  <2>1. ~deployed.locks /\ deployed' = deployed
    BY <1>3 DEF LookUp, PutClaim, CheckClaim, SettleClaim, KvBusy, KvFails, InKv, BaseInv, Flying
  <2>2. LockInv'
    BY <2>1 DEF LockInv
  <2> QED BY <1>1, <1>3, <2>2, MemoryNonceStep
<1>4. ASSUME NEW c \in InboxCalls, NEW l \in Letters, PostLetter(c, l)
      PROVE  OnceInv'
  BY <1>1, <1>4, MemoryPost, LockRestStep, OnceKept
<1>5. ASSUME \/ \E c \in InboxCalls, l \in Letters : GetLetter(c, l) \/ Forget(c, l)
             \/ \E c \in InboxCalls :
                  \/ CountSubject(c) \/ StoreLetter(c) \/ StoreLetterFails(c)
                  \/ ReadLetter(c) \/ RemoveLetter(c)
                  \/ ForgetAll(c) \/ ForgetSome(c) \/ ForgetFails(c)
                  \/ EvictIsolate(c)
             \/ \E d \in doomed : Delete(d) \/ DeleteFails(d)
             \/ \E k \in LetterKeys : Janitor(k)
             \/ InboxTick
             \/ UNCHANGED <<now, inboxVars>>
      PROVE  OnceInv'
  <2>1. MemoryInv'
    BY <1>1, <1>5, MemoryRestStep
  <2>2. LockInv' /\ passes' \subseteq passes /\ deployed' = deployed /\ (failed => failed')
    BY <1>1, <1>5, LockRestStep
  <2> QED BY <1>1, <2>1, <2>2, OnceKept
<1> QED BY <1>2, <1>3, <1>4, <1>5 DEF InboxNext, Nonce

\* However many requests overlap, fail, or lose their answers, a nonce is
\* accepted once in REPLAY_TTL: where Durable Objects are bound, and in KV alone
\* while a single isolate lives.
THEOREM NonceAcceptedOnce == InboxSpec => []AcceptedOnce
<1>1. InitClock /\ InboxInit => OnceInv
  BY OnceInit
<1>2. OnceInv /\ [InboxNext]_<<now, inboxVars>> => OnceInv'
  BY OnceNext
<1>3. OnceInv => AcceptedOnce
  BY DEF OnceInv
<1> QED BY <1>1, <1>2, <1>3, PTL DEF InboxSpec

-----------------------------------------------------------------------------
(* The inbox: locks have their markers.                                    *)

\* A lock is let go of, stays, or is new and about to be marked; a marker goes,
\* stays, or is put; who marks goes on or has put the marker.
LEMMA MarkStep ==
  ASSUME BaseInv, MarkInv, BaseInv', UNCHANGED deployed, failed => failed', now <= now',
         \A k \in LetterKeys :
           \/ locks'[k] = locks[k] \/ locks'[k] = 0
           \/ deployed.locks /\ locks'[k] = now + LockTTL /\ (failed' \/ Marked(k)'),
         \A k \in LetterKeys :
           \/ marks'[k].until = marks[k].until \/ marks'[k].until = 0
           \/ marks'[k].until = now + LockTTL,
         deployed.locks =>
           /\ \A k \in LetterKeys : marks'[k].by \in {marks[k].by, Settled}
           /\ \A d \in doomed' : d \in doomed \/ d.what # "claim",
         ~failed' =>
           /\ \A c \in InboxCalls : desk'[c].pc # "clearing"
           /\ \A k \in LetterKeys : Marked(k) => Marked(k)' \/ marks'[k].until = now + LockTTL
  PROVE  MarkInv'
<1>1. /\ now \in Nat /\ now' \in Nat /\ LockTTL \in Nat
      /\ \A k \in LetterKeys :
           /\ locks[k] \in Nat /\ marks[k].until \in Nat
           /\ locks'[k] \in Nat /\ marks'[k].until \in Nat
  BY InboxTypes DEF BaseInv, InboxTypeOK, Expiries
<1>2. ASSUME NEW k \in LetterKeys PROVE locks'[k] <= now' + LockTTL
  BY <1>1 DEF MarkInv
<1>3. ASSUME NEW k \in LetterKeys, ~deployed.locks PROVE locks'[k] = 0
  BY <1>3 DEF MarkInv
<1>4. ASSUME NEW k \in LetterKeys, ~failed'
      PROVE  locks'[k] <= marks'[k].until \/ marks'[k].until = 0 \/ Marked(k)'
  BY <1>1, <1>4 DEF MarkInv
<1>5. ASSUME deployed.locks
      PROVE  /\ \A k \in LetterKeys : marks'[k].by = Settled
             /\ \A d \in doomed' : d.what # "claim"
  BY <1>5 DEF MarkInv
<1> QED BY <1>2, <1>3, <1>4, <1>5 DEF MarkInv

\* A request that marks k, and goes on.
LEMMA StillMarked ==
  ASSUME \A c \in InboxCalls : desk[c].pc = "marking" =>
           desk'[c].pc = "marking" /\ desk'[c].letter = desk[c].letter
  PROVE  \A k \in LetterKeys : Marked(k) => Marked(k)'
BY DEF Marked, KeyOf

\* The steps of a nonce with a Durable Object.
LEMMA MarkLockStep ==
  ASSUME BaseInv, MarkInv, BaseInv', NEW c \in InboxCalls,
         \/ ClaimLock(c) \/ LockHeld(c) \/ LockLost(c)
         \/ PutMarker(c) \/ MarkerFails(c) \/ ClearLock(c)
  PROVE  MarkInv'
<1>1. /\ now \in Nat /\ now <= now /\ deployed.locks /\ KeyOf(c) \in LetterKeys
      /\ desk[c].pc \in {"locking", "marking", "clearing"}
  <2>1. desk[c].pc \in {"locking", "marking", "clearing"}
    BY DEF ClaimLock, LockHeld, LockLost, PutMarker, MarkerFails, ClearLock
  <2> QED BY <2>1, InboxTypes DEF BaseInv, Flying
<1>2. UNCHANGED <<now, deployed, doomed>> /\ (failed => failed')
  BY DEF ClaimLock, LockHeld, LockLost, PutMarker, MarkerFails, ClearLock
<1>3. \A k \in LetterKeys : locks'[k] \in {locks[k], 0, now + LockTTL}
  BY <1>1 DEF ClaimLock, LockHeld, LockLost, PutMarker, MarkerFails, ClearLock, BaseInv, InboxTypeOK, Expiries
<1>4. \A k \in LetterKeys :
        marks'[k] = marks[k] \/ (marks'[k].until = now + LockTTL /\ marks'[k].by = Settled)
  BY <1>1 DEF ClaimLock, LockHeld, LockLost, PutMarker, MarkerFails, ClearLock, BaseInv, InboxTypeOK
<1>5. CASE ClaimLock(c)
  <2> DEFINE q == [desk[c] EXCEPT !.pc = "marking", !.at = now]
  <2>1. desk' = [desk EXCEPT ![c] = q] /\ locks' = [locks EXCEPT ![KeyOf(c)] = now + LockTTL]
    BY <1>5 DEF ClaimLock
  <2>2. q.pc = "marking" /\ q.letter = desk[c].letter
    BY InboxTypes DEF Desk
  <2> HIDE DEF q
  <2>3. desk'[c] = q /\ \A d \in InboxCalls \ {c} : desk'[d] = desk[d]
    BY <2>1 DEF BaseInv, InboxTypeOK
  <2>4. ASSUME NEW k \in LetterKeys, k = KeyOf(c) PROVE Marked(k)'
    <3>1. desk'[c].pc = "marking" /\ KeyOf(c)' = k
      BY <2>2, <2>3, <2>4 DEF KeyOf
    <3> QED BY <3>1 DEF Marked
  <2>5. ASSUME NEW k \in LetterKeys
        PROVE  locks'[k] = locks[k] \/ (locks'[k] = now + LockTTL /\ Marked(k)')
    <3>1. CASE k = KeyOf(c)
      BY <1>1, <2>1, <2>4, <3>1 DEF BaseInv, InboxTypeOK, Expiries
    <3>2. CASE k # KeyOf(c)
      BY <1>1, <2>1, <3>2 DEF BaseInv, InboxTypeOK, Expiries
    <3> QED BY <3>1, <3>2
  <2>6. \A d \in InboxCalls : desk[d].pc = "marking" =>
          desk'[d].pc = "marking" /\ desk'[d].letter = desk[d].letter
    BY <2>2, <2>3
  <2>7. \A k \in LetterKeys : Marked(k) => Marked(k)'
    BY <2>6, StillMarked
  <2>8. ~failed' => \A d \in InboxCalls : desk'[d].pc # "clearing"
    BY <1>2, <2>2, <2>3 DEF MarkInv
  <2> QED BY <1>1, <1>2, <1>4, <2>5, <2>7, <2>8, MarkStep
<1>6. CASE LockHeld(c)
  <2>1. \A d \in InboxCalls : desk'[d] = IF d = c THEN Vacant ELSE desk[d]
    BY <1>6, LeaveStep DEF LockHeld
  <2>2. \A d \in InboxCalls : desk[d].pc = "marking" =>
          desk'[d].pc = "marking" /\ desk'[d].letter = desk[d].letter
    BY <1>6, <2>1 DEF LockHeld
  <2>3. ~failed' => \A d \in InboxCalls : desk'[d].pc # "clearing"
    BY <1>2, <2>1, InboxTypes DEF MarkInv
  <2>4. locks' = locks
    BY <1>6 DEF LockHeld
  <2> QED BY <1>1, <1>2, <1>4, <2>2, <2>3, <2>4, StillMarked, MarkStep
<1>7. CASE LockLost(c) \/ MarkerFails(c)
  <2>1. failed'
    BY <1>7 DEF LockLost, MarkerFails
  <2> QED BY <1>1, <1>2, <1>3, <1>4, <2>1, MarkStep
<1>8. CASE PutMarker(c)
  <2>1. \A d \in InboxCalls : desk'[d] = IF d = c THEN Moved(c, "counting") ELSE desk[d]
    BY <1>8, ProceedStep DEF PutMarker, Places, InKv
  <2>2. desk'[c].pc = "counting"
    BY <2>1, MovedTypes DEF Places
  <2>3. locks' = locks /\ marks'[KeyOf(c)].until = now + LockTTL
    BY <1>1, <1>8 DEF PutMarker, BaseInv, InboxTypeOK
  <2>4. \A k \in LetterKeys : Marked(k) => Marked(k)' \/ marks'[k].until = now + LockTTL
    BY <2>1, <2>3 DEF Marked, KeyOf
  <2>5. ~failed' => \A d \in InboxCalls : desk'[d].pc # "clearing"
    BY <1>2, <2>1, <2>2 DEF MarkInv
  <2> QED BY <1>1, <1>2, <1>4, <2>3, <2>4, <2>5, MarkStep
<1>9. CASE ClearLock(c)
  <2>1. failed /\ failed'
    BY <1>2, <1>9 DEF ClearLock, MarkInv
  <2>2. \A k \in LetterKeys : locks'[k] \in {locks[k], 0}
    BY <1>1, <1>9 DEF ClearLock, BaseInv, InboxTypeOK, Expiries
  <2> QED BY <1>1, <1>2, <1>4, <2>1, <2>2, MarkStep
<1> QED BY <1>5, <1>6, <1>7, <1>8, <1>9

\* The other steps.
LEMMA MarkRestStep ==
  ASSUME BaseInv, MarkInv, BaseInv',
         \/ \E c \in InboxCalls, l \in Letters :
              PostLetter(c, l) \/ GetLetter(c, l) \/ Forget(c, l)
         \/ \E c \in InboxCalls :
              \/ LookUp(c) \/ PutClaim(c) \/ CheckClaim(c) \/ SettleClaim(c) \/ KvBusy(c) \/ KvFails(c)
              \/ CountSubject(c) \/ StoreLetter(c) \/ StoreLetterFails(c)
              \/ ReadLetter(c) \/ RemoveLetter(c)
              \/ ForgetAll(c) \/ ForgetSome(c) \/ ForgetFails(c)
              \/ EvictIsolate(c)
         \/ \E d \in doomed : Delete(d) \/ DeleteFails(d)
         \/ \E k \in LetterKeys : Janitor(k)
         \/ InboxTick
         \/ UNCHANGED <<now, inboxVars>>
  PROVE  MarkInv'
<1>1. now \in Nat /\ now <= now /\ now <= now + 1
  BY DEF BaseInv
<1>2. ASSUME UNCHANGED <<deployed, locks, marks>>, failed => failed', now <= now',
             deployed.locks => \A d \in doomed' : d \in doomed \/ d.what # "claim",
             ~failed' => \A c \in InboxCalls :
               /\ desk'[c].pc # "clearing"
               /\ desk[c].pc = "marking" =>
                    desk'[c].pc = "marking" /\ desk'[c].letter = desk[c].letter
      PROVE  MarkInv'
  <2>1. ~failed' => \A k \in LetterKeys : Marked(k) => Marked(k)'
    BY <1>2, StillMarked
  <2> QED BY <1>2, <2>1, MarkStep
<1>3. ASSUME NEW c \in InboxCalls, NEW l \in Letters,
             PostLetter(c, l) \/ GetLetter(c, l) \/ Forget(c, l)
      PROVE  MarkInv'
  <2>1. UNCHANGED <<now, deployed, locks, marks, doomed, failed>> /\ desk[c].pc = "idle"
    BY <1>3 DEF PostLetter, GetLetter, Forget, TakeUp
  <2>2. Under(l.subject, LiveItems) \in SUBSET LetterKeys /\ {} \in SUBSET LetterKeys
    BY DEF Under, LiveItems
  <2>3. /\ \A d \in InboxCalls : d # c => desk'[d] = desk[d]
        /\ desk'[c].pc \in {"locking", "looking", "reading", "listing"}
    BY <1>3, <2>1, <2>2, TakeUpStep
       DEF PostLetter, GetLetter, Forget, Places, Claiming, InKv
  <2>4. ~failed' => \A d \in InboxCalls :
          /\ desk'[d].pc # "clearing"
          /\ desk[d].pc = "marking" => desk'[d].pc = "marking" /\ desk'[d].letter = desk[d].letter
    BY <2>1, <2>3 DEF MarkInv
  <2> QED BY <1>1, <1>2, <2>1, <2>4
<1>4. ASSUME NEW c \in InboxCalls,
             \/ LookUp(c) \/ PutClaim(c) \/ CheckClaim(c) \/ SettleClaim(c) \/ KvBusy(c) \/ KvFails(c)
      PROVE  MarkInv'
  <2>1. /\ ~deployed.locks /\ UNCHANGED <<now, deployed, locks>> /\ (failed => failed')
        /\ desk[c].pc \in InKv
    <3>1. /\ UNCHANGED <<now, deployed, locks>> /\ (failed => failed')
          /\ desk[c].pc \in InKv
      BY <1>4 DEF LookUp, PutClaim, CheckClaim, SettleClaim, KvBusy, KvFails, InKv
    <3> QED BY <3>1 DEF BaseInv, Flying
  <2>2. Leave(c) \/ \E pc \in InKv \cup {"counting"} : Proceed(c, pc)
    BY <1>4 DEF LookUp, PutClaim, CheckClaim, SettleClaim, KvBusy, KvFails, InKv
  <2>3. /\ \A d \in InboxCalls : d # c => desk'[d] = desk[d]
        /\ desk'[c].pc \in InKv \cup {"idle", "counting"}
    <3>1. CASE Leave(c)
      BY <2>1, <3>1, LeaveStep, InboxTypes
    <3>2. ASSUME NEW pc \in InKv \cup {"counting"}, Proceed(c, pc)
          PROVE  /\ \A d \in InboxCalls : d # c => desk'[d] = desk[d]
                 /\ desk'[c].pc \in InKv \cup {"idle", "counting"}
      BY <2>1, <3>2, ProceedStep, MovedTypes DEF InKv, Places, Claiming
    <3> QED BY <2>2, <3>1, <3>2
  <2>4. ~failed' =>
          /\ \A d \in InboxCalls : desk'[d].pc # "clearing"
          /\ \A k \in LetterKeys : Marked(k) => Marked(k)'
    <3>1. \A d \in InboxCalls : desk[d].pc = "marking" =>
            desk'[d].pc = "marking" /\ desk'[d].letter = desk[d].letter
      BY <2>1, <2>3 DEF InKv
    <3>2. ~failed' => \A d \in InboxCalls : desk'[d].pc # "clearing"
      BY <2>1, <2>3 DEF MarkInv, InKv
    <3> QED BY <3>1, <3>2, StillMarked
  <2>5. \A k \in LetterKeys : marks'[k].until = marks[k].until \/ marks'[k].until = now + LockTTL
    <3>1. UNCHANGED marks \/ \E who : marks' = [marks EXCEPT ![KeyOf(c)] = [until |-> now + LockTTL, by |-> who]]
      <4>1. CASE LookUp(c) \/ CheckClaim(c) \/ KvBusy(c)
        BY <4>1 DEF LookUp, CheckClaim, KvBusy
      <4>2. CASE PutClaim(c)
        BY <4>2 DEF PutClaim
      <4>3. CASE SettleClaim(c)
        BY <4>3 DEF SettleClaim
      <4>4. CASE KvFails(c)
        <5>1. CASE desk[c].pc = "claiming"
          BY <4>4, <5>1 DEF KvFails
        <5>2. CASE desk[c].pc = "settling"
          BY <4>4, <5>2 DEF KvFails
        <5>3. CASE desk[c].pc \notin {"claiming", "settling"}
          BY <4>4, <5>3 DEF KvFails
        <5> QED BY <5>1, <5>2, <5>3
      <4> QED BY <1>4, <4>1, <4>2, <4>3, <4>4
    <3>2. DOMAIN marks = LetterKeys
      BY DEF BaseInv, InboxTypeOK
    <3> QED BY <3>1, <3>2
  <2> QED BY <1>1, <2>1, <2>4, <2>5, MarkStep
<1>5. ASSUME NEW c \in InboxCalls,
             \/ CountSubject(c) \/ StoreLetter(c) \/ StoreLetterFails(c)
             \/ ReadLetter(c) \/ RemoveLetter(c)
             \/ ForgetAll(c) \/ ForgetSome(c) \/ ForgetFails(c)
      PROVE  MarkInv'
  <2>1. /\ UNCHANGED <<now, deployed, locks, marks>> /\ (failed => failed')
        /\ desk[c].pc \notin {"idle", "marking"}
    BY <1>5, LetterMoves
  <2>2. Leave(c) \/ Proceed(c, "storing") \/ Proceed(c, "removing")
    BY <1>5, LetterMoves
  <2>3. /\ \A d \in InboxCalls : d # c => desk'[d] = desk[d]
        /\ desk'[c].pc \in {"idle", "storing", "removing"}
    BY <2>1, <2>2, LeaveStep, ProceedStep, MovedTypes, InboxTypes DEF Places, InKv
  <2>4. ~failed' => \A d \in InboxCalls :
          /\ desk'[d].pc # "clearing"
          /\ desk[d].pc = "marking" => desk'[d].pc = "marking" /\ desk'[d].letter = desk[d].letter
    BY <2>1, <2>3 DEF MarkInv
  <2>5. \A d \in doomed' : d \in doomed \/ d.what # "claim"
    BY <1>5, LetterMoves
  <2> QED BY <1>1, <1>2, <2>1, <2>4, <2>5
<1>6. ASSUME NEW c \in InboxCalls, EvictIsolate(c) PROVE MarkInv'
  BY <1>1, <1>2, <1>6 DEF EvictIsolate
<1>7. ASSUME NEW d \in doomed, Delete(d) PROVE MarkInv'
  <2>1. UNCHANGED <<now, deployed, failed>> /\ doomed' = doomed \ {d} /\ d.key \in LetterKeys
    BY <1>7 DEF Delete, BaseInv, InboxTypeOK
  <2>2. \A k \in LetterKeys : locks'[k] \in {locks[k], 0}
    BY <1>7, <2>1 DEF Delete, BaseInv, InboxTypeOK, Expiries
  <2>3. \A k \in LetterKeys : marks'[k] \in {marks[k], NoMark}
    BY <1>7, <2>1 DEF Delete, BaseInv, InboxTypeOK
  <2>4. \A c \in InboxCalls : desk'[c].pc = desk[c].pc /\ desk'[c].letter = desk[c].letter
    BY <1>7, <2>1, ExcuseTypes DEF Delete
  <2>5. NoMark.until = 0 /\ NoMark.by = Settled
    BY DEF NoMark
  <2>6. \A k \in LetterKeys : marks'[k].until \in {marks[k].until, 0} /\ marks'[k].by \in {marks[k].by, Settled}
    BY <2>3, <2>5
  <2>7. ~failed' => \A c \in InboxCalls : desk'[c].pc # "clearing"
    BY <2>1, <2>4 DEF MarkInv
  <2>8. \A k \in LetterKeys : Marked(k) => Marked(k)'
    BY <2>4, StillMarked
  <2> QED BY <1>1, <2>1, <2>2, <2>6, <2>7, <2>8, MarkStep
<1>8. ASSUME NEW d \in doomed, DeleteFails(d) PROVE MarkInv'
  BY <1>1, <1>2, <1>8 DEF DeleteFails
<1>9. ASSUME NEW k \in LetterKeys, Janitor(k) PROVE MarkInv'
  <2>1. /\ ~deployed.locks /\ UNCHANGED <<now, deployed, locks, marks, desk, failed>>
    BY <1>9 DEF Janitor, MarkInv
  <2>2. ~failed' => \A c \in InboxCalls : desk'[c].pc # "clearing"
    BY <2>1 DEF MarkInv
  <2> QED BY <1>1, <1>2, <2>1, <2>2
<1>10. CASE InboxTick \/ UNCHANGED <<now, inboxVars>>
  <2>1. UNCHANGED <<deployed, locks, marks, desk, failed, doomed>> /\ now <= now'
    BY <1>1, <1>10 DEF InboxTick, Advance, inboxVars
  <2>2. ~failed' => \A c \in InboxCalls : desk'[c].pc # "clearing"
    BY <2>1 DEF MarkInv
  <2> QED BY <1>2, <2>1, <2>2
<1> QED BY <1>3, <1>4, <1>5, <1>6, <1>7, <1>8, <1>9, <1>10

-----------------------------------------------------------------------------
(* The inbox: what a forget found goes.                                    *)

\* Where a request does nothing that a forget has to fear.
Calm == {"idle", "reading", "removing", "listing"}

\* c's listing ends, and has doomed what it found of k.
Listed(c, k) ==
  /\ k \in desk[c].found => [what |-> "item", key |-> k] \in doomed'
  /\ k \in LiveMarks =>
       /\ [what |-> "mark", key |-> k] \in doomed'
       /\ k \in Locked => [what |-> "lock", key |-> k] \in doomed'

\* A step that leaves the key k, or dooms it.
LEMMA VowKept ==
  ASSUME NEW k \in LetterKeys, Vowed(k), now' = now, doomed \subseteq doomed',
         \A c \in InboxCalls :
           desk[c].pc \in Calm \/ KeyOf(c) # k => desk'[c].pc \in Calm \/ KeyOf(c)' # k,
         items'[k] > now => items[k] > now,
         marks'[k] = marks[k], locks'[k] = locks[k],
         [what |-> "mark", key |-> k] \in doomed' =>
           \/ [what |-> "mark", key |-> k] \in doomed
           \/ [what |-> "lock", key |-> k] \in doomed' \/ k \notin Locked,
         \A c \in InboxCalls : Finds(c, k) => desk'[c] = desk[c] \/ Listed(c, k)
  PROVE  Vowed(k)'
<1> DEFINE item == [what |-> "item", key |-> k]
           mark == [what |-> "mark", key |-> k]
           lock == [what |-> "lock", key |-> k]
<1>1. /\ (k \in LiveItems)' => k \in LiveItems
      /\ (k \in LiveMarks)' <=> k \in LiveMarks
      /\ (k \in Locked)' <=> k \in Locked
  BY DEF LiveItems, LiveMarks, Locked
<1>2. ASSUME NEW c \in InboxCalls, Finds(c, k)
      PROVE  Listed(c, k) \/ (Finds(c, k)' /\ desk'[c].found = desk[c].found)
  BY <1>2 DEF Finds
<1>3. \A c \in InboxCalls : desk'[c].pc \in Calm \/ KeyOf(c)' # k
  BY DEF Vowed, Calm
<1>4. (k \in LiveItems)' => item \in doomed' \/ \E c \in InboxCalls : Finds(c, k)' /\ k \in desk'[c].found
  BY <1>1, <1>2 DEF Vowed, Listed
<1>5. (k \in LiveMarks)' => mark \in doomed' \/ \E c \in InboxCalls : Finds(c, k)'
  BY <1>1, <1>2 DEF Vowed, Listed
<1>6. (k \in Locked)' =>
        \/ lock \in doomed'
        \/ (k \in LiveMarks)' /\ mark \notin doomed' /\ \E c \in InboxCalls : Finds(c, k)'
  BY <1>1, <1>2 DEF Vowed, Listed
<1> QED BY <1>3, <1>4, <1>5, <1>6 DEF Vowed, Calm

\* The steps of a request that lists nothing and begins nothing: what they
\* change is under its own key, which is not vowed unless the request is calm.
LEMMA VowOwnStep ==
  ASSUME BaseInv, VowInv, UNCHANGED <<now, doomed, vowed>>, failed => failed',
         NEW c \in InboxCalls, desk[c].pc # "listing",
         \A d \in InboxCalls : d # c => desk'[d] = desk[d],
         desk'[c].pc \in Calm \/ (desk[c].pc \notin Calm /\ desk'[c].letter = desk[c].letter),
         \A k \in LetterKeys :
           k # KeyOf(c) \/ desk[c].pc \in Calm =>
             items'[k] \in {items[k], 0} /\ marks'[k] = marks[k] /\ locks'[k] = locks[k]
  PROVE  VowInv'
<1> SUFFICES ASSUME ~failed', NEW k \in vowed PROVE Vowed(k)'
  BY DEF VowInv
<1>1. k \in LetterKeys /\ Vowed(k) /\ now \in Nat
  BY DEF BaseInv, InboxTypeOK, VowInv
<1>2. k # KeyOf(c) \/ desk[c].pc \in Calm
  BY <1>1 DEF Vowed, Calm
<1>3. \A d \in InboxCalls :
        desk[d].pc \in Calm \/ KeyOf(d) # k => desk'[d].pc \in Calm \/ KeyOf(d)' # k
  BY DEF KeyOf
<1>4. \A d \in InboxCalls : Finds(d, k) => desk'[d] = desk[d]
  BY DEF Finds
<1>5. items'[k] \in {items[k], 0} /\ marks'[k] = marks[k] /\ locks'[k] = locks[k]
  BY <1>1, <1>2
<1>6. items'[k] > now => items[k] > now
  BY <1>1, <1>5
<1> QED BY <1>1, <1>3, <1>4, <1>5, <1>6, VowKept

\* Of the steps of a nonce, and of a letter.
LEMMA VowCallStep ==
  ASSUME BaseInv, MarkInv, VowInv, NEW c \in InboxCalls,
         \/ Nonce(c)
         \/ CountSubject(c) \/ StoreLetter(c) \/ StoreLetterFails(c)
         \/ ReadLetter(c) \/ RemoveLetter(c)
  PROVE  VowInv'
<1>1. /\ desk[c].pc # "idle" => KeyOf(c) \in LetterKeys
      /\ ~(Vacant.pc \notin Calm)
  BY InboxTypes DEF Calm
<1>2. desk[c].pc \in {"locking", "marking", "clearing"} => deployed.locks
  BY DEF BaseInv, Flying
<1>3. desk[c].pc \in InKv => ~deployed.locks
  BY DEF BaseInv, Flying
<1>4. ASSUME UNCHANGED <<now, deployed, doomed, vowed>>, failed => failed', desk[c].pc \notin {"idle", "listing"},
             Leave(c) \/ \E pc \in Places \ {"idle", "reading", "listing"} :
                           /\ Proceed(c, pc) /\ (pc = "removing" <=> desk[c].pc = "reading")
                           /\ pc \in {"locking", "marking", "clearing"} => deployed.locks
                           /\ pc \in InKv => ~deployed.locks,
             desk[c].pc = "removing" => Leave(c),
             \A k \in LetterKeys :
               k # KeyOf(c) \/ desk[c].pc \in Calm =>
                 items'[k] \in {items[k], 0} /\ marks'[k] = marks[k] /\ locks'[k] = locks[k]
      PROVE  VowInv'
  <2>1. CASE Leave(c)
    <3>1. \A d \in InboxCalls : desk'[d] = IF d = c THEN Vacant ELSE desk[d]
      BY <1>4, <2>1, LeaveStep
    <3> QED BY <1>1, <1>4, <3>1, VowOwnStep
  <2>2. CASE ~Leave(c)
    <3>1. PICK pc \in Places \ {"idle", "reading", "listing"} :
            /\ Proceed(c, pc) /\ (pc = "removing" <=> desk[c].pc = "reading")
            /\ pc \in {"locking", "marking", "clearing"} => deployed.locks
            /\ pc \in InKv => ~deployed.locks
      BY <1>4, <2>2
    <3>2. \A d \in InboxCalls : desk'[d] = IF d = c THEN Moved(c, pc) ELSE desk[d]
      BY <1>4, <3>1, ProceedStep
    <3>3. desk'[c].pc = pc /\ desk'[c].letter = desk[c].letter
      BY <3>1, <3>2, MovedTypes
    <3>4. desk'[c].pc \in Calm \/ (desk[c].pc \notin Calm /\ desk'[c].letter = desk[c].letter)
      BY <1>4, <2>2, <3>1, <3>3 DEF Calm
    <3> QED BY <1>4, <3>2, <3>4, VowOwnStep
  <2> QED BY <2>1, <2>2
<1>5. CASE failed'
  BY <1>5 DEF VowInv
<1>6. CASE ClaimLock(c)
  <2> DEFINE q == [desk[c] EXCEPT !.pc = "marking", !.at = now]
  <2>1. desk' = [desk EXCEPT ![c] = q]
    BY <1>6 DEF ClaimLock
  <2>2. q.pc = "marking" /\ q.letter = desk[c].letter
    BY InboxTypes DEF Desk
  <2> HIDE DEF q
  <2>3. desk'[c] = q /\ \A d \in InboxCalls : d # c => desk'[d] = desk[d]
    BY <2>1 DEF BaseInv, InboxTypeOK
  <2>4. \A k \in LetterKeys : k # KeyOf(c) => locks'[k] = locks[k]
    BY <1>6 DEF ClaimLock, BaseInv, InboxTypeOK, Expiries
  <2>5. /\ UNCHANGED <<now, deployed, doomed, vowed, items, marks, failed>>
        /\ desk[c].pc = "locking" /\ desk[c].pc \notin Calm
    BY <1>6 DEF ClaimLock, Calm
  <2> QED BY <2>2, <2>3, <2>4, <2>5, VowOwnStep
<1>7. CASE LockHeld(c)
  BY <1>4, <1>7 DEF LockHeld
<1>8. CASE LockLost(c) \/ MarkerFails(c) \/ ClearLock(c) \/ KvFails(c) \/ StoreLetterFails(c)
  <2>1. failed' \/ (ClearLock(c) /\ failed' = failed /\ desk[c].pc = "clearing")
    BY <1>8 DEF LockLost, MarkerFails, ClearLock, KvFails, StoreLetterFails
  <2>2. failed'
    BY <2>1 DEF MarkInv
  <2> QED BY <1>5, <2>2
<1>9. CASE PutMarker(c)
  <2>1. \A k \in LetterKeys : k # KeyOf(c) => marks'[k] = marks[k]
    BY <1>1, <1>9 DEF PutMarker, BaseInv, InboxTypeOK
  <2>2. desk[c].pc = "marking" /\ desk[c].pc \notin Calm
    BY <1>9 DEF PutMarker, Calm
  <2> QED BY <1>4, <1>9, <2>1, <2>2 DEF PutMarker, Places, InKv
<1>10. CASE LookUp(c) \/ CheckClaim(c) \/ KvBusy(c)
  <2>1. /\ UNCHANGED <<now, deployed, doomed, vowed, items, marks, locks, failed>>
        /\ desk[c].pc \in InKv
        /\ Leave(c) \/ \E pc \in {"claiming", "settling", "looking"} : Proceed(c, pc)
    BY <1>10 DEF LookUp, CheckClaim, KvBusy, InKv
  <2> QED BY <1>3, <1>4, <2>1 DEF InKv, Places, Claiming
<1>11. CASE PutClaim(c) \/ SettleClaim(c)
  <2>1. \A k \in LetterKeys : k # KeyOf(c) => marks'[k] = marks[k]
    BY <1>1, <1>11 DEF PutClaim, SettleClaim, BaseInv, InboxTypeOK
  <2>2. /\ UNCHANGED <<now, deployed, doomed, vowed, items, locks, failed>>
        /\ desk[c].pc \in {"claiming", "settling"} /\ desk[c].pc \notin Calm
        /\ \E pc \in {"owning", "counting"} : Proceed(c, pc)
    BY <1>11 DEF PutClaim, SettleClaim, Calm
  <2> QED BY <1>3, <1>4, <2>1, <2>2 DEF InKv, Places, Claiming
<1>12. CASE CountSubject(c) \/ ReadLetter(c)
  <2>1. /\ UNCHANGED <<now, deployed, doomed, vowed, items, marks, locks, failed>>
        /\ \/ desk[c].pc = "counting" /\ (Leave(c) \/ Proceed(c, "storing"))
           \/ desk[c].pc = "reading" /\ (Leave(c) \/ Proceed(c, "removing"))
    BY <1>12 DEF CountSubject, ReadLetter
  <2> QED BY <1>4, <2>1 DEF InKv, Places
<1>13. CASE StoreLetter(c) \/ RemoveLetter(c)
  <2>1. \A k \in LetterKeys :
          k # KeyOf(c) \/ desk[c].pc \in Calm => items'[k] \in {items[k], 0}
    BY <1>1, <1>13 DEF StoreLetter, RemoveLetter, Calm, BaseInv, InboxTypeOK, Expiries
  <2>2. /\ UNCHANGED <<now, deployed, doomed, vowed, marks, locks>> /\ (failed => failed')
        /\ desk[c].pc \in {"storing", "removing"} /\ Leave(c)
    BY <1>13 DEF StoreLetter, RemoveLetter
  <2> QED BY <1>4, <2>1, <2>2
<1> QED BY <1>6, <1>7, <1>8, <1>9, <1>10, <1>11, <1>12, <1>13 DEF Nonce

\* What begins: a posted nonce is vowed no more, and a forget vows what it finds.
LEMMA VowBeginStep ==
  ASSUME BaseInv, VowInv, NEW c \in InboxCalls, NEW l \in Letters,
         PostLetter(c, l) \/ GetLetter(c, l) \/ Forget(c, l)
  PROVE  VowInv'
<1> SUFFICES ASSUME ~failed', NEW k \in vowed' PROVE Vowed(k)'
  BY DEF VowInv
<1>1. /\ UNCHANGED <<now, deployed, items, marks, locks, doomed, failed>>
      /\ desk[c].pc = "idle" /\ now \in Nat
  BY DEF PostLetter, GetLetter, Forget, TakeUp, BaseInv
<1>2. Under(l.subject, LiveItems) \in SUBSET LetterKeys /\ {} \in SUBSET LetterKeys
  BY DEF Under, LiveItems
<1>3. /\ \A d \in InboxCalls : d # c => desk'[d] = desk[d]
      /\ desk'[c].letter = l
      /\ \/ PostLetter(c, l) /\ desk'[c].pc \in {"locking", "looking"}
         \/ GetLetter(c, l) /\ desk'[c].pc = "reading"
         \/ /\ Forget(c, l) /\ desk'[c].pc = "listing"
            /\ desk'[c].found = Under(l.subject, LiveItems)
  BY <1>1, <1>2, TakeUpStep DEF PostLetter, GetLetter, Forget, Places, Claiming, InKv
<1>4. k \in LetterKeys /\ (k \in vowed \/ (Forget(c, l) /\ k \in Vow(l.subject)))
  BY DEF PostLetter, GetLetter, Forget, Vow, Under, LiveItems, LiveMarks, BaseInv, InboxTypeOK
<1>5. CASE k \in vowed
  <2>1. desk'[c].pc \in Calm \/ KeyOf(c)' # k
    BY <1>3 DEF Calm, PostLetter, KeyOf
  <2>2. \A d \in InboxCalls :
          desk[d].pc \in Calm \/ KeyOf(d) # k => desk'[d].pc \in Calm \/ KeyOf(d)' # k
    BY <1>3, <2>1 DEF KeyOf
  <2>3. \A d \in InboxCalls : Finds(d, k) => desk'[d] = desk[d]
    BY <1>1, <1>3 DEF Finds
  <2>4. Vowed(k)
    BY <1>1, <1>5 DEF VowInv
  <2> QED BY <1>1, <1>4, <2>2, <2>3, <2>4, VowKept
<1>6. CASE Forget(c, l) /\ k \in Vow(l.subject)
  <2>1. desk'[c].pc = "listing" /\ desk'[c].found = Under(l.subject, LiveItems)
    BY <1>3, <1>6 DEF PostLetter, GetLetter, Forget, TakeUp
  <2>2. /\ IsStrictPrefix(l.subject, k)
        /\ k \in Locked => k \in LiveMarks /\ [what |-> "mark", key |-> k] \notin doomed
        /\ \A d \in InboxCalls : desk[d].pc \in Calm \/ KeyOf(d) # k
    BY <1>6 DEF Vow, Under, Calm
  <2>3. Finds(c, k)'
    BY <1>3, <2>1, <2>2 DEF Finds
  <2>4. \A d \in InboxCalls : desk'[d].pc \in Calm \/ KeyOf(d)' # k
    BY <1>3, <2>1, <2>2 DEF Calm, KeyOf
  <2>5. k \in LiveItems => k \in desk'[c].found
    BY <2>1, <2>2 DEF Under
  <2>6. /\ (k \in LiveItems)' <=> k \in LiveItems
        /\ (k \in LiveMarks)' <=> k \in LiveMarks
        /\ (k \in Locked)' <=> k \in Locked
    BY <1>1 DEF LiveItems, LiveMarks, Locked
  <2>7. (k \in LiveItems)' => \E d \in InboxCalls : Finds(d, k)' /\ k \in desk'[d].found
    BY <2>3, <2>5, <2>6
  <2>8. \E d \in InboxCalls : Finds(d, k)'
    BY <2>3
  <2> QED BY <1>1, <2>2, <2>4, <2>6, <2>7, <2>8 DEF Vowed, Calm
<1> QED BY <1>4, <1>5, <1>6

\* Markers are deleted together with their locks.
LEMMA DeletionsPair ==
  ASSUME NEW ls, NEW ms, NEW k
  PROVE  /\ [what |-> "item", key |-> k] \in Deletions(ls, ms) <=> k \in ls
         /\ [what |-> "mark", key |-> k] \in Deletions(ls, ms) <=> k \in ms
         /\ deployed.locks => ([what |-> "lock", key |-> k] \in Deletions(ls, ms) <=> k \in ms)
BY DEF Deletions

\* A forget ends: what it found is doomed, or it takes back its vow.
LEMMA VowForgetStep ==
  ASSUME BaseInv, MarkInv, VowInv, NEW c \in InboxCalls,
         ForgetAll(c) \/ ForgetSome(c) \/ ForgetFails(c)
  PROVE  VowInv'
<1> DEFINE subject == desk[c].letter.subject
           markers == Under(subject, LiveMarks)
<1> SUFFICES ASSUME ~failed', NEW k \in vowed' PROVE Vowed(k)'
  BY DEF VowInv
<1>1. /\ ~ForgetFails(c) /\ UNCHANGED <<now, deployed, items, marks, locks, failed>>
      /\ desk[c].pc = "listing" /\ Leave(c) /\ now \in Nat
  BY DEF ForgetAll, ForgetSome, ForgetFails, BaseInv
<1>2. \A d \in InboxCalls : desk'[d] = IF d = c THEN Vacant ELSE desk[d]
  BY <1>1, LeaveStep
<1>3. /\ k \in vowed /\ k \in LetterKeys
      /\ ForgetSome(c) => ~IsStrictPrefix(subject, k)
  BY <1>1 DEF ForgetAll, ForgetSome, Under, BaseInv, InboxTypeOK
<1>4. Vowed(k)
  BY <1>1, <1>3 DEF VowInv
<1>5. k \in Locked => deployed.locks
  BY <1>1, <1>3 DEF MarkInv, Locked
<1>6. \A d \in InboxCalls :
        desk[d].pc \in Calm \/ KeyOf(d) # k => desk'[d].pc \in Calm \/ KeyOf(d)' # k
  BY <1>2, InboxTypes DEF KeyOf, Calm
<1>7. PICK ls, ms :
        /\ doomed' = doomed \cup Deletions(ls, ms) /\ ms \subseteq markers
        /\ ForgetAll(c) => ls = desk[c].found /\ ms = markers
  <2>1. CASE ForgetAll(c)
    BY <2>1 DEF ForgetAll
  <2>2. CASE ForgetSome(c) /\ ~ForgetAll(c)
    <3>1. PICK ls \in Foremost(desk[c].found), ms \in Foremost(markers) :
            doomed' = doomed \cup Deletions(ls, ms)
      BY <2>2 DEF ForgetSome, Foremost
    <3> QED BY <2>2, <3>1, FirstOf
  <2> QED BY <1>1, <2>1, <2>2
<1>8. [what |-> "mark", key |-> k] \in doomed' =>
        \/ [what |-> "mark", key |-> k] \in doomed
        \/ [what |-> "lock", key |-> k] \in doomed' \/ k \notin Locked
  BY <1>5, <1>7, DeletionsPair
<1>9. ASSUME NEW d \in InboxCalls, Finds(d, k) PROVE desk'[d] = desk[d] \/ Listed(d, k)
  <2>1. CASE d # c
    BY <1>2, <2>1
  <2>2. CASE d = c
    <3>1. ForgetAll(c) /\ ls = desk[c].found /\ ms = markers
      BY <1>1, <1>3, <1>7, <1>9, <2>2 DEF Finds
    <3>2. k \in LiveMarks => k \in ms
      BY <1>9, <2>2, <3>1 DEF Finds, Under
    <3>3. Deletions(ls, ms) \subseteq doomed'
      BY <1>7
    <3>4. k \in desk[d].found => [what |-> "item", key |-> k] \in doomed'
      <4>1. k \in desk[d].found => k \in ls
        BY <2>2, <3>1
      <4>2. k \in ls => [what |-> "item", key |-> k] \in doomed'
        BY <3>3, DeletionsPair
      <4> QED BY <4>1, <4>2
    <3>5. k \in LiveMarks => [what |-> "mark", key |-> k] \in doomed'
      BY <3>2, <3>3, DeletionsPair
    <3>6. k \in LiveMarks /\ k \in Locked => [what |-> "lock", key |-> k] \in doomed'
      BY <1>5, <3>2, <3>3, DeletionsPair
    <3> QED BY <3>4, <3>5, <3>6 DEF Listed
  <2> QED BY <2>1, <2>2
<1>10. doomed \subseteq doomed' /\ (items'[k] > now => items[k] > now)
       /\ marks'[k] = marks[k] /\ locks'[k] = locks[k] /\ now' = now
  BY <1>1, <1>7
<1> QED BY <1>3, <1>4, <1>6, <1>8, <1>9, <1>10, VowKept

\* A deletion in the background takes what was doomed.
LEMMA VowDeleteStep ==
  ASSUME BaseInv, MarkInv, VowInv, NEW d \in doomed, Delete(d)
  PROVE  VowInv'
<1> SUFFICES ASSUME ~failed', NEW k \in vowed' PROVE Vowed(k)'
  BY DEF VowInv
<1>1. /\ UNCHANGED <<now, deployed, failed, vowed>> /\ doomed' = doomed \ {d}
      /\ d \in [what : {"item", "mark", "lock", "claim"}, key : LetterKeys] /\ now \in Nat
  BY DEF Delete, BaseInv, InboxTypeOK
<1>2. k \in LetterKeys /\ Vowed(k)
  BY <1>1 DEF BaseInv, InboxTypeOK, VowInv
<1>3. \A c \in InboxCalls :
        /\ desk'[c].pc = desk[c].pc /\ desk'[c].letter = desk[c].letter
        /\ desk'[c].found = desk[c].found
  BY <1>1, ExcuseTypes DEF Delete
<1>4. \A c \in InboxCalls : (Finds(c, k)' <=> Finds(c, k)) /\ KeyOf(c)' = KeyOf(c)
  BY <1>3 DEF Finds, KeyOf
<1>5. \A c \in InboxCalls : desk'[c].pc \in Calm \/ KeyOf(c)' # k
  BY <1>2, <1>3, <1>4 DEF Vowed, Calm
<1>6. /\ items'[k] = IF d.what = "item" /\ d.key = k THEN 0 ELSE items[k]
      /\ locks'[k] = IF d.what = "lock" /\ d.key = k THEN 0 ELSE locks[k]
      /\ marks'[k] = IF d.what \in {"mark", "claim"} /\ d.key = k THEN NoMark ELSE marks[k]
  BY <1>1, <1>2 DEF Delete, BaseInv, InboxTypeOK, Expiries
<1>7. NoMark.until = 0
  BY DEF NoMark
<1>8. /\ (k \in LiveItems)' => k \in LiveItems /\ ~(d.what = "item" /\ d.key = k)
      /\ (k \in LiveMarks)' => k \in LiveMarks /\ ~(d.what \in {"mark", "claim"} /\ d.key = k)
      /\ k \in LiveMarks /\ ~(d.what \in {"mark", "claim"} /\ d.key = k) => (k \in LiveMarks)'
      /\ (k \in Locked)' => k \in Locked /\ ~(d.what = "lock" /\ d.key = k)
  BY <1>1, <1>2, <1>6, <1>7 DEF LiveItems, LiveMarks, Locked
<1>9. ASSUME NEW w, [what |-> w, key |-> k] \in doomed, ~(d.what = w /\ d.key = k)
      PROVE  [what |-> w, key |-> k] \in doomed'
  BY <1>1, <1>9
<1>10. (k \in LiveItems)' =>
         \/ [what |-> "item", key |-> k] \in doomed'
         \/ \E c \in InboxCalls : Finds(c, k)' /\ k \in desk'[c].found
  BY <1>2, <1>3, <1>4, <1>8, <1>9 DEF Vowed
<1>11. (k \in LiveMarks)' =>
         \/ [what |-> "mark", key |-> k] \in doomed'
         \/ \E c \in InboxCalls : Finds(c, k)'
  BY <1>2, <1>4, <1>8, <1>9 DEF Vowed
<1>12. (k \in Locked)' =>
         \/ [what |-> "lock", key |-> k] \in doomed'
         \/ /\ (k \in LiveMarks)' /\ [what |-> "mark", key |-> k] \notin doomed'
            /\ \E c \in InboxCalls : Finds(c, k)'
  <2> SUFFICES ASSUME (k \in Locked)', [what |-> "lock", key |-> k] \notin doomed'
               PROVE  /\ (k \in LiveMarks)' /\ [what |-> "mark", key |-> k] \notin doomed'
                      /\ \E c \in InboxCalls : Finds(c, k)'
    OBVIOUS
  <2>1. /\ k \in LiveMarks /\ [what |-> "mark", key |-> k] \notin doomed
        /\ \E c \in InboxCalls : Finds(c, k)
    BY <1>2, <1>8, <1>9 DEF Vowed
  <2>2. deployed.locks
    BY <1>2, <1>8 DEF MarkInv, Locked, BaseInv
  <2>3. d.what # "claim"
    BY <2>2 DEF MarkInv
  <2>4. d.what = "mark" => d.key # k
    <3>1. d = [what |-> d.what, key |-> d.key]
      BY <1>1
    <3> QED BY <2>1, <3>1
  <2> QED BY <1>1, <1>4, <1>8, <2>1, <2>3, <2>4
<1> QED BY <1>5, <1>10, <1>11, <1>12 DEF Vowed, Calm

\* Time passes: a lock does not outlive its marker.
LEMMA VowTickStep ==
  ASSUME BaseInv, MarkInv, VowInv, InboxTick
  PROVE  VowInv'
<1> SUFFICES ASSUME ~failed', NEW k \in vowed' PROVE Vowed(k)'
  BY DEF VowInv
<1>1. /\ now \in Nat /\ now' = now + 1
      /\ UNCHANGED <<deployed, items, marks, locks, desk, doomed, failed, vowed>>
  BY DEF InboxTick, Advance, inboxVars, BaseInv
<1>2. k \in LetterKeys /\ Vowed(k)
  BY <1>1 DEF BaseInv, InboxTypeOK, VowInv
<1>3. items[k] \in Nat /\ locks[k] \in Nat /\ marks[k].until \in Nat
  BY <1>2, InboxTypes
<1>4. /\ (k \in LiveItems)' => k \in LiveItems
      /\ (k \in LiveMarks)' => k \in LiveMarks
      /\ (k \in Locked)' => k \in Locked
  BY <1>1, <1>2, <1>3 DEF LiveItems, LiveMarks, Locked
<1>5. \A c \in InboxCalls : (Finds(c, k)' <=> Finds(c, k)) /\ KeyOf(c)' = KeyOf(c)
  BY <1>1 DEF Finds, KeyOf
<1>6. ~Marked(k)
  BY <1>2 DEF Vowed, Marked
<1>7. (k \in Locked)' /\ k \in LiveMarks => (k \in LiveMarks)'
  <2>1. locks[k] <= marks[k].until \/ marks[k].until = 0
    BY <1>1, <1>2, <1>6 DEF MarkInv
  <2> QED BY <1>1, <1>2, <1>3, <2>1 DEF Locked, LiveMarks
<1> QED BY <1>1, <1>2, <1>4, <1>5, <1>7 DEF Vowed

\* The rest of the steps.
LEMMA VowRestStep ==
  ASSUME BaseInv, MarkInv, VowInv,
         \/ \E c \in InboxCalls : EvictIsolate(c)
         \/ \E d \in doomed : DeleteFails(d)
         \/ \E k \in LetterKeys : Janitor(k)
         \/ UNCHANGED <<now, inboxVars>>
  PROVE  VowInv'
<1>1. ASSUME NEW c \in InboxCalls, EvictIsolate(c) PROVE VowInv'
  BY <1>1 DEF EvictIsolate, VowInv
<1>2. ASSUME NEW d \in doomed, DeleteFails(d) PROVE VowInv'
  BY <1>2 DEF DeleteFails, VowInv
<1>3. ASSUME UNCHANGED <<now, items, marks, locks, desk, failed, vowed>>, doomed \subseteq doomed',
             \A d \in doomed' : d \in doomed \/ d.what = "claim"
      PROVE  VowInv'
  <2> SUFFICES ASSUME ~failed', NEW k \in vowed' PROVE Vowed(k)'
    BY DEF VowInv
  <2>1. k \in LetterKeys /\ Vowed(k)
    BY <1>3 DEF BaseInv, InboxTypeOK, VowInv
  <2>2. [what |-> "mark", key |-> k] \in doomed' => [what |-> "mark", key |-> k] \in doomed
    BY <1>3
  <2> QED BY <1>3, <2>1, <2>2, VowKept DEF KeyOf
<1>4. ASSUME NEW k \in LetterKeys, Janitor(k) PROVE VowInv'
  BY <1>3, <1>4 DEF Janitor
<1>5. CASE UNCHANGED <<now, inboxVars>>
  BY <1>3, <1>5 DEF inboxVars
<1> QED BY <1>1, <1>2, <1>4, <1>5

EraseInv == BaseInv /\ MarkInv /\ VowInv

\* Every step keeps it.
LEMMA EraseNext ==
  ASSUME EraseInv, [InboxNext]_<<now, inboxVars>>
  PROVE  EraseInv'
<1> USE DEF EraseInv
<1>1. BaseInv'
  BY BaseNext
<1>2. MarkInv'
  BY <1>1, MarkLockStep, MarkRestStep DEF InboxNext, Nonce
<1>3. VowInv'
  BY VowCallStep, VowBeginStep, VowForgetStep, VowDeleteStep, VowTickStep, VowRestStep
     DEF InboxNext
<1> QED BY <1>1, <1>2, <1>3

\* Whatever is posted, read and forgotten at the same time, and whatever is
\* deleted before: once a forget that nothing failed has ended, nothing is left of
\* what it found, in KV or locked in a Durable Object, but what was posted anew.
THEOREM ForgetErases == InboxSpec => []Erased
<1>1. InitClock /\ InboxInit => EraseInv
  <2> SUFFICES ASSUME InitClock, InboxInit PROVE EraseInv
    OBVIOUS
  <2>1. BaseInv
    BY OnceInit DEF OnceInv
  <2>2. /\ now = 0 /\ failed = FALSE /\ vowed = {} /\ doomed = {}
        /\ \A k \in LetterKeys : locks[k] = 0 /\ marks[k] = NoMark
        /\ \A c \in InboxCalls : desk[c].pc = "idle"
    BY DEF InitClock, InboxInit, Vacant
  <2>3. MarkInv
    BY <2>2, InboxAssumption DEF MarkInv, NoMark
  <2> QED BY <2>1, <2>2, <2>3 DEF EraseInv, VowInv
<1>2. EraseInv /\ [InboxNext]_<<now, inboxVars>> => EraseInv'
  BY EraseNext
<1>3. EraseInv => Erased
  <2> SUFFICES ASSUME EraseInv, ~failed, NEW k \in vowed,
                      k \in LiveItems \cup LiveMarks \cup Locked, \A d \in doomed : d.key # k
               PROVE  \E c \in InboxCalls :
                        desk[c].pc = "listing" /\ k \in Under(desk[c].letter.subject, {k})
    BY DEF Erased
  <2>1. \A w \in {"item", "mark", "lock"} : [what |-> w, key |-> k] \notin doomed
    OBVIOUS
  <2>2. PICK c \in InboxCalls : Finds(c, k)
    BY <2>1 DEF EraseInv, VowInv, Vowed
  <2> QED BY <2>2 DEF Finds, Under
<1> QED BY <1>1, <1>2, <1>3, PTL DEF InboxSpec

-----------------------------------------------------------------------------
(* The inbox: how many letters a subject has.                              *)

\* Stored letters and requests can be counted.
LEMMA Countable ==
  ASSUME BaseInv
  PROVE  /\ IsFiniteSet(LetterKeys) /\ IsFiniteSet(LiveItems)
         /\ \A l \in Letters :
              /\ IsFiniteSet(Stored(l)) /\ Cardinality(Stored(l)) \in Nat
              /\ IsFiniteSet(Storing(l)) /\ Cardinality(Storing(l)) \in Nat
         /\ SubjectMax \in Nat /\ ListLimit \in Nat /\ peak \in Nat
<1> DEFINE f == [l \in Letters |-> LetterKey(l)]
<1>1. f \in Surjection(Letters, LetterKeys)
  BY DEF LetterKeys, Surjection
<1>2. IsFiniteSet(LetterKeys)
  BY <1>1, FS_Surjection, InboxAssumption
<1>3. IsFiniteSet(LiveItems)
  BY <1>2, FS_Subset DEF LiveItems
<1>4. ASSUME NEW l \in Letters
      PROVE  /\ IsFiniteSet(Stored(l)) /\ Cardinality(Stored(l)) \in Nat
             /\ IsFiniteSet(Storing(l)) /\ Cardinality(Storing(l)) \in Nat
  <2>1. Stored(l) \subseteq LiveItems /\ Storing(l) \subseteq InboxCalls
    BY DEF Stored, Storing
  <2>2. IsFiniteSet(Stored(l)) /\ IsFiniteSet(Storing(l))
    BY <1>3, <2>1, FS_Subset, InboxAssumption
  <2> QED BY <2>2, FS_CardinalityType
<1> QED BY <1>2, <1>3, <1>4, InboxAssumption DEF BaseInv, InboxTypeOK

\* A step that stores nothing, and lets no request be about to.
LEMMA CountKept ==
  ASSUME BaseInv, CountInv, BaseInv', peak <= peak', LiveItems' \subseteq LiveItems,
         \A c \in InboxCalls : desk'[c].pc = "storing" =>
           desk[c].pc = "storing" /\ desk'[c].letter = desk[c].letter
  PROVE  CountInv'
<1> SUFFICES ASSUME SubjectMax \in 1 .. ListLimit, NEW l \in Letters,
                    (Cardinality(Stored(l)) + Cardinality(Storing(l)) > 0)'
             PROVE  (Cardinality(Stored(l)) + Cardinality(Storing(l)) < SubjectMax + peak)'
  BY DEF CountInv
<1>1. Stored(l)' \subseteq Stored(l) /\ Storing(l)' \subseteq Storing(l)
  BY DEF Stored, Own, Storing
<1>2. /\ Cardinality(Stored(l)') <= Cardinality(Stored(l))
      /\ Cardinality(Storing(l)') <= Cardinality(Storing(l))
  BY <1>1, Countable, FS_Subset
<1>3. /\ Cardinality(Stored(l)') \in Nat /\ Cardinality(Storing(l)') \in Nat
      /\ Cardinality(Stored(l)) \in Nat /\ Cardinality(Storing(l)) \in Nat
      /\ SubjectMax \in Nat /\ peak \in Nat /\ peak' \in Nat
  <2>1. IsFiniteSet(Stored(l)') /\ IsFiniteSet(Storing(l)')
    BY <1>1, Countable, FS_Subset
  <2> QED BY <2>1, Countable, FS_CardinalityType DEF BaseInv, InboxTypeOK
<1>4. Cardinality(Stored(l)) + Cardinality(Storing(l)) < SubjectMax + peak
  BY <1>2, <1>3 DEF CountInv
<1> QED BY <1>2, <1>3, <1>4

\* A letter is among those that listing its subject finds.
LEMMA OwnIsUnder ==
  ASSUME BaseInv, NEW l \in Letters
  PROVE  Stored(l) \subseteq Under(l.subject, LiveItems)
<1> SUFFICES ASSUME NEW m \in Letters, m.subject = l.subject, LetterKey(m) \in LiveItems
             PROVE  LetterKey(m) \in Under(l.subject, LiveItems)
  BY DEF Stored, Own
<1> DEFINE s == m.subject
           t == m.nonce
<1>1. s \in Seq(STRING) /\ t \in Seq(STRING) /\ t # <<>>
  BY InboxAssumption
<1> HIDE DEF s, t
<1>2. /\ Len(s \o t) = Len(s) + Len(t) /\ Len(s) \in Nat /\ Len(t) \in Nat /\ Len(t) # 0
      /\ s \o t \in Seq(STRING) /\ \A i \in 1 .. Len(s) : (s \o t)[i] = s[i]
  BY <1>1
<1>3. SubSeq(s, 1, Len(s)) = SubSeq(s \o t, 1, Len(s))
  BY <1>1, <1>2
<1>4. IsStrictPrefix(s, s \o t)
  BY <1>2, <1>3 DEF IsStrictPrefix, IsPrefix
<1> QED BY <1>4 DEF Under, LetterKey, s, t

\* A request that has counted the letters of its subject, and room for one more.
LEMMA CountCounted ==
  ASSUME BaseInv, CountInv, BaseInv', NEW c \in InboxCalls, CountSubject(c)
  PROVE  CountInv'
<1> DEFINE all == {d \in InboxCalls : desk[d].pc = "storing"}
<1>0. desk[c].pc = "counting" /\ desk[c].letter \in Letters
  BY DEF CountSubject, BaseInv, Flying
<1>1. LiveItems' = LiveItems /\ now' = now /\ deployed' = deployed
  BY DEF CountSubject, LiveItems
<1>2. IsFiniteSet(all) /\ Cardinality(all) \in Nat /\ c \notin all
  BY <1>0, FS_Subset, FS_CardinalityType, InboxAssumption
<1>3. CASE Leave(c) /\ UNCHANGED peak
  BY <1>1, <1>3, LeaveStep, CountKept, Countable DEF Vacant
<1>4. CASE /\ ~SubjectFull(desk[c].letter.subject) /\ Proceed(c, "storing")
           /\ peak' = IF Cardinality(all) + 1 > peak THEN Cardinality(all) + 1 ELSE peak
  <2> SUFFICES ASSUME SubjectMax \in 1 .. ListLimit, NEW l \in Letters
               PROVE  (LET n == Cardinality(Stored(l)) + Cardinality(Storing(l))
                       IN  n > 0 => n < SubjectMax + peak)'
    BY DEF CountInv
  <2>1. peak <= peak' /\ Cardinality(all) + 1 <= peak' /\ peak' \in Nat
    BY <1>2, <1>4, Countable
  <2>2. \A d \in InboxCalls : desk'[d] = IF d = c THEN Moved(c, "storing") ELSE desk[d]
    BY <1>0, <1>1, <1>4, ProceedStep DEF Places, InKv
  <2>3. Moved(c, "storing").pc = "storing" /\ Moved(c, "storing").letter = desk[c].letter
    BY MovedTypes DEF Places
  <2>4. Stored(l)' = Stored(l)
    BY <1>1 DEF Stored, Own
  <2>5. CASE desk[c].letter.subject = l.subject
    <3>1. Cardinality(Under(l.subject, LiveItems)) < SubjectMax
      <4>1. Cardinality(Under(l.subject, LiveItems)) \in Nat
        BY Countable, FS_Subset, FS_CardinalityType DEF Under
      <4> QED BY <1>4, <2>5, <4>1, Countable DEF SubjectFull, CurrentSubjectCount
    <3>2. Cardinality(Stored(l)) < SubjectMax
      <4>1. IsFiniteSet(Under(l.subject, LiveItems))
        BY Countable, FS_Subset DEF Under
      <4>2. Cardinality(Stored(l)) <= Cardinality(Under(l.subject, LiveItems))
        BY <4>1, OwnIsUnder, FS_Subset
      <4>3. Cardinality(Under(l.subject, LiveItems)) \in Nat
        BY <4>1, FS_CardinalityType
      <4> QED BY <3>1, <4>2, <4>3, Countable
    <3>3. Storing(l)' \subseteq all \cup {c}
      BY <2>2 DEF Storing
    <3>4. Cardinality(Storing(l)') <= Cardinality(all) + 1 /\ Cardinality(Storing(l)') \in Nat
      <4>1. IsFiniteSet(all \cup {c}) /\ Cardinality(all \cup {c}) = Cardinality(all) + 1
        BY <1>2, FS_AddElement
      <4>2. IsFiniteSet(Storing(l)') /\ Cardinality(Storing(l)') <= Cardinality(all \cup {c})
        BY <3>3, <4>1, FS_Subset
      <4> QED BY <4>1, <4>2, FS_CardinalityType
    <3> QED BY <1>2, <2>1, <2>4, <3>2, <3>4, Countable
  <2>6. CASE desk[c].letter.subject # l.subject
    <3>1. Storing(l)' = Storing(l)
      BY <1>0, <2>2, <2>3, <2>6 DEF Storing
    <3>2. LET n == Cardinality(Stored(l)) + Cardinality(Storing(l)) IN n > 0 => n < SubjectMax + peak
      BY DEF CountInv
    <3> QED BY <2>1, <2>4, <3>1, <3>2, Countable
  <2> QED BY <2>5, <2>6
<1> QED BY <1>3, <1>4 DEF CountSubject

\* A letter is stored: one more, and one less that is about to be.
LEMMA CountStored ==
  ASSUME BaseInv, CountInv, BaseInv', NEW c \in InboxCalls, StoreLetter(c) \/ StoreLetterFails(c)
  PROVE  CountInv'
<1>1. /\ desk[c].pc = "storing" /\ desk[c].letter \in Letters /\ Leave(c)
      /\ UNCHANGED <<now, deployed, peak>>
      /\ items' \in {items, [items EXCEPT ![KeyOf(c)] = now + ItemTTL]}
  BY DEF StoreLetter, StoreLetterFails, BaseInv, Flying
<1>2. \A d \in InboxCalls : desk'[d] = IF d = c THEN Vacant ELSE desk[d]
  BY <1>1, LeaveStep
<1>3. LiveItems' \subseteq LiveItems \cup {KeyOf(c)}
  BY <1>1 DEF LiveItems, BaseInv, InboxTypeOK, Expiries
<1> SUFFICES ASSUME SubjectMax \in 1 .. ListLimit, NEW l \in Letters
             PROVE  (LET n == Cardinality(Stored(l)) + Cardinality(Storing(l))
                     IN  n > 0 => n < SubjectMax + peak)'
  BY DEF CountInv
<1>4. LET n == Cardinality(Stored(l)) + Cardinality(Storing(l)) IN n > 0 => n < SubjectMax + peak
  BY DEF CountInv
<1>5. CASE desk[c].letter.subject = l.subject
  <2>1. Stored(l)' \subseteq Stored(l) \cup {KeyOf(c)}
    BY <1>3 DEF Stored, Own
  <2>2. c \in Storing(l) /\ Storing(l)' = Storing(l) \ {c}
    BY <1>1, <1>2, <1>5 DEF Storing, Vacant
  <2>3. /\ Cardinality(Stored(l)') <= Cardinality(Stored(l)) + 1
        /\ Cardinality(Stored(l)') \in Nat
    <3>1. /\ IsFiniteSet(Stored(l) \cup {KeyOf(c)})
          /\ Cardinality(Stored(l) \cup {KeyOf(c)}) <= Cardinality(Stored(l)) + 1
      <4>1. IsFiniteSet(Stored(l)) /\ Cardinality(Stored(l)) \in Nat
        BY Countable
      <4>2. /\ IsFiniteSet(Stored(l) \cup {KeyOf(c)})
            /\ Cardinality(Stored(l) \cup {KeyOf(c)}) =
                 IF KeyOf(c) \in Stored(l) THEN Cardinality(Stored(l)) ELSE Cardinality(Stored(l)) + 1
        BY <4>1, FS_AddElement
      <4> QED BY <4>1, <4>2
    <3>2. /\ IsFiniteSet(Stored(l)')
          /\ Cardinality(Stored(l)') <= Cardinality(Stored(l) \cup {KeyOf(c)})
      BY <2>1, <3>1, FS_Subset
    <3>3. Cardinality(Stored(l)') \in Nat /\ Cardinality(Stored(l) \cup {KeyOf(c)}) \in Nat
      BY <3>1, <3>2, FS_CardinalityType
    <3> QED BY <3>1, <3>2, <3>3, Countable
  <2>4. /\ Cardinality(Storing(l)') = Cardinality(Storing(l)) - 1
        /\ Cardinality(Storing(l)') \in Nat
    <3>1. IsFiniteSet(Storing(l) \ {c}) /\ Cardinality(Storing(l) \ {c}) = Cardinality(Storing(l)) - 1
      BY <2>2, Countable, FS_RemoveElement
    <3> QED BY <2>2, <3>1, FS_CardinalityType
  <2> QED BY <1>1, <1>4, <2>3, <2>4, Countable
<1>6. CASE desk[c].letter.subject # l.subject
  <2>1. KeyOf(c) \notin Own(l)
    BY <1>1, <1>6 DEF KeyOf, Own
  <2>2. Stored(l)' \subseteq Stored(l)
    BY <1>3, <2>1 DEF Stored, Own
  <2>3. Storing(l)' = Storing(l)
    BY <1>1, <1>2, <1>6 DEF Storing, Vacant
  <2>4. /\ IsFiniteSet(Stored(l)') /\ Cardinality(Stored(l)') <= Cardinality(Stored(l))
    BY <2>2, Countable, FS_Subset
  <2>5. Cardinality(Stored(l)') \in Nat
    BY <2>4, FS_CardinalityType
  <2> QED BY <1>1, <1>4, <2>3, <2>4, <2>5, Countable
<1> QED BY <1>5, <1>6

\* The steps of a request that store nothing.
LEMMA CountCallStep ==
  ASSUME BaseInv, CountInv, BaseInv', NEW c \in InboxCalls,
         \/ Nonce(c) \/ ReadLetter(c) \/ RemoveLetter(c)
         \/ ForgetAll(c) \/ ForgetSome(c) \/ ForgetFails(c) \/ EvictIsolate(c)
  PROVE  CountInv'
<1>1. peak <= peak' /\ LiveItems' \subseteq LiveItems
  <2>1. peak' = peak /\ now' = now /\ (items' = items \/ items' = [items EXCEPT ![KeyOf(c)] = 0])
    BY DEF Nonce, ClaimLock, LockHeld, LockLost, PutMarker, MarkerFails, ClearLock, LookUp,
           PutClaim, CheckClaim, SettleClaim, KvBusy, KvFails, ReadLetter, RemoveLetter,
           ForgetAll, ForgetSome, ForgetFails, EvictIsolate
  <2>2. LiveItems' \subseteq LiveItems
    BY <2>1 DEF LiveItems, BaseInv, InboxTypeOK, Expiries
  <2> QED BY <2>1, <2>2, Countable
<1>2. \A d \in InboxCalls : desk'[d].pc = "storing" =>
        desk[d].pc = "storing" /\ desk'[d].letter = desk[d].letter
  <2> DEFINE Same == \A d \in InboxCalls : desk'[d].pc = "storing" =>
                       desk[d].pc = "storing" /\ desk'[d].letter = desk[d].letter
  <2>1. now' = now /\ deployed' = deployed /\ Vacant.pc = "idle"
    BY DEF Nonce, ClaimLock, LockHeld, LockLost, PutMarker, MarkerFails, ClearLock, LookUp,
           PutClaim, CheckClaim, SettleClaim, KvBusy, KvFails, ReadLetter, RemoveLetter,
           ForgetAll, ForgetSome, ForgetFails, EvictIsolate, Vacant
  <2>2. ASSUME Leave(c) PROVE Same
    BY <2>1, <2>2, LeaveStep
  <2>3. ASSUME NEW pc \in Places \ {"storing"}, Proceed(c, pc) PROVE Same
    <3>1. desk' = [desk EXCEPT ![c] = Moved(c, pc)] /\ Moved(c, pc).pc = pc
      BY <2>3, MovedTypes DEF Proceed, Moved
    <3> QED BY <2>3, <3>1 DEF BaseInv, InboxTypeOK
  <2>4. CASE ClaimLock(c)
    <3> DEFINE q == [desk[c] EXCEPT !.pc = "marking", !.at = now]
    <3>1. desk' = [desk EXCEPT ![c] = q]
      BY <2>4 DEF ClaimLock
    <3>2. q.pc = "marking"
      BY InboxTypes DEF Desk
    <3> HIDE DEF q
    <3> QED BY <3>1, <3>2 DEF BaseInv, InboxTypeOK
  <2>5. CASE ClearLock(c)
    <3>1. CASE Leave(c)
      BY <2>2, <3>1
    <3>2. CASE desk' = [Excuse(KeyOf(c)) EXCEPT ![c] = Vacant]
      <4>1. KeyOf(c) \in LetterKeys
        BY <2>5, InboxTypes DEF ClearLock
      <4>2. \A d \in InboxCalls : desk'[d] = IF d = c THEN Vacant ELSE Excuse(KeyOf(c))[d]
        BY <3>2, <4>1, ExcuseTypes
      <4> QED BY <2>1, <4>1, <4>2, ExcuseTypes
    <3> QED BY <2>5, <3>1, <3>2 DEF ClearLock
  <2>6. CASE EvictIsolate(c)
    BY <2>1, <2>2, <2>6 DEF EvictIsolate
  <2>7. CASE Nonce(c) /\ ~ClaimLock(c) /\ ~ClearLock(c)
    <3>1. \/ Leave(c) \/ Proceed(c, "counting") \/ Proceed(c, "clearing") \/ Proceed(c, "claiming")
          \/ Proceed(c, "owning") \/ Proceed(c, "settling") \/ Proceed(c, "looking")
      BY <2>7 DEF Nonce, LockHeld, LockLost, PutMarker, MarkerFails, LookUp, PutClaim,
                  CheckClaim, SettleClaim, KvBusy, KvFails
    <3> QED BY <2>2, <2>3, <3>1 DEF Places, Claiming
  <2>8. CASE \/ ReadLetter(c) \/ RemoveLetter(c) \/ ForgetAll(c) \/ ForgetSome(c) \/ ForgetFails(c)
    <3>1. Leave(c) \/ Proceed(c, "removing")
      BY <2>8 DEF ReadLetter, RemoveLetter, ForgetAll, ForgetSome, ForgetFails
    <3> QED BY <2>2, <2>3, <3>1 DEF Places
  <2> QED BY <2>4, <2>5, <2>6, <2>7, <2>8
<1> QED BY <1>1, <1>2, CountKept

\* The rest of the steps: what is taken up, deleted, or expires.
LEMMA CountRestStep ==
  ASSUME BaseInv, CountInv, BaseInv',
         \/ \E c \in InboxCalls, l \in Letters :
              PostLetter(c, l) \/ GetLetter(c, l) \/ Forget(c, l)
         \/ \E d \in doomed : Delete(d) \/ DeleteFails(d)
         \/ \E k \in LetterKeys : Janitor(k)
         \/ InboxTick
         \/ UNCHANGED <<now, inboxVars>>
  PROVE  CountInv'
<1>1. peak <= peak
  BY Countable
<1>2. ASSUME NEW c \in InboxCalls, NEW l \in Letters,
             PostLetter(c, l) \/ GetLetter(c, l) \/ Forget(c, l)
      PROVE  CountInv'
  <2>1. UNCHANGED <<now, deployed, items, peak>> /\ LiveItems' \subseteq LiveItems
    BY <1>2 DEF PostLetter, GetLetter, Forget, LiveItems
  <2>2. PICK pc \in Places \ {"storing"} : \E found : TakeUp(c, l, pc, found)
    BY <1>2 DEF PostLetter, GetLetter, Forget, Places, Claiming
  <2>3. \A d \in InboxCalls : d # c => desk'[d] = desk[d]
    BY <2>2 DEF TakeUp, BaseInv, InboxTypeOK
  <2>4. desk'[c].pc = pc
    BY <2>2 DEF TakeUp, BaseInv, InboxTypeOK
  <2> QED BY <1>1, <2>1, <2>2, <2>3, <2>4, CountKept
<1>3. ASSUME NEW d \in doomed, Delete(d) PROVE CountInv'
  <2>1. UNCHANGED <<now, peak>> /\ d.key \in LetterKeys
    BY <1>3 DEF Delete, BaseInv, InboxTypeOK
  <2>2. LiveItems' \subseteq LiveItems
    BY <1>3, <2>1 DEF Delete, LiveItems, BaseInv, InboxTypeOK, Expiries
  <2>3. \A c \in InboxCalls : desk'[c].pc = desk[c].pc /\ desk'[c].letter = desk[c].letter
    BY <1>3, <2>1, ExcuseTypes DEF Delete
  <2> QED BY <1>1, <2>1, <2>2, <2>3, CountKept
<1>4. CASE \/ \E d \in doomed : DeleteFails(d)
           \/ \E k \in LetterKeys : Janitor(k)
           \/ UNCHANGED <<now, inboxVars>>
  <2>1. UNCHANGED <<now, items, peak, desk>>
    BY <1>4 DEF DeleteFails, Janitor, inboxVars
  <2>2. LiveItems' \subseteq LiveItems
    BY <2>1 DEF LiveItems
  <2> QED BY <1>1, <2>1, <2>2, CountKept
<1>5. CASE InboxTick
  <2>1. UNCHANGED <<items, peak, desk>> /\ now \in Nat /\ now' = now + 1
    BY <1>5 DEF InboxTick, Advance, inboxVars, BaseInv
  <2>2. LiveItems' \subseteq LiveItems
    <3>1. \A k \in LetterKeys : items[k] \in Nat
      BY InboxTypes
    <3> QED BY <2>1, <3>1 DEF LiveItems
  <2> QED BY <1>1, <2>1, <2>2, CountKept
<1> QED BY <1>2, <1>3, <1>4, <1>5

\* However the requests overlap, a subject has more than SUBJECT_MAX_ENVELOPES
\* letters only by those that were about to store at once, all but one.
THEOREM SubjectIsBounded == InboxSpec => []SubjectBounded
<1> DEFINE Inv == BaseInv /\ CountInv
<1>1. InitClock /\ InboxInit => Inv
  <2> SUFFICES ASSUME InitClock, InboxInit PROVE Inv
    OBVIOUS
  <2>1. BaseInv
    BY OnceInit DEF OnceInv
  <2>2. ASSUME NEW l \in Letters PROVE Stored(l) = {} /\ Storing(l) = {}
    BY DEF Stored, LiveItems, Storing, InitClock, InboxInit, Vacant
  <2>3. CountInv
    BY <2>2, FS_EmptySet DEF CountInv
  <2> QED BY <2>1, <2>3
<1>2. Inv /\ [InboxNext]_<<now, inboxVars>> => Inv'
  <2> SUFFICES ASSUME Inv, [InboxNext]_<<now, inboxVars>> PROVE Inv'
    OBVIOUS
  <2>1. BaseInv'
    BY BaseNext
  <2>2. CountInv'
    BY <2>1, CountCallStep, CountCounted, CountStored, CountRestStep DEF InboxNext
  <2> QED BY <2>1, <2>2
<1>3. Inv => SubjectBounded
  <2> SUFFICES ASSUME Inv, SubjectMax \in 1 .. ListLimit, NEW l \in Letters, Stored(l) # {}
               PROVE  Cardinality(Stored(l)) < SubjectMax + peak
    BY DEF SubjectBounded, Stored, Own
  <2>1. /\ IsFiniteSet(Stored(l)) /\ Cardinality(Stored(l)) \in Nat
        /\ Cardinality(Storing(l)) \in Nat /\ SubjectMax \in Nat /\ peak \in Nat
    BY Countable
  <2>2. Cardinality(Stored(l)) # 0
    BY <2>1, FS_EmptySet
  <2>3. LET n == Cardinality(Stored(l)) + Cardinality(Storing(l)) IN n > 0 => n < SubjectMax + peak
    BY DEF CountInv
  <2> QED BY <2>1, <2>2, <2>3
<1> QED BY <1>1, <1>2, <1>3, PTL DEF InboxSpec

-----------------------------------------------------------------------------
(* The components of the workers side by side.                             *)

(***************************************************************************)
(* Side by side as they run on one clock, every component of the workers   *)
(* is in a state of its type.  What is not stepped does not look at the    *)
(* clock, and the component that is stepped keeps its own invariant.       *)
(***************************************************************************)
THEOREM WorkersTypes == WorkersSpec => []WorkersTypeOK
<1> DEFINE allVars == <<part, inboxVars, kvVars, assertVars, vars>>
           Inv == /\ KvIInv /\ InboxTypeOK /\ AssertTypeOK /\ TypeOK
                  /\ part \in InboxParts => BaseInv
                  /\ part = "assertions" => AssertIInv
                  /\ part = "domain" => IInv
<1>1. WorkersInit => Inv
  <2> SUFFICES ASSUME WorkersInit PROVE Inv
    OBVIOUS
  <2>1. KvInit /\ InboxInit /\ AssertInit /\ Init /\ InitClock
    BY DEF WorkersInit, Init
  <2>2. BaseInv
    BY <2>1, OnceInit DEF OnceInv
  <2>3. KvIInv /\ AssertIInv /\ IInv
    BY <2>1, KvStarts, AssertStarts, InitInv
  <2> QED BY <2>2, <2>3 DEF BaseInv, AssertIInv, IInv
<1>2. ASSUME Inv, [WorkersNext]_allVars PROVE Inv'
  <2>1. part' = part /\ now \in Nat
    BY <1>2 DEF WorkersNext, TypeOK
  <2>2. CASE part \in InboxParts /\ WorkersNext
    <3>1. InboxNext /\ UNCHANGED <<kvVars, assertVars, domainVars>>
      BY <2>2 DEF WorkersNext, InboxParts
    <3>2. BaseInv'
      BY <1>2, <2>2, <3>1, BaseNext
    <3>3. KvIInv'
      BY <1>2, <3>1, KvNextInv
    <3>4. AssertTypeOK'
      BY <1>2, <3>1 DEF assertVars, AssertTypeOK, Verify
    <3>5. TypeOK'
      BY <1>2, <3>1, <3>2 DEF domainVars, TypeOK, BaseInv
    <3> QED BY <2>1, <2>2, <3>2, <3>3, <3>4, <3>5 DEF InboxParts, BaseInv
  <2>3. CASE part = "limiter" /\ WorkersNext
    <3>1. KvNext /\ UNCHANGED <<now, inboxVars, assertVars, domainVars>>
      BY <2>3 DEF WorkersNext, InboxParts
    <3>2. KvIInv'
      BY <1>2, <3>1, KvNextInv
    <3>3. InboxTypeOK' /\ AssertTypeOK' /\ TypeOK'
      BY <1>2, <3>1 DEF inboxVars, assertVars, domainVars, InboxTypeOK, AssertTypeOK, Verify, TypeOK
    <3> QED BY <2>1, <2>3, <3>2, <3>3 DEF InboxParts
  <2>4. CASE part = "assertions" /\ WorkersNext
    <3>1. AssertNext /\ UNCHANGED <<inboxVars, kvVars, domainVars>>
      BY <2>4 DEF WorkersNext, InboxParts
    <3>2. AssertIInv'
      BY <1>2, <2>4, <3>1, AssertNextInv
    <3>3. KvIInv'
      BY <1>2, <3>1, KvNextInv
    <3>4. now' \in Nat
      BY <3>2, ClockAssumption DEF AssertIInv
    <3>5. InboxTypeOK' /\ TypeOK'
      BY <1>2, <3>1, <3>4 DEF inboxVars, domainVars, InboxTypeOK, TypeOK
    <3> QED BY <2>1, <2>4, <3>2, <3>3, <3>5 DEF InboxParts, AssertIInv
  <2>5. CASE part = "domain" /\ WorkersNext
    <3>1. Next /\ UNCHANGED <<inboxVars, kvVars, assertVars>>
      BY <2>5 DEF WorkersNext, InboxParts
    <3>2. IInv'
      BY <1>2, <2>5, <3>1, NextInv
    <3>3. KvIInv'
      BY <1>2, <3>1, KvNextInv
    <3>4. InboxTypeOK' /\ AssertTypeOK'
      BY <1>2, <3>1 DEF inboxVars, assertVars, InboxTypeOK, AssertTypeOK, Verify
    <3> QED BY <2>1, <2>5, <3>2, <3>3, <3>4 DEF InboxParts, IInv
  <2>6. CASE UNCHANGED allVars
    <3>1. UNCHANGED <<now, inboxVars, assertVars, vars, kvVars>>
      BY <2>6 DEF vars
    <3>2. KvIInv'
      BY <1>2, <3>1, KvNextInv
    <3>3. InboxTypeOK' /\ AssertTypeOK' /\ TypeOK'
      BY <1>2, <3>1 DEF inboxVars, assertVars, vars, InboxTypeOK, AssertTypeOK, Verify, TypeOK
    <3>4. part \in InboxParts => BaseInv'
      BY <1>2, <3>1, BaseNext
    <3>5. part = "assertions" => AssertIInv'
      BY <1>2, <3>1, AssertNextInv
    <3>6. part = "domain" => IInv'
      BY <1>2, <3>1, NextInv
    <3> QED BY <2>1, <3>2, <3>3, <3>4, <3>5, <3>6
  <2>7. WorkersNext => part \in InboxParts \/ part \in {"limiter", "assertions", "domain"}
    BY DEF WorkersNext
  <2> QED
    <3> HIDE DEF Inv
    <3> QED BY <1>2, <2>2, <2>3, <2>4, <2>5, <2>6, <2>7
<1>3. Inv => WorkersTypeOK
  BY DEF WorkersTypeOK, KvIInv
<1> QED
  <2> HIDE DEF Inv, allVars
  <2>1. WorkersSpec => WorkersInit /\ [][WorkersNext]_allVars
    BY DEF WorkersSpec, allVars
  <2> QED BY <1>1, <1>2, <1>3, <2>1, PTL
=============================================================================
