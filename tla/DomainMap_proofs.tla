-------------------------- MODULE DomainMap_proofs --------------------------
(***************************************************************************)
(* Theorems about DomainMap: its types, that a configuration taken out of  *)
(* the TXT record is off the map within `Lag`, and that an expired entry   *)
(* stays expired, for every number of domains and refreshes, every ttl and *)
(* every timeout.                                                          *)
(***************************************************************************)
EXTENDS DomainMap, TLAPS

-----------------------------------------------------------------------------
(* The inductive invariant.                                                *)

\* An entry's hard expiry is within Lag of a time at which the record named it.
GoodEntry(d, e) ==
  e.cfgTx # NoCfg /\ e.origin = "dns"
    => /\ e.hardExpiresAt <= now + Lag
       /\ NamedSince(d, e.cfgTx, e.hardExpiresAt - Lag)

\* A refresh holds a configuration named when its checks began, and these end
\* within CheckTimeout.
GoodJob(q) ==
  /\ q.at <= now
  /\ q.pc = "checking" => now <= q.at + CheckTimeout
  /\ q.pc = "checking" /\ q.origin = "dns" => NamedSince(q.domain, q.cfg, q.at)
  /\ q.pc = "reading" /\ q.origin = "dns" => NamedSince(q.domain, q.cfg, q.at - CheckTimeout)
  /\ q.pc \in Writing => GoodEntry(q.domain, q.next)

LagInv ==
  /\ \A d \in Domains : GoodEntry(d, kv[d])
  /\ \A j \in Jobs : GoodJob(job[j])

IInv == TypeOK /\ LagInv

\* What the refresh slots need of one another: nothing.
OkSlot(q) ==
  /\ q.pc \in {"checking", "reading", "writing"} => q.cfg # NoCfg
  /\ GoodJob(q)

-----------------------------------------------------------------------------
(* Slots and entries.                                                      *)

\* The empty entry is an entry, and the slots built by the code are slots.
LEMMA SlotTypes ==
  ASSUME TypeOK
  PROVE  /\ Empty \in Entry
         /\ \A d \in Domains : Idle(d) \in Job
         /\ \A pc \in Fetching, d \in Domains, dryRun \in BOOLEAN,
               c \in Cfgs \cup {NoCfg}, origin \in {"dns", "caller"} :
              Fetch(pc, d, dryRun, c, origin) \in Job
         /\ \A d \in Domains, c \in Cfgs \cup {NoCfg}, origin \in {"dns", "caller"},
               verified \in BOOLEAN :
              Persist(d, c, origin, verified) \in Job
         /\ \A q \in Job, pc \in Writing, e \in Entry : ToWrite(q, pc, e) \in Job
<1>1. Empty \in Entry
  BY DEF Empty, Entry
<1>2. \A d \in Domains : Idle(d) \in Job
  BY <1>1 DEF Idle, Job
<1>3. \A pc \in Fetching, d \in Domains, dryRun \in BOOLEAN,
         c \in Cfgs \cup {NoCfg}, origin \in {"dns", "caller"} :
        Fetch(pc, d, dryRun, c, origin) \in Job
  BY <1>1 DEF Fetch, Job, TypeOK
<1>4. \A d \in Domains, c \in Cfgs \cup {NoCfg}, origin \in {"dns", "caller"},
         verified \in BOOLEAN :
        Persist(d, c, origin, verified) \in Job
  BY <1>1 DEF Persist, Job, Reading, TypeOK
<1>5. \A q \in Job, pc \in Writing, e \in Entry : ToWrite(q, pc, e) \in Job
  BY DEF ToWrite, Job
<1> QED BY <1>1, <1>2, <1>3, <1>4, <1>5

\* A slot that becomes another one keeps the invariant if the other one is good.
LEMMA SlotStep ==
  ASSUME IInv, NEW j \in Jobs, NEW slot \in Job, OkSlot(slot), Become(j, slot)
  PROVE  IInv'
<1> USE DEF Become
<1>1. TypeOK'
  BY DEF IInv, TypeOK, OkSlot
<1>2. ASSUME NEW d \in Domains PROVE GoodEntry(d, kv[d])'
  BY DEF IInv, LagInv, GoodEntry, NamedSince
<1>3. ASSUME NEW i \in Jobs PROVE GoodJob(job[i])'
  <2>1. GoodJob(job'[i])
    BY DEF IInv, LagInv, TypeOK, OkSlot
  <2> QED BY <2>1 DEF GoodJob, GoodEntry, NamedSince
<1> QED BY <1>1, <1>2, <1>3 DEF IInv, LagInv

\* An idle slot is good, and so is one that persists a failure.
LEMMA HarmlessSlots ==
  ASSUME TypeOK, NEW d \in Domains
  PROVE  OkSlot(Idle(d)) /\ OkSlot(PersistFailure(d))
BY DEF TypeOK, OkSlot, GoodJob, Idle, PersistFailure, Persist, Writing

\* A failure changes nothing of an entry but its status.
LEMMA FailureKeeps ==
  ASSUME NEW e \in Entry, NEW at \in Nat
  PROVE  /\ Failure(e, at) \in Entry
         /\ Failure(e, at).cfgTx = e.cfgTx
         /\ Failure(e, at).origin = e.origin
         /\ Failure(e, at).hardExpiresAt = e.hardExpiresAt
<1>1. DOMAIN e = {"status", "cfgTx", "hardExpiresAt", "origin", "verified"}
  BY DEF Entry
<1> DEFINE status == IF CanUseStaleIfError(e, at) THEN "stale" ELSE "invalid"
<1>2. status \in {"valid", "stale", "invalid"}
  OBVIOUS
<1> HIDE DEF status
<1>3. [e EXCEPT !.status = status] \in Entry
  BY <1>2 DEF Entry
<1>4. /\ [e EXCEPT !.status = status].cfgTx = e.cfgTx
      /\ [e EXCEPT !.status = status].origin = e.origin
      /\ [e EXCEPT !.status = status].hardExpiresAt = e.hardExpiresAt
  BY <1>1
<1> QED BY <1>3, <1>4 DEF Failure, status

\* A ttl within its limits.
LEMMA ClampBounds ==
  ASSUME NEW ttl \in Nat
  PROVE  Clamp(ttl) \in Nat /\ Clamp(ttl) <= MaxTtl
BY DomainAssumption DEF Clamp

-----------------------------------------------------------------------------
(* The steps of a refresh.                                                 *)

\* A refresh begins by asking for the record.
LEMMA BeginStep ==
  ASSUME IInv, NEW j \in Jobs, NEW d \in Domains, NEW dryRun \in BOOLEAN,
         Begin(j, d, dryRun)
  PROVE  IInv'
<1>1. PICK slot \in Job : slot = Fetch("txt", d, dryRun, NoCfg, "dns")
  BY SlotTypes DEF IInv, Fetching
<1>2. OkSlot(slot)
  BY <1>1 DEF IInv, TypeOK, OkSlot, GoodJob, Fetch, Writing
<1> QED BY <1>1, <1>2, SlotStep DEF Begin

\* A refresh begins with the record of its caller.
LEMMA BeginGivenStep ==
  ASSUME IInv, NEW j \in Jobs, NEW d \in Domains, NEW dryRun \in BOOLEAN, NEW c \in Cfgs,
         BeginGiven(j, d, dryRun, c)
  PROVE  IInv'
<1>1. PICK slot \in Job : slot = Fetch("checking", d, dryRun, c, "caller")
  BY SlotTypes DEF IInv, Fetching
<1>2. OkSlot(slot)
  BY <1>1, DomainAssumption DEF IInv, TypeOK, OkSlot, GoodJob, Fetch, Writing
<1> QED BY <1>1, <1>2, SlotStep DEF BeginGiven

\* The record is read: it names the configuration now.
LEMMA TxtAnswerStep ==
  ASSUME IInv, NEW j \in Jobs, TxtAnswer(j)
  PROVE  IInv'
<1> DEFINE q == job[j]
<1>1. /\ q \in Job /\ q.domain \in Domains /\ q.dryRun \in BOOLEAN
      /\ txt[q.domain] \in Cfgs \cup {NoCfg}
  BY DEF IInv, TypeOK, Job
<1>2. PICK slot \in Job : slot = Fetch("checking", q.domain, q.dryRun, txt[q.domain], "dns")
  BY <1>1, SlotTypes DEF IInv, Fetching
<1>3. OkSlot(slot)
  BY <1>1, <1>2, DomainAssumption
     DEF IInv, TypeOK, OkSlot, GoodJob, Fetch, Writing, TxtAnswer, NamedSince
<1> QED BY <1>2, <1>3, SlotStep DEF TxtAnswer

\* Whatever fails before is persisted as a failure.
LEMMA FailureStep ==
  ASSUME IInv, NEW j \in Jobs, Become(j, PersistFailure(job[j].domain))
  PROVE  IInv'
<1>1. job[j].domain \in Domains
  BY DEF IInv, TypeOK, Job
<1>2. PICK slot \in Job : slot = PersistFailure(job[j].domain)
  BY <1>1, SlotTypes DEF IInv, PersistFailure
<1>3. OkSlot(slot)
  BY <1>1, <1>2, HarmlessSlots DEF IInv
<1> QED BY <1>2, <1>3, SlotStep

\* The refresh is over.
LEMMA IdleStep ==
  ASSUME IInv, NEW j \in Jobs, Become(j, Idle(job[j].domain))
  PROVE  IInv'
<1>1. job[j].domain \in Domains
  BY DEF IInv, TypeOK, Job
<1>2. PICK slot \in Job : slot = Idle(job[j].domain)
  BY <1>1, SlotTypes DEF IInv
<1>3. OkSlot(slot)
  BY <1>1, <1>2, HarmlessSlots DEF IInv
<1> QED BY <1>2, <1>3, SlotStep

\* The checks have ended in time, so the record named the configuration no
\* longer than CheckTimeout ago.
LEMMA CheckedStep ==
  ASSUME IInv, NEW j \in Jobs, Checked(j)
  PROVE  IInv'
<1> DEFINE q == job[j]
<1>1. PICK f \in Findings :
        IF Stopped(f, q.dryRun)
          THEN Become(j, PersistFailure(q.domain))
          ELSE Become(j, Persist(q.domain, q.cfg, q.origin, Verified(f)))
  BY DEF Checked
<1>2. CASE Stopped(f, q.dryRun)
  BY <1>1, <1>2, FailureStep
<1>3. CASE ~Stopped(f, q.dryRun)
  <2>1. /\ q \in Job /\ q.domain \in Domains /\ q.cfg \in Cfgs \cup {NoCfg}
        /\ q.origin \in {"dns", "caller"} /\ q.at \in Nat
        /\ Verified(f) \in BOOLEAN
    BY DEF IInv, TypeOK, Job, Verified
  <2>2. /\ q.cfg # NoCfg /\ q.pc = "checking" /\ GoodJob(q)
    BY DEF IInv, TypeOK, LagInv, Checked
  <2>3. PICK slot \in Job : slot = Persist(q.domain, q.cfg, q.origin, Verified(f))
    BY <2>1, SlotTypes DEF IInv
  <2>4. /\ slot.pc = "reading" /\ slot.domain = q.domain /\ slot.cfg = q.cfg
        /\ slot.origin = q.origin /\ slot.at = now
    BY <2>2, <2>3 DEF Persist
  <2>5. q.origin = "dns" => NamedSince(q.domain, q.cfg, now - CheckTimeout)
    <3>1. withdrawn[q.domain][q.cfg] \in Nat \cup {Never}
      BY <2>1, <2>2 DEF IInv, TypeOK
    <3> QED BY <2>1, <2>2, <3>1, DomainAssumption DEF IInv, TypeOK, GoodJob, NamedSince, Never
  <2>6. OkSlot(slot)
    BY <2>2, <2>4, <2>5 DEF IInv, TypeOK, OkSlot, GoodJob, Writing
  <2> QED BY <1>1, <1>3, <2>3, <2>6, SlotStep
<1> QED BY <1>2, <1>3

\* The next entry is good: a new one expires within MaxTtl and Grace of the end
\* of the checks, an old one is as good as it was.
LEMMA ReadEntryStep ==
  ASSUME IInv, NEW j \in Jobs, ReadEntry(j)
  PROVE  IInv'
<1> DEFINE q == job[j]
<1>1. /\ q \in Job /\ q.domain \in Domains /\ q.cfg \in Cfgs \cup {NoCfg}
      /\ q.origin \in {"dns", "caller"} /\ q.at \in Nat /\ q.verified \in BOOLEAN
      /\ kv[q.domain] \in Entry
  BY DEF IInv, TypeOK, Job
<1>2. GoodJob(q) /\ GoodEntry(q.domain, kv[q.domain])
  BY <1>1 DEF IInv, LagInv
<1>3. CASE q.pc = "reading" /\ Become(j, ToWrite(q, "writing", Success(j)))
  <2>1. q.cfg \in Cfgs
    BY <1>1, <1>3 DEF IInv, TypeOK
  <2>2. Clamp(TtlOf[q.cfg]) \in Nat /\ Clamp(TtlOf[q.cfg]) <= MaxTtl
    BY <2>1, DomainAssumption, ClampBounds
  <2>3. q.at + Clamp(TtlOf[q.cfg]) + Grace \in Nat
    BY <1>1, <2>2, DomainAssumption
  <2>4. Success(j) \in Entry
    BY <1>1, <2>1, <2>3 DEF Success, Entry
  <2>5. PICK next \in Entry :
          /\ next = Success(j)
          /\ next.cfgTx = q.cfg /\ next.origin = q.origin
          /\ next.hardExpiresAt = q.at + Clamp(TtlOf[q.cfg]) + Grace
    BY <2>4 DEF Success
  <2>6. GoodEntry(q.domain, next)
    <3>1. now \in Nat /\ q.at <= now
      BY <1>2 DEF IInv, TypeOK, GoodJob
    <3>2. next.hardExpiresAt <= now + Lag
      BY <1>1, <2>2, <2>5, <3>1, DomainAssumption DEF Lag
    <3>3. next.hardExpiresAt - Lag <= q.at - CheckTimeout
      BY <1>1, <2>2, <2>5, DomainAssumption DEF Lag
    <3>4. withdrawn[q.domain][q.cfg] \in Nat \cup {Never}
      BY <1>1, <2>1 DEF IInv, TypeOK
    <3>5. next.origin = "dns" => NamedSince(q.domain, q.cfg, q.at - CheckTimeout)
      BY <1>2, <1>3, <2>5 DEF GoodJob
    <3>6. next.origin = "dns" => NamedSince(q.domain, q.cfg, next.hardExpiresAt - Lag)
      <4>1. next.hardExpiresAt \in Nat /\ Lag \in Nat /\ q.at - CheckTimeout \in Int
        BY <1>1, DomainAssumption DEF Entry, Lag
      <4> QED BY <3>3, <3>4, <3>5, <4>1 DEF NamedSince, Never
    <3> QED BY <2>5, <3>2, <3>6 DEF GoodEntry
  <2>7. PICK slot \in Job : slot = ToWrite(q, "writing", next)
    BY <1>1, SlotTypes DEF IInv, Writing
  <2>8. /\ slot.pc = "writing" /\ slot.domain = q.domain /\ slot.cfg = q.cfg
        /\ slot.at = 0 /\ slot.next = next
    BY <2>7 DEF ToWrite
  <2>9. OkSlot(slot)
    BY <2>1, <2>6, <2>8, DomainAssumption DEF IInv, TypeOK, OkSlot, GoodJob
  <2> QED BY <1>3, <2>5, <2>7, <2>9, SlotStep
<1>4. CASE /\ q.pc = "failreading"
           /\ Become(j, ToWrite(q, "failwriting", Failure(kv[q.domain], q.at)))
  <2>1. PICK next \in Entry :
          /\ next = Failure(kv[q.domain], q.at)
          /\ next.cfgTx = kv[q.domain].cfgTx
          /\ next.origin = kv[q.domain].origin
          /\ next.hardExpiresAt = kv[q.domain].hardExpiresAt
    BY <1>1, FailureKeeps
  <2>2. GoodEntry(q.domain, next)
    BY <1>2, <2>1 DEF GoodEntry
  <2>3. PICK slot \in Job : slot = ToWrite(q, "failwriting", next)
    BY <1>1, SlotTypes DEF IInv, Writing
  <2>4. /\ slot.pc = "failwriting" /\ slot.domain = q.domain /\ slot.at = 0
        /\ slot.next = next
    BY <2>3 DEF ToWrite
  <2>5. OkSlot(slot)
    BY <2>2, <2>4 DEF IInv, TypeOK, OkSlot, GoodJob
  <2> QED BY <1>4, <2>1, <2>3, <2>5, SlotStep
<1> QED BY <1>3, <1>4 DEF ReadEntry

\* A put, whatever slot the refresh becomes.
LEMMA PutStep ==
  ASSUME IInv, NEW j \in Jobs, NEW slot \in Job, OkSlot(slot),
         job[j].pc \in Writing, Put(j, slot)
  PROVE  IInv'
<1> DEFINE q == job[j]
<1>1. /\ q \in Job /\ q.domain \in Domains /\ q.next \in Entry
      /\ GoodEntry(q.domain, q.next)
  BY DEF IInv, TypeOK, LagInv, Job, GoodJob
<1>2. /\ now' = now /\ txt' = txt /\ withdrawn' = withdrawn
      /\ kv' = [kv EXCEPT ![q.domain] = q.next]
  BY DEF Put
<1>3. ASSUME NEW i \in Jobs
      PROVE  job'[i] \in Job /\ OkSlot(job'[i])
  <2>1. job[i] \in Job /\ OkSlot(job[i])
    BY DEF IInv, TypeOK, LagInv, OkSlot
  <2>2. CASE i = j
    BY <2>2 DEF Put
  <2>3. CASE i # j /\ job[i].domain = q.domain
    <3>1. job'[i] = [job[i] EXCEPT !.alone = FALSE]
      BY <2>3 DEF Put
    <3>2. [job[i] EXCEPT !.alone = FALSE] \in Job
      BY <2>1 DEF Job
    <3>3. LET r == [job[i] EXCEPT !.alone = FALSE]
          IN  /\ r.pc = job[i].pc /\ r.domain = job[i].domain /\ r.cfg = job[i].cfg
              /\ r.origin = job[i].origin /\ r.at = job[i].at /\ r.next = job[i].next
      BY <2>1 DEF Job
    <3> QED BY <2>1, <3>1, <3>2, <3>3 DEF OkSlot, GoodJob
  <2>4. CASE i # j /\ job[i].domain # q.domain
    BY <2>1, <2>4 DEF Put
  <2> QED BY <2>2, <2>3, <2>4
<1>4. TypeOK'
  <2>1. kv' \in [Domains -> Entry]
    BY <1>1, <1>2 DEF IInv, TypeOK
  <2>2. job' \in [Jobs -> Job]
    <3>1. job' = [i \in Jobs |-> job'[i]]
      BY DEF Put
    <3> QED BY <1>3, <3>1
  <2> QED BY <1>2, <1>3, <2>1, <2>2 DEF IInv, TypeOK, OkSlot
<1>5. ASSUME NEW d \in Domains PROVE GoodEntry(d, kv[d])'
  <2>1. GoodEntry(d, kv'[d])
    BY <1>1, <1>2 DEF IInv, TypeOK, LagInv
  <2> QED BY <1>2, <2>1 DEF GoodEntry, NamedSince
<1>6. ASSUME NEW i \in Jobs PROVE GoodJob(job[i])'
  <2>1. GoodJob(job'[i])
    BY <1>3 DEF OkSlot
  <2> QED BY <1>2, <2>1 DEF GoodJob, GoodEntry, NamedSince
<1> QED BY <1>4, <1>5, <1>6 DEF IInv, LagInv

\* What a failed KV call leads to is good.
LEMMA AfterKvErrorGood ==
  ASSUME IInv, NEW j \in Jobs
  PROVE  AfterKvError(j) \in Job /\ OkSlot(AfterKvError(j))
<1>1. job[j].domain \in Domains
  BY DEF IInv, TypeOK, Job
<1>2. /\ Idle(job[j].domain) \in Job
      /\ PersistFailure(job[j].domain) \in Job
  BY <1>1, SlotTypes DEF IInv, PersistFailure
<1>3. OkSlot(Idle(job[j].domain)) /\ OkSlot(PersistFailure(job[j].domain))
  BY <1>1, HarmlessSlots DEF IInv
<1> QED BY <1>2, <1>3 DEF AfterKvError

\* The put arrives.
LEMMA WriteEntryStep ==
  ASSUME IInv, NEW j \in Jobs, WriteEntry(j)
  PROVE  IInv'
<1>1. job[j].domain \in Domains
  BY DEF IInv, TypeOK, Job
<1>2. PICK slot \in Job : slot = Idle(job[j].domain)
  BY <1>1, SlotTypes DEF IInv
<1>3. OkSlot(slot)
  BY <1>1, <1>2, HarmlessSlots DEF IInv
<1> QED BY <1>2, <1>3, PutStep DEF WriteEntry

\* A KV call fails, or its answer is lost.
LEMMA KvFailsStep ==
  ASSUME IInv, NEW j \in Jobs, ReadFails(j) \/ WriteFails(j)
  PROVE  IInv'
<1>1. PICK slot \in Job : slot = AfterKvError(j)
  BY AfterKvErrorGood
<1>2. OkSlot(slot)
  BY <1>1, AfterKvErrorGood
<1>3. CASE Become(j, AfterKvError(j))
  BY <1>1, <1>2, <1>3, SlotStep
<1>4. CASE job[j].pc \in Writing /\ Put(j, AfterKvError(j))
  BY <1>1, <1>2, <1>4, PutStep
<1> QED BY <1>3, <1>4 DEF ReadFails, WriteFails

-----------------------------------------------------------------------------
(* The environment.                                                        *)

\* What the record named at t or later, for a t that is not to come, it did so
\* whatever the owner publishes now.
LEMMA NamedKept ==
  ASSUME TypeOK, NEW d \in Domains, NEW c \in Cfgs, NEW t \in Int,
         t <= now, NamedSince(d, c, t),
         NEW e \in Domains, NEW p \in Cfgs \cup {NoCfg}, Publish(e, p)
  PROVE  NamedSince(d, c, t)'
<1>1. CASE d = e /\ txt[d] = c
  <2>1. withdrawn' = [withdrawn EXCEPT ![d][c] = now]
    BY <1>1, DomainAssumption DEF Publish
  <2>2. withdrawn'[d][c] = now
    BY <2>1 DEF TypeOK
  <2> QED BY <2>2 DEF NamedSince
<1>2. CASE ~(d = e /\ txt[d] = c)
  <2>1. txt'[d] = txt[d] \/ txt[d] # c
    BY <1>2 DEF Publish, TypeOK
  <2>2. withdrawn'[d][c] = withdrawn[d][c]
    <3>1. CASE txt[e] = NoCfg
      BY <3>1 DEF Publish
    <3>2. CASE txt[e] # NoCfg
      <4>1. withdrawn' = [withdrawn EXCEPT ![e] = [withdrawn[e] EXCEPT ![txt[e]] = now]]
        BY <3>2 DEF Publish
      <4>2. CASE d # e
        BY <4>1, <4>2 DEF TypeOK
      <4>3. CASE d = e
        <5>1. withdrawn'[d] = [withdrawn[d] EXCEPT ![txt[e]] = now]
          BY <4>1, <4>3 DEF TypeOK
        <5>2. txt[e] # c
          BY <1>2, <4>3
        <5> QED BY <5>1, <5>2 DEF TypeOK
      <4> QED BY <4>2, <4>3
    <3> QED BY <3>1, <3>2
  <2> QED BY <2>1, <2>2 DEF NamedSince
<1> QED BY <1>1, <1>2

\* A good entry stays good when the record changes.
LEMMA GoodEntryKept ==
  ASSUME TypeOK, NEW d \in Domains, NEW x \in Entry, GoodEntry(d, x),
         NEW e \in Domains, NEW p \in Cfgs \cup {NoCfg}, Publish(e, p)
  PROVE  GoodEntry(d, x)'
<1> SUFFICES ASSUME x.cfgTx # NoCfg, x.origin = "dns"
             PROVE  /\ x.hardExpiresAt <= now' + Lag
                    /\ NamedSince(d, x.cfgTx, x.hardExpiresAt - Lag)'
  BY DEF GoodEntry
<1>1. /\ x.cfgTx \in Cfgs /\ x.hardExpiresAt \in Nat /\ Lag \in Nat /\ now \in Nat
      /\ now' = now
  BY DomainAssumption DEF Entry, Lag, TypeOK, Publish
<1>2. x.hardExpiresAt <= now + Lag /\ NamedSince(d, x.cfgTx, x.hardExpiresAt - Lag)
  BY DEF GoodEntry
<1>3. PICK t \in Int : t = x.hardExpiresAt - Lag
  BY <1>1
<1>4. t <= now /\ NamedSince(d, x.cfgTx, t)
  BY <1>1, <1>2, <1>3
<1>5. NamedSince(d, x.cfgTx, t)'
  BY <1>1, <1>4, NamedKept
<1> QED BY <1>1, <1>2, <1>3, <1>5 DEF NamedSince

\* The owner publishes another record, or none.
LEMMA PublishStep ==
  ASSUME IInv, NEW e \in Domains, NEW p \in Cfgs \cup {NoCfg}, Publish(e, p)
  PROVE  IInv'
<1>1. now' = now /\ kv' = kv /\ job' = job
  BY DEF Publish
<1>2. TypeOK'
  <2>1. txt' \in [Domains -> Cfgs \cup {NoCfg}]
    BY DEF IInv, TypeOK, Publish
  <2>2. withdrawn' \in [Domains -> [Cfgs -> Nat \cup {Never}]]
    <3>1. CASE txt[e] = NoCfg
      BY <3>1 DEF IInv, TypeOK, Publish
    <3>2. CASE txt[e] # NoCfg
      <4>1. withdrawn' = [withdrawn EXCEPT ![e] = [withdrawn[e] EXCEPT ![txt[e]] = now]]
        BY <3>2 DEF Publish
      <4>2. withdrawn[e] \in [Cfgs -> Nat \cup {Never}] /\ now \in Nat
        BY DEF IInv, TypeOK
      <4>3. [withdrawn[e] EXCEPT ![txt[e]] = now] \in [Cfgs -> Nat \cup {Never}]
        BY <4>2
      <4> QED BY <4>1, <4>3 DEF IInv, TypeOK
    <3> QED BY <3>1, <3>2
  <2> QED BY <1>1, <2>1, <2>2 DEF IInv, TypeOK
<1>3. ASSUME NEW d \in Domains PROVE GoodEntry(d, kv[d])'
  <2>1. PICK x \in Entry : x = kv[d]
    BY DEF IInv, TypeOK
  <2>2. GoodEntry(d, x)'
    BY <2>1, GoodEntryKept DEF IInv, LagInv
  <2> QED BY <1>1, <2>1, <2>2 DEF GoodEntry
<1>4. ASSUME NEW j \in Jobs PROVE GoodJob(job[j])'
  <2>1. PICK q \in Job : q = job[j]
    BY DEF IInv, TypeOK
  <2>2. /\ GoodJob(q) /\ q.domain \in Domains /\ q.at \in Nat /\ now \in Nat
        /\ q.next \in Entry
        /\ q.pc \in {"checking", "reading"} => q.cfg \in Cfgs
    BY <2>1 DEF IInv, TypeOK, LagInv, Job
  <2>3. PICK d \in Domains : d = q.domain
    BY <2>2
  <2>4. ASSUME q.pc = "checking", q.origin = "dns"
        PROVE  NamedSince(q.domain, q.cfg, q.at)'
    <3>1. NamedSince(d, q.cfg, q.at)'
      BY <2>2, <2>3, <2>4, NamedKept DEF IInv, GoodJob
    <3> QED BY <2>3, <3>1
  <2>5. ASSUME q.pc = "reading", q.origin = "dns"
        PROVE  NamedSince(q.domain, q.cfg, q.at - CheckTimeout)'
    <3>1. PICK t \in Int : t = q.at - CheckTimeout
      BY <2>2, DomainAssumption
    <3>2. t <= now
      BY <2>2, <3>1, DomainAssumption DEF GoodJob
    <3>3. NamedSince(d, q.cfg, t)'
      BY <2>2, <2>3, <2>5, <3>1, <3>2, NamedKept DEF IInv, GoodJob
    <3> QED BY <2>3, <3>1, <3>3
  <2>6. ASSUME q.pc \in Writing
        PROVE  GoodEntry(q.domain, q.next)'
    <3>1. PICK x \in Entry : x = q.next
      BY <2>2
    <3>2. GoodEntry(d, x)'
      BY <2>2, <2>3, <2>6, <3>1, GoodEntryKept DEF IInv, GoodJob
    <3> QED BY <2>3, <3>1, <3>2
  <2>7. GoodJob(q)'
    BY <1>1, <2>2, <2>4, <2>5, <2>6 DEF GoodJob
  <2> QED BY <1>1, <2>1, <2>7 DEF GoodJob
<1> QED BY <1>2, <1>3, <1>4 DEF IInv, LagInv

\* Time passes, but not beyond a timeout.
LEMMA TickStep ==
  ASSUME IInv, Tick
  PROVE  IInv'
<1>1. /\ now \in Nat /\ now' = now + 1 /\ txt' = txt /\ withdrawn' = withdrawn
      /\ kv' = kv /\ job' = job
  BY DEF IInv, TypeOK, Tick, Advance
<1>2. TypeOK'
  BY <1>1 DEF IInv, TypeOK
<1>3. ASSUME NEW d, NEW x \in Entry, GoodEntry(d, x) PROVE GoodEntry(d, x)'
  <2>1. x.hardExpiresAt \in Nat /\ Lag \in Nat
    BY DomainAssumption DEF Entry, Lag
  <2> QED BY <1>1, <1>3, <2>1 DEF GoodEntry, NamedSince
<1>4. ASSUME NEW d \in Domains PROVE GoodEntry(d, kv[d])'
  <2>1. PICK x \in Entry : x = kv[d]
    BY DEF IInv, TypeOK
  <2>2. GoodEntry(d, x)'
    BY <1>3, <2>1 DEF IInv, LagInv
  <2> QED BY <1>1, <2>1, <2>2 DEF GoodEntry
<1>5. ASSUME NEW j \in Jobs PROVE GoodJob(job[j])'
  <2>1. PICK q \in Job : q = job[j]
    BY DEF IInv, TypeOK
  <2>2. GoodJob(q) /\ q.at \in Nat /\ q.next \in Entry
    BY <2>1 DEF IInv, TypeOK, LagInv, Job
  <2>3. q.pc = "checking" => now' <= q.at + CheckTimeout
    BY <1>1, <2>1, <2>2, DomainAssumption DEF Tick, Advance, InTime
  <2>4. ASSUME q.pc \in Writing PROVE GoodEntry(q.domain, q.next)'
    <3>1. PICK d \in Domains : d = q.domain
      BY <2>1 DEF IInv, TypeOK, Job
    <3>2. PICK x \in Entry : x = q.next
      BY <2>2
    <3>3. GoodEntry(d, x)'
      BY <1>3, <2>2, <2>4, <3>1, <3>2 DEF GoodJob
    <3> QED BY <3>1, <3>2, <3>3
  <2>5. GoodJob(q)'
    BY <1>1, <2>2, <2>3, <2>4 DEF GoodJob, NamedSince
  <2> QED BY <1>1, <2>1, <2>5 DEF GoodJob
<1> QED BY <1>2, <1>4, <1>5 DEF IInv, LagInv

-----------------------------------------------------------------------------
(* The invariant, and what follows from it.                                *)

\* At first the map is empty and nothing is refreshed.
LEMMA InitInv ==
  ASSUME Init
  PROVE  IInv
<1>1. PICK d0 \in Domains : job = [j \in Jobs |-> Idle(d0)]
  BY DEF Init
<1>2. Empty \in Entry /\ Idle(d0) \in Job
  BY DEF Empty, Entry, Idle, Job
<1>3. now = 0 /\ \A j \in Jobs : job[j] = Idle(d0)
  BY <1>1 DEF Init, InitClock
<1>4. TypeOK
  <2>1. job \in [Jobs -> Job]
    BY <1>1, <1>2
  <2>2. kv \in [Domains -> Entry]
    BY <1>2 DEF Init
  <2>3. withdrawn \in [Domains -> [Cfgs -> Nat \cup {Never}]]
    BY DEF Init
  <2>4. \A j \in Jobs : job[j].pc = "idle"
    BY <1>3 DEF Idle
  <2> QED BY <2>1, <2>2, <2>3, <2>4 DEF Init, InitClock, TypeOK
<1>5. \A d \in Domains : GoodEntry(d, kv[d])
  BY DEF Init, Empty, GoodEntry
<1>6. \A j \in Jobs : GoodJob(job[j])
  BY <1>3 DEF Idle, GoodJob, Writing
<1> QED BY <1>4, <1>5, <1>6 DEF IInv, LagInv

\* Every step keeps the invariant.
LEMMA NextInv ==
  ASSUME IInv, [Next]_vars
  PROVE  IInv'
<1>1. ASSUME NEW j \in Jobs,
             \/ \E d \in Domains, dryRun \in BOOLEAN :
                  Begin(j, d, dryRun) \/ \E c \in Cfgs : BeginGiven(j, d, dryRun, c)
             \/ TxtAnswer(j) \/ RefreshFails(j) \/ Checked(j)
             \/ ReadEntry(j) \/ ReadFails(j) \/ WriteEntry(j) \/ WriteFails(j)
             \/ Evicted(j)
      PROVE  IInv'
  <2>1. ASSUME NEW d \in Domains, NEW dryRun \in BOOLEAN, Begin(j, d, dryRun)
        PROVE  IInv'
    BY <2>1, BeginStep
  <2>2. ASSUME NEW d \in Domains, NEW dryRun \in BOOLEAN, NEW c \in Cfgs,
               BeginGiven(j, d, dryRun, c)
        PROVE  IInv'
    BY <2>2, BeginGivenStep
  <2>3. CASE TxtAnswer(j)
    BY <2>3, TxtAnswerStep
  <2>4. CASE RefreshFails(j)
    BY <2>4, FailureStep DEF RefreshFails
  <2>5. CASE Checked(j)
    BY <2>5, CheckedStep
  <2>6. CASE ReadEntry(j)
    BY <2>6, ReadEntryStep
  <2>7. CASE ReadFails(j) \/ WriteFails(j)
    BY <2>7, KvFailsStep
  <2>8. CASE WriteEntry(j)
    BY <2>8, WriteEntryStep
  <2>9. CASE Evicted(j)
    BY <2>9, IdleStep DEF Evicted
  <2> QED BY <1>1, <2>1, <2>2, <2>3, <2>4, <2>5, <2>6, <2>7, <2>8, <2>9
<1>2. ASSUME NEW d \in Domains, NEW c \in Cfgs \cup {NoCfg}, Publish(d, c)
      PROVE  IInv'
  BY <1>2, PublishStep
<1>3. CASE Tick
  BY <1>3, TickStep
<1>4. CASE UNCHANGED vars
  <2>1. ASSUME NEW d \in Domains PROVE GoodEntry(d, kv[d])'
    BY <1>4 DEF IInv, LagInv, vars, GoodEntry, NamedSince
  <2>2. ASSUME NEW j \in Jobs PROVE GoodJob(job[j])'
    BY <1>4 DEF IInv, LagInv, vars, GoodJob, GoodEntry, NamedSince
  <2> QED BY <1>4, <2>1, <2>2 DEF IInv, LagInv, TypeOK, vars
<1> QED BY <1>1, <1>2, <1>3, <1>4 DEF Next

\* What is served within its grace was named within Lag.
LEMMA InvBoundsLag ==
  ASSUME IInv
  PROVE  TakeoverLag
<1> SUFFICES ASSUME NEW d \in Domains, Serveable(kv[d]), kv[d].origin = "dns"
             PROVE  NamedSince(d, kv[d].cfgTx, now - Lag)
  BY DEF TakeoverLag
<1>1. /\ kv[d].cfgTx \in Cfgs /\ kv[d].hardExpiresAt \in Nat /\ now \in Nat
      /\ Lag \in Nat /\ now <= kv[d].hardExpiresAt
  BY DomainAssumption DEF IInv, TypeOK, Entry, Lag, Serveable
<1>2. NamedSince(d, kv[d].cfgTx, kv[d].hardExpiresAt - Lag)
  BY <1>1, DomainAssumption DEF IInv, LagInv, GoodEntry
<1>3. withdrawn[d][kv[d].cfgTx] \in Nat \cup {Never}
  BY <1>1 DEF IInv, TypeOK
<1> QED BY <1>1, <1>2, <1>3 DEF NamedSince, Never

\* The map, the refreshes in flight and the history keep their types: every
\* entry stored or about to be stored is one, and a refresh that got past the
\* record has a configuration.
THEOREM DomainTypes == Spec => []TypeOK
<1>1. Init => IInv
  BY InitInv
<1>2. IInv /\ [Next]_vars => IInv'
  BY NextInv
<1>3. IInv => TypeOK
  BY DEF IInv
<1> QED BY <1>1, <1>2, <1>3, PTL DEF Spec

\* However many refreshes of however many domains overlap, fail, and overwrite
\* one another, a configuration is not served later than Lag after the record
\* ceased to name it.
THEOREM TakeoverLagHolds == Spec => []TakeoverLag
<1>1. Init => IInv
  BY InitInv
<1>2. IInv /\ [Next]_vars => IInv'
  BY NextInv
<1>3. IInv => TakeoverLag
  BY InvBoundsLag
<1> QED BY <1>1, <1>2, <1>3, PTL DEF Spec

-----------------------------------------------------------------------------
(* An expired entry stays expired.                                         *)

\* Only an entry past its hard expiry at t, or without a configuration, is
\* invalid.
Lapsed(e, t) == e.status = "invalid" /\ e.cfgTx # NoCfg => e.hardExpiresAt < t

\* What a refresh that is alone is about to read had lapsed by the time it
\* took, or is not invalid; what it is about to write does not undo that.
Expiring(q) ==
  /\ q.pc \in Reading /\ q.alone => Lapsed(kv[q.domain], q.at)
  /\ q.pc \in Writing => Lapsed(q.next, now)
  /\ q.pc = "writing" => q.next.status # "stale"
  /\ q.pc \in Writing /\ q.alone /\ q.next.status = "stale"
       => kv[q.domain].status # "invalid"

ExpiryInv ==
  /\ \A d \in Domains : Lapsed(kv[d], now)
  /\ \A j \in Jobs : Expiring(job[j])

\* A slot that becomes another one keeps the invariant if the other one is good.
LEMMA ExpirySlotStep ==
  ASSUME IInv, ExpiryInv, NEW j \in Jobs, NEW slot \in Job, Expiring(slot),
         Become(j, slot)
  PROVE  ExpiryInv'
<1>1. now' = now /\ kv' = kv
  BY DEF Become
<1>2. ASSUME NEW i \in Jobs PROVE Expiring(job'[i])
  BY DEF Become, IInv, TypeOK, ExpiryInv
<1>3. ASSUME NEW i \in Jobs PROVE Expiring(job[i])'
  BY <1>1, <1>2 DEF Expiring, Lapsed
<1>4. ASSUME NEW d \in Domains PROVE Lapsed(kv[d], now)'
  BY <1>1 DEF ExpiryInv, Lapsed
<1> QED BY <1>3, <1>4 DEF ExpiryInv

\* A slot that is idle or waits for the services, and one that takes its time
\* now, are good.
LEMMA YoungSlots ==
  ASSUME ExpiryInv, NEW q, q.domain \in Domains,
         \/ q.pc \notin Reading \cup Writing
         \/ q.pc \in Reading /\ q.at = now
  PROVE  Expiring(q)
BY DEF ExpiryInv, Expiring, Lapsed, Reading, Writing

\* What a refresh becomes in these steps is idle, waits, or takes its time now.
LEMMA ExpiryBecomeStep ==
  ASSUME IInv, ExpiryInv, NEW j \in Jobs,
         \/ \E d \in Domains, dryRun \in BOOLEAN :
              Begin(j, d, dryRun) \/ \E c \in Cfgs : BeginGiven(j, d, dryRun, c)
         \/ TxtAnswer(j) \/ RefreshFails(j) \/ Checked(j)
         \/ Become(j, AfterKvError(j)) \/ Evicted(j)
  PROVE  ExpiryInv'
<1>1. /\ job[j] \in Job /\ job[j].domain \in Domains /\ job[j].dryRun \in BOOLEAN
      /\ job[j].cfg \in Cfgs \cup {NoCfg} /\ job[j].origin \in {"dns", "caller"}
      /\ txt[job[j].domain] \in Cfgs \cup {NoCfg}
  BY DEF IInv, TypeOK, Job
<1>2. ASSUME NEW pc \in Fetching, NEW d \in Domains, NEW dryRun \in BOOLEAN,
             NEW c \in Cfgs \cup {NoCfg}, NEW origin \in {"dns", "caller"},
             Become(j, Fetch(pc, d, dryRun, c, origin))
      PROVE  ExpiryInv'
  <2>1. PICK slot \in Job : slot = Fetch(pc, d, dryRun, c, origin)
    BY SlotTypes DEF IInv
  <2>2. Expiring(slot)
    BY <2>1, YoungSlots DEF Fetch, Fetching, Reading, Writing
  <2> QED BY <1>2, <2>1, <2>2, ExpirySlotStep
<1>3. ASSUME NEW c \in Cfgs \cup {NoCfg}, NEW origin \in {"dns", "caller"},
             NEW verified \in BOOLEAN, Become(j, Persist(job[j].domain, c, origin, verified))
      PROVE  ExpiryInv'
  <2>1. PICK slot \in Job : slot = Persist(job[j].domain, c, origin, verified)
    BY <1>1, SlotTypes DEF IInv
  <2>2. Expiring(slot)
    BY <1>1, <2>1, YoungSlots DEF Persist, Reading
  <2> QED BY <1>3, <2>1, <2>2, ExpirySlotStep
<1>4. CASE Become(j, Idle(job[j].domain))
  <2>1. PICK slot \in Job : slot = Idle(job[j].domain)
    BY <1>1, SlotTypes DEF IInv
  <2>2. Expiring(slot)
    BY <1>1, <2>1, YoungSlots DEF Idle, Reading, Writing
  <2> QED BY <1>4, <2>1, <2>2, ExpirySlotStep
<1>5. CASE Become(j, PersistFailure(job[j].domain))
  BY <1>3, <1>5 DEF PersistFailure
<1>6. ASSUME NEW d \in Domains, NEW dryRun \in BOOLEAN, Begin(j, d, dryRun)
      PROVE  ExpiryInv'
  BY <1>2, <1>6 DEF Begin, Fetching
<1>7. ASSUME NEW d \in Domains, NEW dryRun \in BOOLEAN, NEW c \in Cfgs,
             BeginGiven(j, d, dryRun, c)
      PROVE  ExpiryInv'
  BY <1>2, <1>7 DEF BeginGiven, Fetching
<1>8. CASE TxtAnswer(j)
  BY <1>1, <1>2, <1>8 DEF TxtAnswer, Fetching
<1>9. CASE Checked(j)
  <2>1. PICK f \in Findings :
          IF Stopped(f, job[j].dryRun)
            THEN Become(j, PersistFailure(job[j].domain))
            ELSE Become(j, Persist(job[j].domain, job[j].cfg, job[j].origin, Verified(f)))
    BY <1>9 DEF Checked
  <2>2. Verified(f) \in BOOLEAN
    BY DEF Verified
  <2> QED BY <1>1, <1>3, <1>5, <2>1, <2>2
<1> QED BY <1>4, <1>5, <1>6, <1>7, <1>8, <1>9 DEF RefreshFails, Evicted, AfterKvError

\* A failure is stale when its time is not past the expiry, and invalid when it
\* is, or when there is no configuration.
LEMMA FailureStatus ==
  ASSUME NEW e \in Entry, NEW at \in Nat
  PROVE  /\ Failure(e, at).status = "stale" => CanUseStaleIfError(e, at)
         /\ Failure(e, at).status = "invalid" => ~CanUseStaleIfError(e, at)
<1>1. "status" \in DOMAIN e
  BY DEF Entry
<1> QED BY <1>1 DEF Failure

\* The next entry is computed as of the time taken before the read: if it is
\* stale, what was read had not lapsed.
LEMMA ExpiryReadStep ==
  ASSUME IInv, ExpiryInv, NEW j \in Jobs, ReadEntry(j)
  PROVE  ExpiryInv'
<1> DEFINE q == job[j]
<1>1. /\ q \in Job /\ q.domain \in Domains /\ q.cfg \in Cfgs \cup {NoCfg}
      /\ q.origin \in {"dns", "caller"} /\ q.at \in Nat /\ q.verified \in BOOLEAN
      /\ q.alone \in BOOLEAN /\ kv[q.domain] \in Entry /\ now \in Nat
  BY DEF IInv, TypeOK, Job
<1>2. q.at <= now /\ Expiring(q)
  BY DEF IInv, LagInv, GoodJob, ExpiryInv
<1>3. CASE q.pc = "reading" /\ Become(j, ToWrite(q, "writing", Success(j)))
  <2>1. q.cfg \in Cfgs
    BY <1>1, <1>3 DEF IInv, TypeOK
  <2>2. Clamp(TtlOf[q.cfg]) \in Nat
    BY <2>1, DomainAssumption, ClampBounds
  <2>3. q.at + Clamp(TtlOf[q.cfg]) + Grace \in Nat
    BY <1>1, <2>2, DomainAssumption
  <2>4. PICK next \in Entry : next = Success(j)
    BY <1>1, <2>1, <2>3 DEF Success, Entry
  <2>5. PICK slot \in Job : slot = ToWrite(q, "writing", next)
    BY <1>1, SlotTypes DEF IInv, Writing
  <2>6. next.status = "valid" /\ slot.pc = "writing" /\ slot.next = next
    BY <2>4, <2>5 DEF Success, ToWrite
  <2>7. Expiring(slot)
    BY <2>6 DEF Expiring, Reading, Lapsed
  <2> QED BY <1>3, <2>4, <2>5, <2>7, ExpirySlotStep
<1>4. CASE /\ q.pc = "failreading"
           /\ Become(j, ToWrite(q, "failwriting", Failure(kv[q.domain], q.at)))
  <2>1. PICK next \in Entry : next = Failure(kv[q.domain], q.at)
    BY <1>1, FailureKeeps
  <2>2. next.cfgTx = kv[q.domain].cfgTx /\ next.hardExpiresAt = kv[q.domain].hardExpiresAt
    BY <1>1, <2>1, FailureKeeps
  <2>3. PICK slot \in Job : slot = ToWrite(q, "failwriting", next)
    BY <1>1, SlotTypes DEF IInv, Writing
  <2>4. /\ slot.pc = "failwriting" /\ slot.domain = q.domain /\ slot.alone = q.alone
        /\ slot.next = next
    BY <2>3 DEF ToWrite
  <2>5. /\ next.status = "stale" => CanUseStaleIfError(kv[q.domain], q.at)
        /\ next.status = "invalid" => ~CanUseStaleIfError(kv[q.domain], q.at)
    BY <1>1, <2>1, FailureStatus
  <2>6. kv[q.domain].hardExpiresAt \in Nat
    BY <1>1 DEF Entry
  <2>7. Lapsed(next, now)
    BY <1>1, <1>2, <2>2, <2>5, <2>6 DEF Lapsed, CanUseStaleIfError
  <2>8. q.alone /\ next.status = "stale" => kv[q.domain].status # "invalid"
    BY <1>1, <1>2, <1>4, <2>5, <2>6 DEF Expiring, Lapsed, Reading, CanUseStaleIfError
  <2>9. Expiring(slot)
    BY <2>4, <2>7, <2>8 DEF Expiring, Reading
  <2> QED BY <1>4, <2>1, <2>3, <2>9, ExpirySlotStep
<1> QED BY <1>3, <1>4 DEF ReadEntry

\* A put leaves no other refresh of the domain alone, and what it writes is not
\* invalid before its expiry.
LEMMA ExpiryPutStep ==
  ASSUME IInv, ExpiryInv, NEW j \in Jobs, job[j].pc \in Writing,
         NEW slot \in Job, slot.domain = job[j].domain,
         slot.pc = "idle" \/ (slot.pc = "failreading" /\ slot.at = now),
         Put(j, slot)
  PROVE  ExpiryInv'
<1> DEFINE q == job[j]
<1>1. /\ q \in Job /\ q.domain \in Domains /\ q.next \in Entry /\ Lapsed(q.next, now)
  BY DEF IInv, TypeOK, Job, ExpiryInv, Expiring
<1>2. now' = now /\ kv' = [kv EXCEPT ![q.domain] = q.next]
  BY DEF Put
<1>3. kv'[q.domain] = q.next /\ \A d \in Domains : d # q.domain => kv'[d] = kv[d]
  BY <1>1, <1>2 DEF IInv, TypeOK
<1>4. ASSUME NEW d \in Domains PROVE Lapsed(kv[d], now)'
  BY <1>1, <1>2, <1>3 DEF ExpiryInv, Lapsed
<1>5. ASSUME NEW i \in Jobs PROVE Expiring(job[i])'
  <2>1. job[i] \in Job /\ job[i].domain \in Domains /\ Expiring(job[i])
    BY DEF IInv, TypeOK, Job, ExpiryInv
  <2>2. CASE i = j
    <3>1. job'[i] = slot
      BY <2>2 DEF Put
    <3>2. Lapsed(kv'[q.domain], now)
      BY <1>1, <1>3
    <3> QED BY <1>2, <3>1, <3>2 DEF Expiring, Lapsed, Reading, Writing
  <2>3. CASE i # j /\ job[i].domain = q.domain
    <3>1. job'[i] = [job[i] EXCEPT !.alone = FALSE]
      BY <2>3 DEF Put
    <3>2. LET r == [job[i] EXCEPT !.alone = FALSE]
          IN  r.pc = job[i].pc /\ r.next = job[i].next /\ ~r.alone
      BY <2>1 DEF Job
    <3> QED BY <1>2, <2>1, <3>1, <3>2 DEF Expiring, Lapsed
  <2>4. CASE i # j /\ job[i].domain # q.domain
    <3>1. job'[i] = job[i] /\ kv'[job[i].domain] = kv[job[i].domain]
      BY <1>3, <2>1, <2>4 DEF Put
    <3> QED BY <1>2, <2>1, <3>1 DEF Expiring, Lapsed
  <2> QED BY <2>2, <2>3, <2>4
<1> QED BY <1>4, <1>5 DEF ExpiryInv

\* The put arrives, whether its answer is lost or not.
LEMMA ExpiryWriteStep ==
  ASSUME IInv, ExpiryInv, NEW j \in Jobs, job[j].pc \in Writing,
         Put(j, Idle(job[j].domain)) \/ Put(j, AfterKvError(j))
  PROVE  ExpiryInv'
<1>1. job[j].domain \in Domains
  BY DEF IInv, TypeOK, Job
<1>2. CASE Put(j, Idle(job[j].domain))
  <2>1. PICK slot \in Job : slot = Idle(job[j].domain)
    BY <1>1, SlotTypes DEF IInv
  <2>2. slot.domain = job[j].domain /\ slot.pc = "idle"
    BY <2>1 DEF Idle
  <2> QED BY <1>2, <2>1, <2>2, ExpiryPutStep
<1>3. CASE Put(j, AfterKvError(j))
  <2>1. PICK slot \in Job : slot = AfterKvError(j)
    BY AfterKvErrorGood
  <2>2. /\ slot.domain = job[j].domain
        /\ slot.pc = "idle" \/ (slot.pc = "failreading" /\ slot.at = now)
    BY <2>1 DEF AfterKvError, Idle, PersistFailure, Persist
  <2> QED BY <1>3, <2>1, <2>2, ExpiryPutStep
<1> QED BY <1>2, <1>3

\* Time passes: what had lapsed has lapsed.
LEMMA ExpiryTickStep ==
  ASSUME IInv, ExpiryInv, Tick
  PROVE  ExpiryInv'
<1>1. now \in Nat /\ now' = now + 1 /\ kv' = kv /\ job' = job
  BY DEF IInv, TypeOK, Tick, Advance
<1>2. ASSUME NEW e \in Entry, Lapsed(e, now) PROVE Lapsed(e, now + 1)
  BY <1>1, <1>2 DEF Lapsed, Entry
<1>3. ASSUME NEW d \in Domains PROVE Lapsed(kv[d], now)'
  <2>1. kv[d] \in Entry /\ Lapsed(kv[d], now)
    BY DEF IInv, TypeOK, ExpiryInv
  <2>2. Lapsed(kv[d], now + 1)
    BY <1>2, <2>1
  <2> QED BY <1>1, <2>2 DEF Lapsed
<1>4. ASSUME NEW j \in Jobs PROVE Expiring(job[j])'
  <2>1. job[j].next \in Entry /\ Expiring(job[j])
    BY DEF IInv, TypeOK, Job, ExpiryInv
  <2>2. Lapsed(job[j].next, now) => Lapsed(job[j].next, now + 1)
    BY <1>2, <2>1
  <2> QED BY <1>1, <2>1, <2>2 DEF Expiring, Lapsed
<1> QED BY <1>3, <1>4 DEF ExpiryInv

\* Every step keeps the invariant.
LEMMA ExpiryNextInv ==
  ASSUME IInv, ExpiryInv, [Next]_vars
  PROVE  ExpiryInv'
<1>1. ASSUME UNCHANGED <<now, kv, job>> PROVE ExpiryInv'
  BY <1>1 DEF ExpiryInv, Expiring, Lapsed
<1>2. ASSUME NEW j \in Jobs, ReadEntry(j) PROVE ExpiryInv'
  BY <1>2, ExpiryReadStep
<1>3. ASSUME NEW j \in Jobs, ReadFails(j) \/ WriteFails(j) \/ WriteEntry(j)
      PROVE  ExpiryInv'
  BY <1>3, ExpiryBecomeStep, ExpiryWriteStep DEF ReadFails, WriteFails, WriteEntry
<1> QED BY <1>1, <1>2, <1>3, ExpiryBecomeStep, ExpiryTickStep DEF Next, Publish, vars

\* Only the put of an entry changes KV, and it frees the slot or has it persist
\* a failure: every other refresh is where it was.
LEMMA WritesIsPut ==
  ASSUME IInv, NEW j \in Jobs, NEW d \in Domains, [Next]_vars, Writes(j, d)
  PROVE  kv' = [kv EXCEPT ![d] = job[j].next]
<1>1. kv' # kv
  BY DEF Writes
<1>2. PICK i \in Jobs : WriteEntry(i) \/ WriteFails(i)
  BY <1>1 DEF Next, vars, Become, Begin, BeginGiven, TxtAnswer, RefreshFails, Checked,
     ReadEntry, ReadFails, Evicted, Publish, Tick
<1>3. PICK slot : Put(i, slot)
  BY <1>1, <1>2 DEF WriteEntry, WriteFails, Become
<1>4. CASE i = j
  BY <1>3, <1>4 DEF Put, Writes
<1>5. CASE i # j
  <2>1. job'[j] = job[j] \/ job'[j] = [job[j] EXCEPT !.alone = FALSE]
    BY <1>3, <1>5 DEF Put
  <2>2. [job[j] EXCEPT !.alone = FALSE].pc = job[j].pc
    BY DEF IInv, TypeOK, Job
  <2> QED BY <2>1, <2>2 DEF Writes
<1> QED BY <1>4, <1>5

\* However refreshes overlap and fail, one that wrote its entry under no other
\* does not take an expired entry back to "stale".
THEOREM ExpiredIsExpired == Spec => ExpiredStaysExpired
<1> DEFINE A == \A d \in Domains, j \in Jobs :
                  Writes(j, d) /\ job[j].alone
                    => ~(kv[d].status = "invalid" /\ kv'[d].status = "stale")
<1>1. Init => IInv /\ ExpiryInv
  <2> SUFFICES ASSUME Init PROVE IInv /\ ExpiryInv
    OBVIOUS
  <2>1. PICK d0 \in Domains : job = [j \in Jobs |-> Idle(d0)]
    BY DEF Init
  <2> QED BY <2>1, InitInv DEF Init, ExpiryInv, Expiring, Lapsed, Idle, Empty, Reading, Writing
<1>2. IInv /\ ExpiryInv /\ [Next]_vars => IInv' /\ ExpiryInv'
  BY NextInv, ExpiryNextInv
<1>3. ASSUME IInv, ExpiryInv, [Next]_vars
      PROVE  A
  <2> SUFFICES ASSUME NEW d \in Domains, NEW j \in Jobs, Writes(j, d), job[j].alone,
                      kv'[d].status = "stale"
               PROVE  kv[d].status # "invalid"
    OBVIOUS
  <2>1. kv'[d] = job[j].next
    BY <1>3, WritesIsPut DEF IInv, TypeOK
  <2> QED BY <1>3, <2>1 DEF ExpiryInv, Expiring, Writes
<1>4. IInv /\ ExpiryInv /\ [Next]_vars => [A]_vars
  BY <1>3
<1> QED BY <1>1, <1>2, <1>4, PTL DEF Spec, ExpiredStaysExpired

=============================================================================
