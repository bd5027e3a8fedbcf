----------------------------- MODULE DomainMap -----------------------------
(***************************************************************************)
(* The domain map of the async worker (workers/async-worker/src): what a   *)
(* domain's entry in KV says, and how refreshes change it.                 *)
(*                                                                         *)
(* A refresh reads the domain's TXT record and the configuration it names, *)
(* probes the target, has the route asserted, and then reads the entry,    *)
(* computes the next one and puts it back.  Nothing keeps a scheduled, a   *)
(* batch and a manual refresh of one domain from overlapping, and KV calls *)
(* may fail: each stretch of code between two awaits that matter to        *)
(* another refresh is one action.                                          *)
(*                                                                         *)
(* `origin`, `verified` and `alone` are history: where a configuration     *)
(* came from, what it was verified by, and whether another refresh has     *)
(* written the entry since this one took its time.                         *)
(***************************************************************************)
EXTENDS Clock, FiniteSets

CONSTANTS
  Domains,      \* the domains refreshed
  Jobs,         \* how many refreshes may be in flight
  Cfgs,         \* configuration transactions that TXT records name
  NoCfg,        \* no TXT record; no configuration (cfgTx null)
  TtlOf,        \* the ttl of the TXT record that names a configuration
  MinTtl,       \* minTtlMs
  MaxTtl,       \* maxTtlMs
  Grace,        \* STALE_GRACE_SEC
  FetchTimeout, \* how long the TXT query may take
  CheckTimeout, \* how long configuration, probe and assertion may take
  Strict,       \* isSignatureStrictMode()
  Required      \* routeAssertionRequired()

ASSUME DomainAssumption ==
  /\ NoCfg \notin Cfgs
  /\ DOMAIN TtlOf = Cfgs /\ \A c \in Cfgs : TtlOf[c] \in Nat
  /\ MinTtl \in Nat \ {0} /\ MaxTtl \in Nat /\ MinTtl <= MaxTtl
  /\ Grace \in Nat
  /\ FetchTimeout \in Nat /\ CheckTimeout \in Nat
  /\ Strict \in BOOLEAN /\ Required \in BOOLEAN

VARIABLES
  txt,       \* the configuration the TXT record of a domain names
  withdrawn, \* history: when a TXT record last ceased to name it
  kv,        \* DOMAIN_MAP_KV
  job        \* the refreshes in flight

vars == <<now, txt, withdrawn, kv, job>>

Never == -1

\* A stored entry; hardExpiresAt is 0 for null, as expiresAt and the errors
\* follow from the rest or are not looked at.
Entry == [status : {"valid", "stale", "invalid"}, cfgTx : Cfgs \cup {NoCfg},
          hardExpiresAt : Nat, origin : {"dns", "caller"}, verified : BOOLEAN]

\* createEmptyDomainMapEntry, which is also what null is taken for.
Empty == [status |-> "invalid", cfgTx |-> NoCfg, hardExpiresAt |-> 0,
          origin |-> "dns", verified |-> FALSE]

\* Up to "checking" a refresh waits for other services, with a timeout; then
\* for KV: to read, and to write what a success or a failure makes of it.
Fetching == {"txt", "checking"}
Reading == {"reading", "failreading"}
Writing == {"writing", "failwriting"}

\* `at` is when it began to wait for the services, or the nowMs it persists with.
Job == [pc : {"idle"} \cup Fetching \cup Reading \cup Writing, domain : Domains,
        dryRun : BOOLEAN, cfg : Cfgs \cup {NoCfg}, origin : {"dns", "caller"},
        verified : BOOLEAN, at : Nat, next : Entry, alone : BOOLEAN]

TypeOK ==
  /\ now \in Nat
  /\ txt \in [Domains -> Cfgs \cup {NoCfg}]
  /\ withdrawn \in [Domains -> [Cfgs -> Nat \cup {Never}]]
  /\ kv \in [Domains -> Entry]
  /\ job \in [Jobs -> Job]
  /\ \A j \in Jobs : job[j].pc \in {"checking", "reading", "writing"} => job[j].cfg # NoCfg

\* No refresh.
Idle(d) ==
  [pc |-> "idle", domain |-> d, dryRun |-> FALSE, cfg |-> NoCfg, origin |-> "dns",
   verified |-> FALSE, at |-> 0, next |-> Empty, alone |-> FALSE]

Init ==
  /\ InitClock
  /\ txt \in [Domains -> Cfgs \cup {NoCfg}]
  /\ withdrawn = [d \in Domains |-> [c \in Cfgs |-> Never]]
  /\ kv = [d \in Domains |-> Empty]
  /\ \E d \in Domains : job = [j \in Jobs |-> Idle(d)]

-----------------------------------------------------------------------------
(* The state machine of an entry (domainStateMachine.ts).                  *)

Clamp(ttl) == IF ttl < MinTtl THEN MinTtl ELSE IF ttl > MaxTtl THEN MaxTtl ELSE ttl

CanUseStaleIfError(entry, at) == entry.cfgTx # NoCfg /\ at <= entry.hardExpiresAt

\* Mutant of Success: the time is taken after the entry has been read.
SuccessAsOfRead(j) ==
  [status |-> "valid", cfgTx |-> job[j].cfg,
   hardExpiresAt |-> now + Clamp(TtlOf[job[j].cfg]) + Grace,
   origin |-> job[j].origin, verified |-> job[j].verified]

\* applyRefreshOutcome of a success; what it may keep of the entry it
\* replaces (writeProcess, configHash, hbVerifiedAt) is left out.
Success(j) ==
  [status |-> "valid", cfgTx |-> job[j].cfg,
   hardExpiresAt |-> job[j].at + Clamp(TtlOf[job[j].cfg]) + Grace,
   origin |-> job[j].origin, verified |-> job[j].verified]

\* applyRefreshOutcome of a failure; the status applyHardExpiry gives before is
\* overwritten.
Failure(entry, at) ==
  [entry EXCEPT !.status = IF CanUseStaleIfError(entry, at) THEN "stale" ELSE "invalid"]

-----------------------------------------------------------------------------
(* Refreshes (index.ts).                                                   *)

Become(j, slot) ==
  /\ job' = [job EXCEPT ![j] = slot]
  /\ UNCHANGED <<now, txt, withdrawn, kv>>

\* A refresh of d that waits for the services.
Fetch(pc, d, dryRun, cfg, origin) ==
  [pc |-> pc, domain |-> d, dryRun |-> dryRun, cfg |-> cfg, origin |-> origin,
   verified |-> FALSE, at |-> now, next |-> Empty, alone |-> FALSE]

\* The checks are over, and there is a configuration to persist or, NoCfg, a
\* failure: a time is taken, and the entry of d is asked for.
Persist(d, cfg, origin, verified) ==
  [pc |-> IF cfg = NoCfg THEN "failreading" ELSE "reading", domain |-> d, dryRun |-> FALSE,
   cfg |-> cfg, origin |-> origin, verified |-> verified, at |-> now, next |-> Empty,
   alone |-> TRUE]

PersistFailure(d) == Persist(d, NoCfg, "dns", FALSE)

\* The refresh q, which has computed the next entry and puts it.
ToWrite(q, pc, next) ==
  [pc |-> pc, domain |-> q.domain, dryRun |-> FALSE, cfg |-> q.cfg, origin |-> "dns",
   verified |-> FALSE, at |-> 0, next |-> next, alone |-> q.alone]

\* runDomainRefreshTracked, for a request, a batch or the schedule.
Begin(j, d, dryRun) ==
  /\ job[j].pc = "idle"
  /\ Become(j, Fetch("txt", d, dryRun, NoCfg, "dns"))

\* The same for a request that brings the TXT payload, which is not looked up.
BeginGiven(j, d, dryRun, c) ==
  /\ job[j].pc = "idle"
  /\ Become(j, Fetch("checking", d, dryRun, c, "caller"))

\* Mutant of TxtAnswer: an answer without a record is taken for one.
TxtUnchecked(j) ==
  /\ job[j].pc = "txt"
  /\ Become(j, Fetch("checking", job[j].domain, job[j].dryRun, txt[job[j].domain], "dns"))

TxtAnswer(j) ==
  /\ job[j].pc = "txt"
  /\ txt[job[j].domain] # NoCfg
  /\ Become(j, Fetch("checking", job[j].domain, job[j].dryRun, txt[job[j].domain], "dns"))

\* Mutant of RefreshFails: the failure is persisted as of the begin of the refresh.
RefreshFailsAsOfBegin(j) ==
  /\ job[j].pc \in Fetching
  /\ Become(j, [PersistFailure(job[j].domain) EXCEPT !.at = job[j].at])

\* No or a malformed record or configuration, one of another domain or owner, a
\* probe that is not allowed, an unusable configuration.
RefreshFails(j) ==
  /\ job[j].pc \in Fetching
  /\ Become(j, PersistFailure(job[j].domain))

\* What validation, probe and assertion may find of a configuration.
Findings ==
  {f \in [signed : BOOLEAN, probe : {"ok", "failed", "skipped"},
          assertion : {"ok", "failed", "skipped"}] :
     f.assertion = "skipped" => ~Required}

\* What stops the refresh: the probe and the assertion not when it is a dry run.
Stopped(f, dryRun) ==
  \/ Strict /\ ~f.signed
  \/ f.probe = "failed" /\ ~dryRun
  \/ f.assertion = "failed" /\ Required /\ ~dryRun

Verified(f) == f.signed /\ f.probe # "failed" /\ f.assertion = "ok"

\* The checks end, and with them runDomainRefresh.
Checked(j) ==
  /\ job[j].pc = "checking"
  /\ \E f \in Findings :
       IF Stopped(f, job[j].dryRun)
         THEN Become(j, PersistFailure(job[j].domain))
         ELSE Become(j, Persist(job[j].domain, job[j].cfg, job[j].origin, Verified(f)))

\* The next entry is computed as of the time taken before the entry was read.
ReadEntry(j) ==
  \/ /\ job[j].pc = "reading"
     /\ Become(j, ToWrite(job[j], "writing", Success(j)))
  \/ /\ job[j].pc = "failreading"
     /\ Become(j, ToWrite(job[j], "failwriting", Failure(kv[job[j].domain], job[j].at)))

\* What a KV call that failed leads to: a success is persisted as a failure,
\* a failure is not persisted.
AfterKvError(j) ==
  IF job[j].pc \in {"reading", "writing"} THEN PersistFailure(job[j].domain)
  ELSE Idle(job[j].domain)

ReadFails(j) ==
  /\ job[j].pc \in Reading
  /\ Become(j, AfterKvError(j))

\* j's entry reaches KV, j becomes slot, and no other refresh of the domain is
\* alone any more.
Put(j, slot) ==
  /\ kv' = [kv EXCEPT ![job[j].domain] = job[j].next]
  /\ job' = [i \in Jobs |->
       IF i = j THEN slot
       ELSE IF job[i].domain = job[j].domain THEN [job[i] EXCEPT !.alone = FALSE]
       ELSE job[i]]
  /\ UNCHANGED <<now, txt, withdrawn>>

WriteEntry(j) ==
  /\ job[j].pc \in Writing
  /\ Put(j, Idle(job[j].domain))

\* The put fails, or only its answer is lost.
WriteFails(j) ==
  /\ job[j].pc \in Writing
  /\ Become(j, AfterKvError(j)) \/ Put(j, AfterKvError(j))

\* The isolate is evicted, with the put that may be under way.
Evicted(j) ==
  /\ job[j].pc # "idle"
  /\ Become(j, Idle(job[j].domain))

-----------------------------------------------------------------------------
(* The environment.                                                        *)

\* The owner of the domain changes its TXT record, or removes it.
Publish(d, c) ==
  /\ txt[d] # c
  /\ txt' = [txt EXCEPT ![d] = c]
  /\ withdrawn' = IF txt[d] = NoCfg THEN withdrawn
                  ELSE [withdrawn EXCEPT ![d][txt[d]] = now]
  /\ UNCHANGED <<now, kv, job>>

\* No service is waited for longer than its timeout.
InTime(j) ==
  /\ job[j].pc = "txt" => now < job[j].at + FetchTimeout
  /\ job[j].pc = "checking" => now < job[j].at + CheckTimeout

Tick ==
  /\ \A j \in Jobs : InTime(j)
  /\ Advance
  /\ UNCHANGED <<txt, withdrawn, kv, job>>

Next ==
  \/ \E j \in Jobs :
       \/ \E d \in Domains, dryRun \in BOOLEAN :
            Begin(j, d, dryRun) \/ \E c \in Cfgs : BeginGiven(j, d, dryRun, c)
       \/ TxtAnswer(j) \/ RefreshFails(j) \/ Checked(j)
       \/ ReadEntry(j) \/ ReadFails(j) \/ WriteEntry(j) \/ WriteFails(j)
       \/ Evicted(j)
  \/ \E d \in Domains, c \in Cfgs \cup {NoCfg} : Publish(d, c)
  \/ Tick

Spec == Init /\ [][Next]_vars

-----------------------------------------------------------------------------
(* Properties.                                                             *)

\* The TXT record of d named c at t or later.
NamedSince(d, c, t) == txt[d] = c \/ withdrawn[d][c] >= t

\* What the hot path may serve: ops/migrations has the reader look at the status
\* and at the grace.
Serveable(entry) ==
  entry.cfgTx # NoCfg /\ entry.status # "invalid" /\ now <= entry.hardExpiresAt

Lag == CheckTimeout + MaxTtl + Grace

(***************************************************************************)
(* Taking a configuration out of the TXT record takes it off the map: what *)
(* may be served was named by the record within the longest ttl, the grace *)
(* and the time a refresh may take, however refreshes overlap, overwrite   *)
(* one another, fail and are repeated.  (A caller that brings its own TXT  *)
(* payload is believed.)                                                   *)
(***************************************************************************)
TakeoverLag ==
  \A d \in Domains :
    Serveable(kv[d]) /\ kv[d].origin = "dns"
      => NamedSince(d, kv[d].cfgTx, now - Lag)

\* j writes the entry of d.
Writes(j, d) ==
  job[j].pc \in Writing /\ job[j].domain = d /\ job'[j].pc # job[j].pc /\ kv' # kv

(***************************************************************************)
(* An expired entry stays expired until a refresh succeeds: a refresh that *)
(* no other one has written under does not take it back to "stale".        *)
(***************************************************************************)
ExpiredStaysExpired ==
  [][\A d \in Domains, j \in Jobs :
       Writes(j, d) /\ job[j].alone
         => ~(kv[d].status = "invalid" /\ kv'[d].status = "stale")]_vars

(***************************************************************************)
(* As workers/README has it: "only verified state can be promoted to valid *)
(* and used by hot-path routing".                                          *)
(***************************************************************************)
OnlyVerifiedIsValid ==
  \A d \in Domains : kv[d].status = "valid" => kv[d].verified
=============================================================================
