-------------------------- MODULE IntegrityPolicy --------------------------
(***************************************************************************)
(* How the gateway learns whether mutations are paused, and how operators  *)
(* pause and resume it (src/handler.ts, src/integrity/checkpoint.ts).      *)
(*                                                                         *)
(* Every request first resolves the integrity policy: from the process'    *)
(* cached runtime state while it is fresh, else from AO, else from the     *)
(* checkpoint file, else from the environment.  The resolution awaits the  *)
(* network and the disk, nothing stops two requests from resolving at      *)
(* once, and whoever finishes last overwrites the runtime state.  Each     *)
(* stretch of code between two awaits is one action.                       *)
(*                                                                         *)
(* The snapshots AO has published are the sequence `ledger`; a snapshot is *)
(* its index there, 0 for none.  `from` and `asOf` are history: where a    *)
(* policy state came from, which the code does not remember.               *)
(***************************************************************************)
EXTENDS Integers, Sequences, FiniteSets, OrderedMap

CONSTANTS
  Requests,     \* request slots: how many requests may be in flight
  Kinds,        \* the kinds of request explored, a subset of AllKinds
  Ids,          \* incident ids a caller may provide
  NoId,         \* an incident without incidentId
  TTL,          \* readIntegrityCacheTtlMs()
  ReplayTTL,    \* readIntegrityIncidentReplayTtlMs()
  ReplayCap,    \* readIntegrityIncidentReplayCap()
  MaxAges,      \* the values of resolveMaxAgeSeconds() explored
  Unset,        \* its result undefined: no age limit
  Invalid,      \* its result null: a malformed limit
  Diskless,     \* isDisklessCheckpointMode(), or no checkpoint path
  EnvPaused,    \* readEnvIntegrityPolicyState().paused
  MaxPublished, \* bound of the exploration: snapshots published
  MaxTime       \* bound of the exploration: the last clock value

AllKinds == {"mutate", "report", "pause", "resume"}

ASSUME PolicyAssumption ==
  /\ Kinds \subseteq AllKinds
  /\ NoId \notin Ids
  /\ TTL \in Nat \ {0}
  /\ ReplayTTL \in Nat \ {0}
  /\ ReplayCap \in Nat \ {0}
  /\ Unset \notin Nat /\ Invalid \notin Nat /\ Unset # Invalid
  /\ MaxAges \subseteq (Nat \ {0}) \cup {Unset, Invalid}
  /\ Diskless \in BOOLEAN
  /\ EnvPaused \in BOOLEAN
  /\ MaxPublished \in Nat \ {0}
  /\ MaxTime \in Nat

VARIABLES
  now,     \* Date.now()
  ledger,  \* what AO has published: [paused, since]
  runtime, \* integrityRuntime
  file,    \* the checkpoint file
  maxAge,  \* GATEWAY_INTEGRITY_CHECKPOINT_MAX_AGE_SECONDS of this process
  req,     \* the requests in flight
  replay,  \* integrityIncidentReplay: incident id |-> when it was recorded
  pause,   \* history: the last acknowledged pause
  applied  \* history: when each incident id last took effect

vars == <<now, ledger, runtime, file, maxAge, req, replay, pause, applied>>

Snapshots == 0 .. Len(ledger)

State == [paused : BOOLEAN, source : {"env", "ao", "checkpoint"},
          from : Nat, asOf : Nat]

\* How long a pause lasts, and whether no resolution was in flight when it came.
Pause == [until : Nat, alone : BOOLEAN]

\* How far a request has come.  Up to "commit" it resolves the policy.
Resolving == {"fetching", "answered", "writing", "reading", "commit"}
Decided == {"resolved", "body", "notify", "admitted", "blocked"}

Never == -1

Request == [pc : {"idle"} \cup Resolving \cup Decided, kind : AllKinds,
            id : Ids \cup {NoId}, began : Nat, stamp : Nat, state : State,
            snapshot : Nat, under : Pause]

\* The types of all but the incident ids; the proofs take these.
ResolutionTypeOK ==
  /\ now \in Nat
  /\ ledger \in Seq([paused : BOOLEAN, since : Nat]) /\ ledger # <<>>
  /\ runtime \in [state : State, snapshot : Nat, expiresAt : Nat]
  /\ runtime.snapshot \in Snapshots /\ runtime.state.from \in Snapshots
  /\ file \in [status : {"none", "torn", "whole"}, snapshot : Nat,
               writtenAt : Nat, expiresAt : Nat \cup {Unset}]
  /\ file.snapshot \in Snapshots
  /\ file.status = "whole" => file.snapshot # 0
  /\ maxAge \in MaxAges
  /\ req \in [Requests -> Request]
  /\ \A r \in Requests : req[r].snapshot \in Snapshots /\ req[r].state.from \in Snapshots
  /\ pause \in Pause

TypeOK ==
  /\ ResolutionTypeOK
  /\ MapOf(replay, Ids, Nat) /\ Cardinality(MapKeys(replay)) <= ReplayCap
  /\ applied \in [Ids -> Nat \cup {Never}]

EnvState(paused) == [paused |-> paused, source |-> "env", from |-> 0, asOf |-> 0]

InitRuntime == [state |-> EnvState(FALSE), snapshot |-> 0, expiresAt |-> 0]

NoPause == [until |-> 0, alone |-> FALSE]

Idle == [pc |-> "idle", kind |-> "mutate", id |-> NoId, began |-> 0, stamp |-> 0,
         state |-> EnvState(FALSE), snapshot |-> 0, under |-> NoPause]

Init ==
  /\ now = 0
  /\ \E p \in BOOLEAN : ledger = <<[paused |-> p, since |-> 0]>>
  /\ runtime = InitRuntime
  /\ file = [status |-> "none", snapshot |-> 0, writtenAt |-> 0, expiresAt |-> Unset]
  /\ maxAge \in MaxAges
  /\ req = [r \in Requests |-> Idle]
  /\ replay = EmptyMap
  /\ pause = NoPause
  /\ applied = [i \in Ids |-> Never]

-----------------------------------------------------------------------------
(* Resolving the policy.                                                   *)

\* The slot q, come to pc with what it has resolved.
Moved(q, pc, stamp, state, snapshot) ==
  [pc |-> pc, kind |-> q.kind, id |-> q.id, began |-> q.began, stamp |-> stamp,
   state |-> state, snapshot |-> snapshot, under |-> q.under]

Move(r, pc, stamp, state, snapshot) ==
  req' = [req EXCEPT ![r] = Moved(req[r], pc, stamp, state, snapshot)]

Goto(r, pc) == Move(r, pc, req[r].stamp, req[r].state, req[r].snapshot)

Fresh == runtime.expiresAt > now

\* handleRequest calls resolveIntegrityPolicyState: served from the runtime
\* state while it is fresh, else AO is asked.
Begin(r, kind, id) ==
  /\ req[r].pc = "idle"
  /\ kind = "mutate" => id = NoId
  /\ req' = [req EXCEPT ![r] =
       [pc |-> IF Fresh THEN "resolved" ELSE "fetching",
        kind |-> kind, id |-> id, began |-> now, stamp |-> 0,
        state |-> IF Fresh THEN runtime.state ELSE EnvState(EnvPaused),
        snapshot |-> 0, under |-> pause]]
  /\ UNCHANGED <<now, ledger, runtime, file, maxAge, replay, pause, applied>>

\* The primary's answer; the mirrors are still to be asked.
AoAnswer(r) ==
  /\ req[r].pc = "fetching"
  /\ Move(r, "answered", req[r].stamp,
          [paused |-> ledger[Len(ledger)].paused, source |-> "ao",
           from |-> Len(ledger), asOf |-> 0],
          Len(ledger))
  /\ UNCHANGED <<now, ledger, runtime, file, maxAge, replay, pause, applied>>

\* No answer, a malformed one, or a mirror that disagrees in strict mode.
FetchFail(r) ==
  /\ req[r].pc \in {"fetching", "answered"}
  /\ Goto(r, "reading")
  /\ UNCHANGED <<now, ledger, runtime, file, maxAge, replay, pause, applied>>

\* writeIntegrityCheckpoint does nothing in diskless mode, or fails before it
\* opens the file (no secret, mkdir, open); the caller swallows the error.
WriteSkipped(r) ==
  /\ req[r].pc = "answered"
  /\ Goto(r, "commit")
  /\ UNCHANGED <<now, ledger, runtime, file, maxAge, replay, pause, applied>>

Torn == [file EXCEPT !.status = "torn", !.writtenAt = 0, !.expiresAt = Unset]

\* writeFile opens the file for writing, which empties it.
WriteOpen(r) ==
  /\ ~Diskless
  /\ req[r].pc = "answered"
  /\ Move(r, "writing", now, req[r].state, req[r].snapshot)
  /\ file' = Torn
  /\ UNCHANGED <<now, ledger, runtime, maxAge, replay, pause, applied>>

\* Mutant of Envelope: it holds the runtime state's snapshot, not the request's.
EnvelopeOfRuntime(r) ==
  [status |-> "whole", snapshot |-> runtime.snapshot, writtenAt |-> req[r].stamp,
   expiresAt |-> IF maxAge \in Nat THEN req[r].stamp + maxAge ELSE Unset]

\* The envelope with its metadata.
Envelope(r) ==
  [status |-> "whole", snapshot |-> req[r].snapshot, writtenAt |-> req[r].stamp,
   expiresAt |-> IF maxAge \in Nat THEN req[r].stamp + maxAge ELSE Unset]

\* The contents reach the file, or some of them on top of what another request
\* wrote meanwhile, or the write fails.
WriteEnd(r) ==
  /\ req[r].pc = "writing"
  /\ Move(r, "commit", 0, req[r].state, req[r].snapshot)
  /\ file' \in {Envelope(r), Torn, file}
  /\ UNCHANGED <<now, ledger, runtime, maxAge, replay, pause, applied>>

\* Mutant of Usable: the age limit in force is not compared with the file's age.
UsableByExpiryOnly ==
  /\ file.status = "whole"
  /\ maxAge # Invalid
  /\ file.expiresAt # Unset => now < file.expiresAt

\* readIntegrityCheckpoint returns the snapshot: the file is whole and signed,
\* young enough for the limit in force, and for the one it was written under.
Usable ==
  /\ file.status = "whole"
  /\ maxAge # Invalid
  /\ maxAge \in Nat => now - file.writtenAt <= maxAge
  /\ file.expiresAt # Unset => now < file.expiresAt

ReadCheckpoint(r) ==
  /\ req[r].pc = "reading"
  /\ \/ /\ Usable
        /\ Move(r, "commit", req[r].stamp,
                [paused |-> ledger[file.snapshot].paused, source |-> "checkpoint",
                 from |-> file.snapshot, asOf |-> file.writtenAt],
                file.snapshot)
     \/ /\ ~Usable
        /\ Move(r, "commit", req[r].stamp, EnvState(EnvPaused), 0)
  /\ UNCHANGED <<now, ledger, runtime, file, maxAge, replay, pause, applied>>

\* Mutant of Commit: the lifetime counts from the end of the resolution.
CommitFromNow(r) ==
  /\ req[r].pc = "commit"
  /\ runtime' = [state |-> req[r].state, snapshot |-> req[r].snapshot,
                 expiresAt |-> now + TTL]
  /\ Goto(r, "resolved")
  /\ UNCHANGED <<now, ledger, file, maxAge, replay, pause, applied>>

\* The end of resolveIntegrityPolicyState: whatever the runtime state has
\* become meanwhile, it is overwritten.
Commit(r) ==
  /\ req[r].pc = "commit"
  /\ runtime' = [state |-> req[r].state, snapshot |-> req[r].snapshot,
                 expiresAt |-> req[r].began + TTL]
  /\ Goto(r, "resolved")
  /\ UNCHANGED <<now, ledger, file, maxAge, replay, pause, applied>>

\* resolveIntegrityContext reads the snapshot once the state is there; then a
\* mutating route is refused or goes on, and an incident's body is awaited.
GetContext(r) ==
  /\ req[r].pc = "resolved"
  /\ Move(r, IF req[r].kind # "mutate" THEN "body"
             ELSE IF req[r].state.paused THEN "blocked" ELSE "admitted",
          req[r].stamp, req[r].state, runtime.snapshot)
  /\ UNCHANGED <<now, ledger, runtime, file, maxAge, replay, pause, applied>>

Reply(r) ==
  /\ req[r].pc \in {"admitted", "blocked", "notify"}
  /\ req' = [req EXCEPT ![r] = Idle]
  /\ UNCHANGED <<now, ledger, runtime, file, maxAge, replay, pause, applied>>

-----------------------------------------------------------------------------
(* Incidents.                                                              *)

\* pruneIntegrityIncidentReplay: what has run out, then the oldest over the cap.
Pruned(m) ==
  MapNewest(MapOnly(m, {i \in MapKeys(m) : now - m.of[i] <= ReplayTTL}), ReplayCap)

\* A body too large, no or a wrong token, malformed fields, or a signature
\* reference that no role of the action has.
IncidentRefused(r) ==
  /\ req[r].pc = "body"
  /\ req' = [req EXCEPT ![r] = Idle]
  /\ UNCHANGED <<now, ledger, runtime, file, maxAge, replay, pause, applied>>

IncidentDuplicate(r) ==
  /\ req[r].pc = "body"
  /\ req[r].id \in MapKeys(Pruned(replay))
  /\ replay' = Pruned(replay)
  /\ req' = [req EXCEPT ![r] = Idle]
  /\ UNCHANGED <<now, ledger, runtime, file, maxAge, pause, applied>>

\* Mutant of Toggled: the operator's state does not get a lifetime of its own.
ToggledWithoutLifetime(paused) ==
  [runtime EXCEPT !.state = EnvState(paused)]

\* What pause and resume make of the runtime state.  The snapshot stays.
Toggled(paused) ==
  [state |-> EnvState(paused), snapshot |-> runtime.snapshot, expiresAt |-> now + TTL]

\* Mutant of Recorded: the cap evicts before the new incident is added.
RecordedThenPruned(id) ==
  IF id = NoId THEN Pruned(replay)
  ELSE IF Cardinality(MapKeys(Pruned(replay))) >= ReplayCap THEN Pruned(replay)
  ELSE MapSet(Pruned(replay), id, now)

Recorded(id) ==
  IF id = NoId THEN Pruned(replay)
  ELSE Pruned(MapSet(Pruned(replay), id, now))

\* The incident takes effect and is recorded before the notification is sent.
IncidentApply(r) ==
  /\ req[r].pc = "body"
  /\ req[r].id \notin MapKeys(Pruned(replay))
  /\ runtime' = CASE req[r].kind = "pause"  -> Toggled(TRUE)
                  [] req[r].kind = "resume" -> Toggled(FALSE)
                  [] OTHER                  -> runtime
  /\ pause' = CASE req[r].kind = "pause" ->
                     [until |-> now + TTL,
                      alone |-> \A q \in Requests : req[q].pc \notin Resolving]
                [] req[r].kind = "resume" -> NoPause
                [] OTHER                  -> pause
  /\ replay' = Recorded(req[r].id)
  /\ applied' = [i \in Ids |-> IF i = req[r].id THEN now ELSE applied[i]]
  /\ Goto(r, "notify")
  /\ UNCHANGED <<now, ledger, file, maxAge>>

-----------------------------------------------------------------------------
(* The environment.                                                        *)

\* The process dies, wherever its requests are, and comes back with a limit
\* that may have been reconfigured: only the file is left.
Restart ==
  /\ runtime' = InitRuntime
  /\ req' = [r \in Requests |-> Idle]
  /\ replay' = EmptyMap
  /\ pause' = NoPause
  /\ applied' = [i \in Ids |-> Never]
  /\ maxAge' \in MaxAges
  /\ UNCHANGED <<now, ledger, file>>

Publish(paused) ==
  /\ Len(ledger) < MaxPublished
  /\ ledger' = Append(ledger, [paused |-> paused, since |-> now])
  /\ UNCHANGED <<now, runtime, file, maxAge, req, replay, pause, applied>>

Tick ==
  /\ now < MaxTime
  /\ now' = now + 1
  /\ UNCHANGED <<ledger, runtime, file, maxAge, req, replay, pause, applied>>

Resolve(r) ==
  \/ AoAnswer(r) \/ FetchFail(r)
  \/ WriteSkipped(r) \/ WriteOpen(r) \/ WriteEnd(r)
  \/ ReadCheckpoint(r)
  \/ Commit(r) \/ GetContext(r)

Next ==
  \/ \E r \in Requests :
       \/ \E kind \in Kinds, id \in Ids \cup {NoId} : Begin(r, kind, id)
       \/ Resolve(r)
       \/ IncidentRefused(r) \/ IncidentDuplicate(r) \/ IncidentApply(r)
       \/ Reply(r)
  \/ Restart
  \/ \E paused \in BOOLEAN : Publish(paused)
  \/ Tick

Spec == Init /\ [][Next]_vars

-----------------------------------------------------------------------------
(* Properties.                                                             *)

\* The snapshot s of AO was replaced no later than t.
ReplacedBy(s, t) == s < Len(ledger) /\ ledger[s + 1].since <= t

(***************************************************************************)
(* A request that decides on an AO policy decides on one that AO had not   *)
(* replaced a TTL or more before the request began, however long fetches,  *)
(* mirrors and checkpoint writes of overlapping requests took and in       *)
(* whatever order they finished: a cached state expires a TTL after its    *)
(* resolution began, not after it ended.                                   *)
(***************************************************************************)
AoDecisionFresh ==
  \A r \in Requests :
    req[r].pc \in Decided /\ req[r].state.source = "ao"
      => ~ReplacedBy(req[r].state.from, req[r].began - TTL)

(***************************************************************************)
(* A request that decides on a restored checkpoint decides on one written  *)
(* less than the age limit and a TTL before the request began, also when   *)
(* the file was written under another limit before a restart; under a      *)
(* malformed limit none is restored (README, Integrity checkpoint policy). *)
(***************************************************************************)
CheckpointDecisionFresh ==
  \A r \in Requests :
    req[r].pc \in Decided /\ req[r].state.source = "checkpoint"
      => /\ maxAge # Invalid
         /\ maxAge \in Nat => req[r].began < req[r].state.asOf + maxAge + TTL

\* The request began under a pause that had not run out.
Frozen(r) == req[r].began < req[r].under.until

(***************************************************************************)
(* A pause that no resolution was in flight for freezes the gateway: no    *)
(* mutating request that begins while it is in force is admitted.          *)
(***************************************************************************)
PauseFreezesIfAlone ==
  \A r \in Requests :
    Frozen(r) /\ req[r].under.alone => req[r].pc # "admitted"

(***************************************************************************)
(* An incident id that took effect within the replay TTL is remembered, so *)
(* that a retry or a conflicting action under it is answered as the first, *)
(* unless the cap's worth of other ids has come since: also while the      *)
(* notification of the first is in flight.                                 *)
(***************************************************************************)
IncidentRemembered ==
  \A i \in Ids :
    applied[i] # Never /\ now - applied[i] <= ReplayTTL
      => \/ i \in MapKeys(replay)
         \/ Cardinality({j \in Ids \ {i} : applied[j] >= applied[i]}) >= ReplayCap

(***************************************************************************)
(* What the proofs need besides.                                           *)
(***************************************************************************)

\* AO had not replaced the snapshot s before t.
Current(s, t) == s < Len(ledger) => t <= ledger[s + 1].since

\* t is within the age limit of a checkpoint written at asOf.
WithinLimit(asOf, t) ==
  /\ maxAge # Invalid
  /\ maxAge \in Nat => t <= asOf + maxAge

\* A policy state as good as one resolved at t.
GoodAt(state, t) ==
  /\ state.source = "ao" => Current(state.from, t)
  /\ state.source = "checkpoint" => WithinLimit(state.asOf, t)

ClockInv ==
  /\ \A n \in DOMAIN ledger : ledger[n].since <= now
  /\ runtime.expiresAt <= now + TTL

RequestInv(q) ==
  /\ q.began <= now
  /\ q.pc \in {"answered", "writing"} => q.snapshot # 0
  /\ q.pc \in Resolving => GoodAt(q.state, q.began)
  /\ q.pc \in Decided => GoodAt(q.state, q.began - TTL + 1)
  /\ q.began < q.under.until /\ q.under.alone
       => q.state.paused /\ q.pc \notin Resolving \cup {"admitted"}

\* A pause that nothing was in flight for, while it lasts.
PauseInv ==
  pause.alone /\ now < pause.until
    => /\ runtime.state.paused
       /\ runtime.expiresAt = pause.until
       /\ \A r \in Requests : req[r].pc \notin Resolving

IInv ==
  /\ ResolutionTypeOK
  /\ ClockInv
  /\ GoodAt(runtime.state, runtime.expiresAt - TTL)
  /\ \A r \in Requests : RequestInv(req[r])
  /\ PauseInv

\* Incidents are remembered as of when they took effect, in that order.
MemoryInv ==
  /\ \A i \in Ids : applied[i] <= now
  /\ IsFiniteSet({i \in Ids : applied[i] # Never})
  /\ \A i \in MapKeys(replay) : replay.of[i] = applied[i]
  /\ \A i \in MapKeys(replay) : \A j \in After(replay, i) : applied[i] <= applied[j]

(***************************************************************************)
(* As README has it ("Freeze mutating routes (runtime pause)", "Resume     *)
(* normal mode"): from an acknowledged pause to a resume, within the TTL,  *)
(* no mutating request that begins is admitted.                            *)
(***************************************************************************)
PauseFreezes ==
  \A r \in Requests :
    Frozen(r) /\ req[r].under = pause => req[r].pc # "admitted"

(***************************************************************************)
(* As ops/integrity-runbook.md has it for an AO outage ("Keep the last     *)
(* known-good policy snapshot pinned locally"): a restart finds a whole    *)
(* checkpoint once one has been written.                                   *)
(***************************************************************************)
CheckpointPinned ==
  [][runtime # InitRuntime /\ runtime' = InitRuntime /\ file.snapshot # 0
       => file.status = "whole"]_vars
=============================================================================
