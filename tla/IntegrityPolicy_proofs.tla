----------------------- MODULE IntegrityPolicy_proofs -----------------------
(***************************************************************************)
(* Theorems about IntegrityPolicy: how fresh the policy is that a request  *)
(* decides on, and what a pause promises, for every number of overlapping  *)
(* requests, every TTL and every age limit; which incidents its replay     *)
(* memory has; and about CacheGate: on what authority its cache routes     *)
(* store.                                                                  *)
(*                                                                         *)
(* Most actions change one request slot and leave the clock, the ledger    *)
(* and the runtime state alone; RequestStep deals with what they have in   *)
(* common.                                                                 *)
(***************************************************************************)
EXTENDS CacheGate, OrderedMap_proofs, TLAPS

USE PolicyAssumption DEF AllKinds

(***************************************************************************)
(* A request slot becomes rec, everything the invariant says of rec holds  *)
(* of it now, and it starts resolving only when the cached state has run   *)
(* out: then the invariant holds again.                                    *)
(***************************************************************************)
LEMMA RequestStep ==
  ASSUME IInv,
         NEW r \in Requests, NEW rec \in Request,
         req' = [req EXCEPT ![r] = rec],
         UNCHANGED <<now, ledger, runtime, maxAge, pause>>,
         file' \in [status : {"none", "torn", "whole"}, snapshot : Nat,
                    writtenAt : Nat, expiresAt : Nat \cup {Unset}],
         file'.snapshot \in Snapshots,
         file'.status = "whole" => file'.snapshot # 0,
         rec.snapshot \in Snapshots, rec.state.from \in Snapshots,
         RequestInv(rec),
         rec.pc \in Resolving => req[r].pc \in Resolving \/ ~Fresh
  PROVE  IInv'
<1>1. req' \in [Requests -> Request]
  BY DEF IInv, ResolutionTypeOK
<1>2. ASSUME NEW q \in Requests PROVE req'[q] = IF q = r THEN rec ELSE req[q]
  BY DEF IInv, ResolutionTypeOK
<1>3. ResolutionTypeOK'
  BY <1>1, <1>2 DEF IInv, ResolutionTypeOK, Snapshots
<1>4. ClockInv'
  BY DEF IInv, ClockInv
<1>5. GoodAt(runtime.state, runtime.expiresAt - TTL)'
  BY DEF IInv, GoodAt, Current, WithinLimit
<1>6. ASSUME NEW q \in Requests PROVE RequestInv(req[q])'
  <2>1. CASE q = r
    <3>1. req'[q] = rec
      BY <1>2, <2>1
    <3> QED BY <3>1 DEF RequestInv, GoodAt, Current, WithinLimit
  <2>2. CASE q # r
    <3>1. req'[q] = req[q] /\ RequestInv(req[q])
      BY <1>2, <2>2 DEF IInv
    <3> QED BY <3>1 DEF RequestInv, GoodAt, Current, WithinLimit
  <2> QED BY <2>1, <2>2
<1>7. PauseInv'
  <2>1. SUFFICES ASSUME pause.alone, now < pause.until, NEW q \in Requests
                 PROVE /\ runtime.state.paused
                       /\ runtime.expiresAt = pause.until
                       /\ req'[q].pc \notin Resolving
    BY DEF PauseInv
  <2>2. runtime.state.paused /\ runtime.expiresAt = pause.until /\ Fresh
    BY <2>1 DEF IInv, PauseInv, Fresh
  <2>3. req[q].pc \notin Resolving /\ req[r].pc \notin Resolving
    BY <2>1 DEF IInv, PauseInv
  <2> QED BY <1>2, <2>2, <2>3
<1> QED BY <1>3, <1>4, <1>5, <1>6, <1>7 DEF IInv

\* What RequestStep asks of the file, when the action leaves it alone.
LEMMA FileStep ==
  ASSUME IInv, UNCHANGED <<ledger, file>>
  PROVE  /\ file' \in [status : {"none", "torn", "whole"}, snapshot : Nat,
                       writtenAt : Nat, expiresAt : Nat \cup {Unset}]
         /\ file'.snapshot \in Snapshots
         /\ file'.status = "whole" => file'.snapshot # 0
BY DEF IInv, ResolutionTypeOK

\* What is known of one request slot.
LEMMA Slot ==
  ASSUME IInv, NEW r \in Requests
  PROVE  /\ req[r] \in Request
         /\ req[r].snapshot \in Snapshots /\ req[r].state.from \in Snapshots
         /\ RequestInv(req[r])
BY DEF IInv, ResolutionTypeOK

\* The clock and the ledger, as the steps use them.
LEMMA Published ==
  ASSUME IInv
  PROVE  /\ now \in Nat /\ runtime.expiresAt \in Nat
         /\ Len(ledger) \in Nat \ {0}
         /\ \A n \in 1 .. Len(ledger) : ledger[n].paused \in BOOLEAN /\ ledger[n].since \in Nat
         /\ Snapshots \subseteq Nat /\ 0 \in Snapshots
<1>1. now \in Nat /\ runtime.expiresAt \in Nat
  BY DEF IInv, ResolutionTypeOK
<1>2. ledger \in Seq([paused : BOOLEAN, since : Nat]) /\ ledger # <<>>
  BY DEF IInv, ResolutionTypeOK
<1>3. Len(ledger) \in Nat \ {0}
  BY <1>2
<1>4. ASSUME NEW n \in 1 .. Len(ledger)
      PROVE  ledger[n].paused \in BOOLEAN /\ ledger[n].since \in Nat
  <2> DEFINE Snapshot == [paused : BOOLEAN, since : Nat]
  <2>1. ledger \in Seq(Snapshot)
    BY <1>2
  <2>2. ledger[n] \in Snapshot
    <3> HIDE DEF Snapshot
    <3> QED BY <2>1
  <2> QED BY <2>2
<1>5. Snapshots \subseteq Nat /\ 0 \in Snapshots
  BY <1>3 DEF Snapshots
<1> QED BY <1>1, <1>3, <1>4, <1>5

\* What is as good as one resolved at t is as good as one resolved before.
LEMMA GoodBefore ==
  ASSUME IInv, NEW state \in State, state.from \in Snapshots,
         NEW t \in Int, NEW u \in Int, u <= t, GoodAt(state, t)
  PROVE  GoodAt(state, u)
<1>1. state.source = "ao" => Current(state.from, u)
  <2>1. SUFFICES ASSUME state.source = "ao", state.from < Len(ledger)
                 PROVE  u <= ledger[state.from + 1].since
    BY DEF Current
  <2>2. t <= ledger[state.from + 1].since
    BY <2>1 DEF GoodAt, Current
  <2>3. state.from \in Nat /\ state.from + 1 \in 1 .. Len(ledger)
    BY <2>1, Published
  <2>4. ledger[state.from + 1].since \in Nat
    BY <2>3, Published
  <2> QED BY <2>2, <2>4
<1>2. state.source = "checkpoint" => WithinLimit(state.asOf, u)
  BY DEF GoodAt, WithinLimit, State
<1> QED BY <1>1, <1>2 DEF GoodAt

\* An empty slot satisfies the invariant.
LEMMA IdleSlot ==
  ASSUME IInv
  PROVE  /\ Idle \in Request
         /\ Idle.snapshot \in Snapshots /\ Idle.state.from \in Snapshots
         /\ RequestInv(Idle)
         /\ Idle.pc \notin Resolving
<1>1. EnvState(FALSE) \in State /\ NoPause \in Pause
  BY DEF EnvState, State, NoPause, Pause
<1>2. Idle \in Request
  BY <1>1 DEF Idle, Request
<1>3. /\ Idle.pc = "idle" /\ Idle.began = 0 /\ Idle.snapshot = 0
      /\ Idle.state = EnvState(FALSE) /\ Idle.under = NoPause
  BY DEF Idle
<1>4. RequestInv(Idle)
  BY <1>3, Published DEF RequestInv, NoPause, Resolving, Decided
<1>5. Idle.state.from \in Snapshots
  BY <1>3, Published DEF EnvState
<1> QED BY <1>2, <1>3, <1>4, <1>5, Published DEF Resolving

\* A request begins: with the cached state while that is fresh, which then is
\* younger than a TTL, or with nothing resolved.
LEMMA BeginStep ==
  ASSUME IInv, NEW r \in Requests, NEW kind \in Kinds, NEW id \in Ids \cup {NoId},
         Begin(r, kind, id)
  PROVE  IInv'
<1> DEFINE rec == [pc |-> IF Fresh THEN "resolved" ELSE "fetching",
                  kind |-> kind, id |-> id, began |-> now, stamp |-> 0,
                  state |-> IF Fresh THEN runtime.state ELSE EnvState(EnvPaused),
                  snapshot |-> 0, under |-> pause]
<1>1. req' = [req EXCEPT ![r] = rec]
  BY DEF Begin
<1>2. /\ now \in Nat /\ pause \in Pause /\ runtime.state \in State
      /\ runtime.state.from \in Snapshots
  BY DEF IInv, ResolutionTypeOK
<1>3. EnvState(EnvPaused) \in State /\ EnvState(EnvPaused).from \in Snapshots
  BY Published DEF EnvState, State
<1>4. rec \in Request
  BY <1>2, <1>3 DEF Request, Resolving, Decided
<1>5. rec.snapshot \in Snapshots /\ rec.state.from \in Snapshots
  BY <1>2, <1>3, Published
<1>6. RequestInv(rec)
  <2>1. CASE Fresh
    <3>1. GoodAt(runtime.state, now - TTL + 1)
      <4>1. runtime.expiresAt - TTL \in Int /\ now - TTL + 1 \in Int
            /\ now - TTL + 1 <= runtime.expiresAt - TTL
        BY <2>1, Published DEF Fresh
      <4> QED BY <1>2, <4>1, GoodBefore DEF IInv
    <3>2. now < pause.until /\ pause.alone => runtime.state.paused
      BY DEF IInv, PauseInv
    <3> QED BY <1>2, <2>1, <3>1, <3>2 DEF RequestInv, Resolving, Decided
  <2>2. CASE ~Fresh
    <3>1. ~(now < pause.until /\ pause.alone)
      BY <2>2 DEF IInv, PauseInv, Fresh
    <3> QED BY <1>2, <2>2, <3>1 DEF RequestInv, Resolving, Decided, GoodAt, EnvState
  <2> QED BY <2>1, <2>2
<1>7. rec.pc \in Resolving => ~Fresh
  BY DEF Resolving
<1> HIDE DEF rec
<1>8. PICK new \in Request : new = rec
  BY <1>4
<1> QED BY <1>1, <1>5, <1>6, <1>7, <1>8, FileStep, RequestStep DEF Begin

\* A slot moves on.
LEMMA MovedSlot ==
  ASSUME NEW q \in Request, NEW pc \in {"idle"} \cup Resolving \cup Decided,
         NEW stamp \in Nat, NEW state \in State, NEW snapshot \in Nat
  PROVE  LET rec == Moved(q, pc, stamp, state, snapshot) IN
         /\ rec \in Request
         /\ rec.pc = pc /\ rec.state = state /\ rec.snapshot = snapshot
         /\ rec.began = q.began /\ rec.under = q.under
BY DEF Moved, Request

(***************************************************************************)
(* A request moves on within its resolution, with a state as good as one   *)
(* resolved when the request began.  No pause that nothing was in flight   *)
(* for is in force then.                                                   *)
(***************************************************************************)
LEMMA ResolvingStep ==
  ASSUME IInv,
         NEW r \in Requests, NEW pc \in Resolving, NEW stamp \in Nat,
         NEW state \in State, NEW snapshot \in Snapshots,
         req[r].pc \in Resolving,
         Move(r, pc, stamp, state, snapshot),
         UNCHANGED <<now, ledger, runtime, maxAge, pause>>,
         file' \in [status : {"none", "torn", "whole"}, snapshot : Nat,
                    writtenAt : Nat, expiresAt : Nat \cup {Unset}],
         file'.snapshot \in Snapshots,
         file'.status = "whole" => file'.snapshot # 0,
         state.from \in Snapshots,
         GoodAt(state, req[r].began),
         pc \in {"answered", "writing"} => snapshot # 0
  PROVE  IInv'
<1> DEFINE rec == Moved(req[r], pc, stamp, state, snapshot)
<1>1. req' = [req EXCEPT ![r] = rec]
  BY DEF Move
<1>2. req[r] \in Request /\ snapshot \in Nat
  BY Slot, Published
<1>3. /\ rec \in Request
      /\ rec.pc = pc /\ rec.state = state /\ rec.snapshot = snapshot
      /\ rec.began = req[r].began /\ rec.under = req[r].under
  <2> DEFINE q == req[r]
  <2>1. q \in Request /\ pc \in {"idle"} \cup Resolving \cup Decided
    BY <1>2
  <2>2. rec = Moved(q, pc, stamp, state, snapshot)
    OBVIOUS
  <2> HIDE DEF q, rec
  <2>3. /\ rec \in Request
        /\ rec.pc = pc /\ rec.state = state /\ rec.snapshot = snapshot
        /\ rec.began = q.began /\ rec.under = q.under
    BY <1>2, <2>1, <2>2 DEF Moved, Request
  <2> QED BY <2>3 DEF q
<1> HIDE DEF rec
<1>4. RequestInv(rec)
  BY <1>3, Slot DEF RequestInv, Resolving, Decided
<1>5. PICK new \in Request : new = rec
  BY <1>3
<1> QED BY <1>1, <1>3, <1>4, <1>5, RequestStep

\* A slot is emptied.
LEMMA EmptiedStep ==
  ASSUME IInv, NEW r \in Requests, req' = [req EXCEPT ![r] = Idle],
         UNCHANGED <<now, ledger, runtime, file, maxAge, pause>>
  PROVE  IInv'
<1>1. PICK new \in Request : new = Idle
  BY IdleSlot
<1> QED BY <1>1, IdleSlot, FileStep, RequestStep

\* AO answers with the newest snapshot, which nothing has replaced.
LEMMA AoAnswerStep ==
  ASSUME IInv, NEW r \in Requests, AoAnswer(r)
  PROVE  IInv'
<1> DEFINE state == [paused |-> ledger[Len(ledger)].paused, source |-> "ao",
                     from |-> Len(ledger), asOf |-> 0]
<1>1. state \in State /\ Len(ledger) \in Snapshots \ {0} /\ state.from \in Snapshots
  BY Published DEF State, Snapshots
<1>2. GoodAt(state, req[r].began)
  BY Published DEF GoodAt, Current
<1>3. req[r].pc \in Resolving /\ "answered" \in Resolving /\ req[r].stamp \in Nat
  BY Slot DEF AoAnswer, Resolving, Request
<1>4. Move(r, "answered", req[r].stamp, state, Len(ledger))
  BY DEF AoAnswer
<1>5. UNCHANGED <<now, ledger, runtime, file, maxAge, pause>>
  BY DEF AoAnswer
<1> HIDE DEF state
<1>6. PICK new \in State : new = state
  BY <1>1
<1> QED BY <1>1, <1>2, <1>3, <1>4, <1>5, <1>6, FileStep, ResolvingStep

\* The policy of the slot stays as it is while it resolves.
LEMMA GotoStep ==
  ASSUME IInv, NEW r \in Requests, NEW pc \in {"reading", "commit"},
         req[r].pc \in Resolving, Goto(r, pc),
         UNCHANGED <<now, ledger, runtime, file, maxAge, pause>>
  PROVE  IInv'
<1>1. req[r].state \in State /\ req[r].stamp \in Nat /\ pc \in Resolving
  BY Slot DEF Request, Resolving
<1>2. GoodAt(req[r].state, req[r].began)
  BY Slot DEF RequestInv
<1> QED BY <1>1, <1>2, Slot, FileStep, ResolvingStep DEF Goto

\* AO gave no usable answer: the checkpoint is read next.
LEMMA FetchFailStep ==
  ASSUME IInv, NEW r \in Requests, FetchFail(r)
  PROVE  IInv'
<1>1. req[r].pc \in Resolving
  BY DEF FetchFail, Resolving
<1> QED BY <1>1, GotoStep DEF FetchFail

\* No checkpoint is written: the resolution ends with what AO answered.
LEMMA WriteSkippedStep ==
  ASSUME IInv, NEW r \in Requests, WriteSkipped(r)
  PROVE  IInv'
<1>1. req[r].pc \in Resolving
  BY DEF WriteSkipped, Resolving
<1> QED BY <1>1, GotoStep DEF WriteSkipped

\* An opened file keeps the snapshot it had, unreadable.
LEMMA TornFile ==
  ASSUME IInv
  PROVE  /\ Torn \in [status : {"none", "torn", "whole"}, snapshot : Nat,
                      writtenAt : Nat, expiresAt : Nat \cup {Unset}]
         /\ Torn.snapshot \in Snapshots
         /\ Torn.status # "whole"
<1>1. /\ file \in [status : {"none", "torn", "whole"}, snapshot : Nat,
                   writtenAt : Nat, expiresAt : Nat \cup {Unset}]
      /\ file.snapshot \in Snapshots
  BY DEF IInv, ResolutionTypeOK
<1> QED BY <1>1 DEF Torn

\* The checkpoint is opened for writing, which makes it unreadable.
LEMMA WriteOpenStep ==
  ASSUME IInv, NEW r \in Requests, WriteOpen(r)
  PROVE  IInv'
<1>1. /\ req[r].pc = "answered" /\ req[r].pc \in Resolving /\ "writing" \in Resolving
      /\ now \in Nat /\ req[r].state \in State
  BY Slot, Published DEF WriteOpen, Resolving, Request
<1>2. GoodAt(req[r].state, req[r].began) /\ req[r].snapshot # 0
  BY <1>1, Slot DEF RequestInv
<1>3. /\ Move(r, "writing", now, req[r].state, req[r].snapshot)
      /\ file' = Torn /\ UNCHANGED <<now, ledger, runtime, maxAge, pause>>
  BY DEF WriteOpen
<1> QED BY <1>1, <1>2, <1>3, Slot, TornFile, ResolvingStep

\* The write ends, with the snapshot the request resolved or with none.
LEMMA WriteEndStep ==
  ASSUME IInv, NEW r \in Requests, WriteEnd(r)
  PROVE  IInv'
<1>1. /\ req[r].pc = "writing" /\ req[r].pc \in Resolving /\ "commit" \in Resolving
      /\ req[r].stamp \in Nat /\ req[r].state \in State /\ req[r].snapshot \in Nat
  BY Slot DEF WriteEnd, Resolving, Request
<1>2. GoodAt(req[r].state, req[r].began) /\ req[r].snapshot # 0
  BY <1>1, Slot DEF RequestInv
<1>3. /\ Move(r, "commit", 0, req[r].state, req[r].snapshot)
      /\ file' \in {Envelope(r), Torn, file}
      /\ UNCHANGED <<now, ledger, runtime, maxAge, pause>>
  BY DEF WriteEnd
<1>4. /\ Envelope(r) \in [status : {"none", "torn", "whole"}, snapshot : Nat,
                          writtenAt : Nat, expiresAt : Nat \cup {Unset}]
      /\ Envelope(r).snapshot \in Snapshots
      /\ Envelope(r).snapshot # 0
  BY <1>1, <1>2, Slot DEF Envelope
<1>5. /\ file \in [status : {"none", "torn", "whole"}, snapshot : Nat,
                   writtenAt : Nat, expiresAt : Nat \cup {Unset}]
      /\ file.snapshot \in Snapshots /\ (file.status = "whole" => file.snapshot # 0)
  BY DEF IInv, ResolutionTypeOK
<1>6. /\ file' \in [status : {"none", "torn", "whole"}, snapshot : Nat,
                    writtenAt : Nat, expiresAt : Nat \cup {Unset}]
      /\ file'.snapshot \in Snapshots /\ (file'.status = "whole" => file'.snapshot # 0)
  BY <1>3, <1>4, <1>5, TornFile
<1> QED BY <1>1, <1>2, <1>3, <1>6, Slot, ResolvingStep

\* A checkpoint is within the limit now, and the request began before now.
LEMMA ReadCheckpointStep ==
  ASSUME IInv, NEW r \in Requests, ReadCheckpoint(r)
  PROVE  IInv'
<1>1. /\ req[r].pc \in Resolving /\ "commit" \in Resolving
      /\ req[r].stamp \in Nat /\ req[r].began \in Nat /\ req[r].began <= now
      /\ UNCHANGED <<now, ledger, runtime, file, maxAge, pause>>
  BY Slot DEF ReadCheckpoint, Resolving, Request, RequestInv
<1>2. CASE Usable
  <2> DEFINE state == [paused |-> ledger[file.snapshot].paused, source |-> "checkpoint",
                       from |-> file.snapshot, asOf |-> file.writtenAt]
  <2>1. /\ file.snapshot \in Snapshots /\ file.snapshot # 0
        /\ file.writtenAt \in Nat
    BY <1>2 DEF Usable, IInv, ResolutionTypeOK
  <2>2. file.snapshot \in 1 .. Len(ledger)
    BY <2>1, Published DEF Snapshots
  <2>3. state \in State /\ state.from \in Snapshots
    BY <2>1, <2>2, Published DEF State
  <2>4. GoodAt(state, req[r].began)
    BY <1>1, <1>2, <2>1, Published DEF GoodAt, WithinLimit, Usable
  <2>5. Move(r, "commit", req[r].stamp, state, file.snapshot)
    BY <1>2 DEF ReadCheckpoint
  <2> HIDE DEF state
  <2>6. PICK new \in State : new = state
    BY <2>3
  <2> QED BY <1>1, <2>1, <2>3, <2>4, <2>5, <2>6, FileStep, ResolvingStep
<1>3. CASE ~Usable
  <2>1. EnvState(EnvPaused) \in State /\ EnvState(EnvPaused).from \in Snapshots
    BY Published DEF EnvState, State
  <2>2. GoodAt(EnvState(EnvPaused), req[r].began)
    BY DEF GoodAt, EnvState
  <2>3. Move(r, "commit", req[r].stamp, EnvState(EnvPaused), 0)
    BY <1>3 DEF ReadCheckpoint
  <2> QED BY <1>1, <2>1, <2>2, <2>3, Published, FileStep, ResolvingStep
<1> QED BY <1>2, <1>3

(***************************************************************************)
(* The decision: a paused state blocks a mutation, and only the runtime    *)
(* state's snapshot is read again.                                         *)
(***************************************************************************)
LEMMA GetContextStep ==
  ASSUME IInv, NEW r \in Requests, GetContext(r)
  PROVE  IInv'
<1> DEFINE pc == IF req[r].kind # "mutate" THEN "body"
                 ELSE IF req[r].state.paused THEN "blocked" ELSE "admitted"
           rec == Moved(req[r], pc, req[r].stamp, req[r].state, runtime.snapshot)
<1>1. /\ req[r] \in Request /\ req[r].pc = "resolved"
      /\ req[r].stamp \in Nat /\ req[r].state \in State
      /\ runtime.snapshot \in Snapshots /\ runtime.snapshot \in Nat
  <2>1. req[r].pc = "resolved"
    BY DEF GetContext
  <2>2. runtime.snapshot \in Snapshots
    BY DEF IInv, ResolutionTypeOK
  <2>3. req[r] \in Request /\ req[r].stamp \in Nat /\ req[r].state \in State
    BY Slot DEF Request
  <2> QED BY <2>1, <2>2, <2>3, Published
<1>2. /\ req' = [req EXCEPT ![r] = rec]
      /\ UNCHANGED <<now, ledger, runtime, file, maxAge, pause>>
  BY DEF GetContext, Move
<1>3. pc \in {"body", "blocked", "admitted"} /\ (pc = "admitted" => ~req[r].state.paused)
  OBVIOUS
<1> HIDE DEF pc
<1>4. pc \in {"idle"} \cup Resolving \cup Decided /\ pc \notin Resolving /\ pc \in Decided
  BY <1>3 DEF Resolving, Decided
<1>5. /\ rec \in Request
      /\ rec.pc = pc /\ rec.state = req[r].state /\ rec.snapshot = runtime.snapshot
      /\ rec.began = req[r].began /\ rec.under = req[r].under
  BY <1>1, <1>4 DEF Moved, Request
<1> HIDE DEF rec
<1>6. RequestInv(rec)
  <2>1. RequestInv(req[r]) /\ req[r].pc \in Decided
    BY <1>1, Slot DEF Decided
  <2> QED BY <1>3, <1>4, <1>5, <2>1 DEF RequestInv
<1>7. PICK new \in Request : new = rec
  BY <1>5
<1> QED BY <1>1, <1>2, <1>4, <1>5, <1>6, <1>7, Slot, FileStep, RequestStep

\* A state of the runtime as good as one resolved a TTL before it expires.
LEMMA CommitStep ==
  ASSUME IInv, NEW r \in Requests, Commit(r)
  PROVE  IInv'
<1> DEFINE rec == Moved(req[r], "resolved", req[r].stamp, req[r].state, req[r].snapshot)
<1>1. /\ req[r] \in Request /\ req[r].pc = "commit" /\ req[r].pc \in Resolving
      /\ req[r].stamp \in Nat /\ req[r].state \in State /\ req[r].began \in Nat
      /\ req[r].snapshot \in Snapshots /\ req[r].snapshot \in Nat
      /\ req[r].state.from \in Snapshots
  <2>1. req[r].pc = "commit" /\ req[r].pc \in Resolving
    BY DEF Commit, Resolving
  <2>2. req[r] \in Request /\ req[r].stamp \in Nat /\ req[r].state \in State /\ req[r].began \in Nat
    BY Slot DEF Request
  <2> QED BY <2>1, <2>2, Slot, Published
<1>2. /\ req' = [req EXCEPT ![r] = rec]
      /\ runtime' = [state |-> req[r].state, snapshot |-> req[r].snapshot,
                     expiresAt |-> req[r].began + TTL]
      /\ UNCHANGED <<now, ledger, file, maxAge, pause>>
  BY DEF Commit, Goto, Move
<1>3. /\ rec \in Request
      /\ rec.pc = "resolved" /\ rec.state = req[r].state
      /\ rec.snapshot = req[r].snapshot
      /\ rec.began = req[r].began /\ rec.under = req[r].under
  BY <1>1 DEF Moved, Request, Decided
<1> HIDE DEF rec
<1>4. ASSUME NEW q \in Requests PROVE req'[q] = IF q = r THEN rec ELSE req[q]
  BY <1>2 DEF IInv, ResolutionTypeOK
<1>5. /\ req[r].began <= now /\ GoodAt(req[r].state, req[r].began)
      /\ ~(req[r].began < req[r].under.until /\ req[r].under.alone)
  BY <1>1, Slot DEF RequestInv
<1>6. ResolutionTypeOK'
  <2>1. req' \in [Requests -> Request]
    BY <1>2, <1>3 DEF IInv, ResolutionTypeOK
  <2>2. runtime' \in [state : State, snapshot : Nat, expiresAt : Nat]
    BY <1>1, <1>2
  <2> QED BY <1>1, <1>2, <1>3, <1>4, <2>1, <2>2 DEF IInv, ResolutionTypeOK, Snapshots
<1>7. ClockInv'
  BY <1>1, <1>2, <1>5, Published DEF IInv, ClockInv
<1>8. GoodAt(runtime.state, runtime.expiresAt - TTL)'
  <2>1. runtime'.state = req[r].state /\ runtime'.expiresAt - TTL = req[r].began
    BY <1>1, <1>2
  <2> QED BY <1>2, <1>5, <2>1 DEF GoodAt, Current, WithinLimit
<1>9. ASSUME NEW q \in Requests PROVE RequestInv(req[q])'
  <2>1. CASE q = r
    <3>1. GoodAt(req[r].state, req[r].began - TTL + 1)
      <4>1. req[r].began - TTL + 1 \in Int /\ req[r].began - TTL + 1 <= req[r].began
        BY <1>1
      <4> QED BY <1>1, <1>5, <4>1, GoodBefore
    <3> QED BY <1>2, <1>3, <1>4, <1>5, <2>1, <3>1
        DEF RequestInv, GoodAt, Current, WithinLimit, Resolving, Decided
  <2>2. CASE q # r
    BY <1>2, <1>4, <2>2 DEF IInv, RequestInv, GoodAt, Current, WithinLimit
  <2> QED BY <2>1, <2>2
<1>10. PauseInv'
  BY <1>1, <1>2 DEF IInv, PauseInv
<1> QED BY <1>6, <1>7, <1>8, <1>9, <1>10 DEF IInv

\* A request is answered.
LEMMA ReplyStep ==
  ASSUME IInv, NEW r \in Requests, Reply(r)
  PROVE  IInv'
BY EmptiedStep DEF Reply

\* An incident is refused and changes nothing.
LEMMA IncidentRefusedStep ==
  ASSUME IInv, NEW r \in Requests, IncidentRefused(r)
  PROVE  IInv'
BY EmptiedStep DEF IncidentRefused

\* A remembered incident is acknowledged and changes nothing but the memory.
LEMMA IncidentDuplicateStep ==
  ASSUME IInv, NEW r \in Requests, IncidentDuplicate(r)
  PROVE  IInv'
BY EmptiedStep DEF IncidentDuplicate

(***************************************************************************)
(* An incident takes effect.  A pause starts with its state in the runtime *)
(* and, when it is alone, with no resolution that could overwrite it.      *)
(***************************************************************************)
LEMMA IncidentApplyStep ==
  ASSUME IInv, NEW r \in Requests, IncidentApply(r)
  PROVE  IInv'
<1> DEFINE rec == Moved(req[r], "notify", req[r].stamp, req[r].state, req[r].snapshot)
<1>1. /\ req[r] \in Request /\ req[r].pc = "body" /\ req[r].kind \in AllKinds
      /\ req[r].stamp \in Nat /\ req[r].state \in State
      /\ req[r].snapshot \in Snapshots /\ req[r].snapshot \in Nat
      /\ req[r].state.from \in Snapshots
  <2>1. req[r].pc = "body"
    BY DEF IncidentApply
  <2>2. req[r] \in Request /\ req[r].stamp \in Nat /\ req[r].state \in State /\ req[r].kind \in AllKinds
    BY Slot DEF Request
  <2> QED BY <2>1, <2>2, Slot, Published
<1>2. /\ req' = [req EXCEPT ![r] = rec]
      /\ UNCHANGED <<now, ledger, file, maxAge>>
  BY DEF IncidentApply, Goto, Move
<1>3. /\ rec \in Request
      /\ rec.pc = "notify" /\ rec.state = req[r].state
      /\ rec.snapshot = req[r].snapshot
      /\ rec.began = req[r].began /\ rec.under = req[r].under
  BY <1>1 DEF Moved, Request, Decided
<1> HIDE DEF rec
<1>4. ASSUME NEW q \in Requests PROVE req'[q] = IF q = r THEN rec ELSE req[q]
  BY <1>2 DEF IInv, ResolutionTypeOK
<1>5. req' \in [Requests -> Request]
  BY <1>2, <1>3 DEF IInv, ResolutionTypeOK
<1>6. ASSUME NEW q \in Requests PROVE RequestInv(req[q])'
  <2>1. RequestInv(req[q]) /\ RequestInv(req[r])
    BY Slot
  <2> QED BY <1>1, <1>2, <1>3, <1>4, <2>1
      DEF RequestInv, GoodAt, Current, WithinLimit, Resolving, Decided
<1>7. ASSUME NEW q \in Requests
      PROVE  req'[q].snapshot \in Snapshots /\ req'[q].state.from \in Snapshots
  BY <1>1, <1>3, <1>4, Slot
<1>8. /\ runtime \in [state : State, snapshot : Nat, expiresAt : Nat]
      /\ runtime.snapshot \in Snapshots /\ runtime.state.from \in Snapshots
      /\ pause \in Pause /\ now \in Nat
  BY DEF IInv, ResolutionTypeOK
<1>9. ASSUME NEW p \in BOOLEAN
      PROVE  /\ Toggled(p) \in [state : State, snapshot : Nat, expiresAt : Nat]
             /\ Toggled(p).snapshot = runtime.snapshot
             /\ Toggled(p).state.paused = p /\ Toggled(p).state.source = "env"
             /\ Toggled(p).state.from = 0
             /\ Toggled(p).expiresAt = now + TTL
  <2>1. EnvState(p) \in State /\ EnvState(p).paused = p /\ EnvState(p).source = "env"
        /\ EnvState(p).from = 0
    BY DEF EnvState, State
  <2> QED BY <1>8, <2>1 DEF Toggled
<1>10. /\ runtime' \in [state : State, snapshot : Nat, expiresAt : Nat]
       /\ runtime'.snapshot \in Snapshots /\ runtime'.state.from \in Snapshots
       /\ runtime'.expiresAt <= now + TTL
       /\ pause' \in Pause
       /\ GoodAt(runtime'.state, runtime'.expiresAt - TTL)
       /\ PauseInv'
  <2>1. CASE req[r].kind = "pause"
    <3>1. /\ runtime' = Toggled(TRUE)
          /\ pause' = [until |-> now + TTL,
                       alone |-> \A q \in Requests : req[q].pc \notin Resolving]
      BY <2>1 DEF IncidentApply
    <3>2. pause' \in Pause /\ pause'.until = now + TTL
      BY <1>8, <3>1 DEF Pause
    <3>3. GoodAt(runtime'.state, runtime'.expiresAt - TTL)
      BY <1>9, <3>1 DEF GoodAt
    <3>4. PauseInv'
      <4>1. pause'.alone => \A q \in Requests : req[q].pc \notin Resolving
        BY <3>1
      <4>2. rec.pc \notin Resolving
        BY <1>3 DEF Resolving
      <4> QED BY <1>4, <1>9, <3>1, <3>2, <4>1, <4>2 DEF PauseInv
    <3>5. /\ runtime' \in [state : State, snapshot : Nat, expiresAt : Nat]
          /\ runtime'.snapshot = runtime.snapshot
          /\ runtime'.state.from = 0
          /\ runtime'.expiresAt = now + TTL
      BY <1>9, <3>1
    <3>6. 0 \in Snapshots /\ runtime'.expiresAt <= now + TTL
      BY <1>8, <3>5, Published
    <3> QED BY <1>8, <3>2, <3>3, <3>4, <3>5, <3>6
  <2>2. CASE req[r].kind = "resume"
    <3>1. runtime' = Toggled(FALSE) /\ pause' = NoPause
      BY <2>2 DEF IncidentApply
    <3>2. GoodAt(runtime'.state, runtime'.expiresAt - TTL)
      BY <1>9, <3>1 DEF GoodAt
    <3>3. pause' \in Pause /\ PauseInv'
      BY <3>1 DEF NoPause, Pause, PauseInv
    <3>4. /\ runtime' \in [state : State, snapshot : Nat, expiresAt : Nat]
          /\ runtime'.snapshot = runtime.snapshot
          /\ runtime'.state.from = 0
          /\ runtime'.expiresAt = now + TTL
      BY <1>9, <3>1
    <3>5. 0 \in Snapshots /\ runtime'.expiresAt <= now + TTL
      BY <1>8, <3>4, Published
    <3> QED BY <1>8, <3>2, <3>3, <3>4, <3>5
  <2>3. CASE req[r].kind \notin {"pause", "resume"}
    <3>1. runtime' = runtime /\ pause' = pause
      BY <2>3 DEF IncidentApply
    <3>2. PauseInv'
      <4>1. rec.pc \notin Resolving
        BY <1>3 DEF Resolving
      <4> QED BY <1>2, <1>4, <3>1, <4>1 DEF IInv, PauseInv
    <3> QED BY <1>8, <3>1, <3>2 DEF IInv, ClockInv
  <2> QED BY <2>1, <2>2, <2>3
<1>11. ResolutionTypeOK'
  BY <1>2, <1>5, <1>7, <1>10 DEF IInv, ResolutionTypeOK, Snapshots
<1>12. ClockInv'
  BY <1>2, <1>10 DEF IInv, ClockInv
<1>13. GoodAt(runtime.state, runtime.expiresAt - TTL)'
  BY <1>2, <1>10 DEF GoodAt, Current, WithinLimit
<1> QED BY <1>6, <1>10, <1>11, <1>12, <1>13 DEF IInv

\* A new process remembers nothing, so that its limit may differ.
LEMMA RestartStep ==
  ASSUME IInv, Restart
  PROVE  IInv'
<1>1. /\ runtime' = InitRuntime /\ pause' = NoPause /\ maxAge' \in MaxAges
      /\ UNCHANGED <<now, ledger, file>>
  BY DEF Restart
<1>2. req' = [r \in Requests |-> Idle]
  BY DEF Restart
<1>3. \A r \in Requests : req'[r] = Idle
  BY <1>2
<1>4. req' \in [Requests -> Request]
  BY <1>2, IdleSlot
<1>5. /\ InitRuntime \in [state : State, snapshot : Nat, expiresAt : Nat]
      /\ InitRuntime.snapshot = 0 /\ InitRuntime.state.from = 0
      /\ InitRuntime.expiresAt = 0 /\ InitRuntime.state.source = "env"
  BY DEF InitRuntime, EnvState, State
<1>6. NoPause \in Pause /\ ~NoPause.alone
  BY DEF NoPause, Pause
<1>7. ResolutionTypeOK'
  BY <1>1, <1>3, <1>4, <1>5, <1>6, IdleSlot, Published DEF IInv, ResolutionTypeOK, Snapshots
<1>8. ClockInv'
  BY <1>1, <1>5, Published DEF IInv, ClockInv
<1>9. GoodAt(runtime.state, runtime.expiresAt - TTL)'
  BY <1>1, <1>5 DEF GoodAt
<1>10. ASSUME NEW r \in Requests PROVE RequestInv(req[r])'
  <2>1. /\ Idle.pc = "idle" /\ Idle.began = 0 /\ Idle.under = NoPause
    BY DEF Idle
  <2> QED BY <1>1, <1>3, <1>6, <2>1, Published DEF RequestInv, Resolving, Decided
<1>11. PauseInv'
  BY <1>1, <1>6 DEF PauseInv
<1> QED BY <1>7, <1>8, <1>9, <1>10, <1>11 DEF IInv

(***************************************************************************)
(* AO publishes: what it replaces was current until now, and every request *)
(* began by now.                                                           *)
(***************************************************************************)
LEMMA PublishStep ==
  ASSUME IInv, NEW paused \in BOOLEAN, Publish(paused)
  PROVE  IInv'
<1> DEFINE Snapshot == [paused : BOOLEAN, since : Nat]
           new == [paused |-> paused, since |-> now]
<1>1. /\ ledger' = Append(ledger, new)
      /\ UNCHANGED <<now, runtime, file, maxAge, req, pause>>
  BY DEF Publish
<1>2. ledger \in Seq(Snapshot) /\ new \in Snapshot /\ new.since = now
  BY Published DEF IInv, ResolutionTypeOK
<1> HIDE DEF Snapshot, new
<1>3. /\ ledger' \in Seq(Snapshot) /\ ledger' # <<>>
      /\ Len(ledger') = Len(ledger) + 1
      /\ ledger'[Len(ledger) + 1] = new
      /\ \A n \in 1 .. Len(ledger) : ledger'[n] = ledger[n]
  BY <1>1, <1>2
<1>4. Snapshots \subseteq Snapshots'
  BY <1>3, Published DEF Snapshots
<1>5. ResolutionTypeOK'
  <2>1. ledger' \in Seq([paused : BOOLEAN, since : Nat])
    BY <1>3 DEF Snapshot
  <2> QED BY <1>1, <1>3, <1>4, <2>1 DEF IInv, ResolutionTypeOK
<1>6. ClockInv'
  <2>1. ASSUME NEW n \in DOMAIN ledger' PROVE ledger'[n].since <= now
    <3>1. DOMAIN ledger = 1 .. Len(ledger) /\ DOMAIN ledger' = 1 .. Len(ledger')
      BY <1>2, <1>3
    <3>2. CASE n = Len(ledger) + 1
      BY <1>2, <1>3, <3>2, Published
    <3>3. CASE n # Len(ledger) + 1
      <4>1. n \in 1 .. Len(ledger)
        BY <1>3, <3>1, <3>3, Published
      <4> QED BY <1>3, <3>1, <4>1 DEF IInv, ClockInv
    <3> QED BY <3>2, <3>3
  <2> QED BY <1>1, <2>1 DEF IInv, ClockInv
<1>7. ASSUME NEW state \in State, state.from \in Snapshots,
             NEW t \in Int, t <= now, GoodAt(state, t)
      PROVE  GoodAt(state, t)'
  <2>1. state.source = "ao" => Current(state.from, t)'
    <3>1. SUFFICES ASSUME state.source = "ao", state.from < Len(ledger')
                   PROVE  t <= ledger'[state.from + 1].since
      BY DEF Current
    <3>2. state.from \in Nat /\ state.from <= Len(ledger)
      BY <1>7, Published DEF Snapshots
    <3>3. CASE state.from = Len(ledger)
      BY <1>2, <1>3, <1>7, <3>3
    <3>4. CASE state.from # Len(ledger)
      <4>1. state.from < Len(ledger) /\ state.from + 1 \in 1 .. Len(ledger)
        BY <3>2, <3>4, Published
      <4> QED BY <1>3, <1>7, <3>1, <4>1 DEF GoodAt, Current
    <3> QED BY <3>3, <3>4
  <2>2. state.source = "checkpoint" => WithinLimit(state.asOf, t)'
    BY <1>1, <1>7 DEF GoodAt, WithinLimit
  <2> QED BY <2>1, <2>2 DEF GoodAt
<1>8. GoodAt(runtime.state, runtime.expiresAt - TTL)'
  <2>1. /\ runtime.state \in State /\ runtime.state.from \in Snapshots
        /\ runtime.expiresAt - TTL \in Int /\ runtime.expiresAt - TTL <= now
        /\ GoodAt(runtime.state, runtime.expiresAt - TTL)
    BY DEF IInv, ClockInv, ResolutionTypeOK
  <2> QED BY <1>1, <1>7, <2>1 DEF GoodAt, Current, WithinLimit
<1>9. ASSUME NEW r \in Requests PROVE RequestInv(req[r])'
  <2>1. /\ req[r].state \in State /\ req[r].state.from \in Snapshots
        /\ req[r].began \in Nat /\ req[r].began <= now
    BY Slot DEF Request, RequestInv
  <2>2. req[r].began - TTL + 1 \in Int /\ req[r].began - TTL + 1 <= now
    BY <2>1, Published
  <2>3. req[r].pc \in Resolving => GoodAt(req[r].state, req[r].began)'
    <3>1. SUFFICES ASSUME req[r].pc \in Resolving
                   PROVE  GoodAt(req[r].state, req[r].began)'
      BY <1>1
    <3>2. GoodAt(req[r].state, req[r].began) /\ req[r].began \in Int
      BY <2>1, <3>1, Slot DEF RequestInv
    <3> QED BY <1>1, <1>7, <2>1, <3>2 DEF GoodAt, Current, WithinLimit
  <2>4. req[r].pc \in Decided => GoodAt(req[r].state, req[r].began - TTL + 1)'
    BY <1>1, <1>7, <2>1, <2>2, Slot DEF RequestInv, GoodAt, Current, WithinLimit
  <2> QED BY <1>1, <2>3, <2>4, Slot DEF RequestInv
<1>10. PauseInv'
  BY <1>1 DEF IInv, PauseInv
<1> QED BY <1>5, <1>6, <1>8, <1>9, <1>10 DEF IInv

\* Time passes: what was within its lifetime stays as good, or runs out.
LEMMA TickStep ==
  ASSUME IInv, Tick
  PROVE  IInv'
<1>1. now' = now + 1 /\ UNCHANGED <<ledger, runtime, file, maxAge, req, pause>>
  BY DEF Tick
<1>2. ResolutionTypeOK'
  BY <1>1 DEF IInv, ResolutionTypeOK, Snapshots
<1>3. ClockInv'
  <2>1. \A n \in DOMAIN ledger : ledger[n].since <= now /\ ledger[n].since \in Nat
    <3>1. DOMAIN ledger = 1 .. Len(ledger)
      BY DEF IInv, ResolutionTypeOK
    <3> QED BY <3>1, Published DEF IInv, ClockInv
  <2> QED BY <1>1, <2>1, Published DEF IInv, ClockInv
<1>4. GoodAt(runtime.state, runtime.expiresAt - TTL)'
  BY <1>1 DEF IInv, GoodAt, Current, WithinLimit
<1>5. ASSUME NEW r \in Requests PROVE RequestInv(req[r])'
  <2>1. req[r].began \in Nat /\ RequestInv(req[r])
    BY Slot DEF Request
  <2> QED BY <1>1, <2>1, Published DEF RequestInv, GoodAt, Current, WithinLimit
<1>6. PauseInv'
  <2>1. pause.until \in Nat
    BY DEF IInv, ResolutionTypeOK, Pause
  <2>2. now + 1 < pause.until => now < pause.until
    BY <2>1, Published
  <2> QED BY <1>1, <2>2 DEF IInv, PauseInv
<1> QED BY <1>2, <1>3, <1>4, <1>5, <1>6 DEF IInv

-----------------------------------------------------------------------------

\* The program starts with nothing resolved and no pause.
LEMMA InitIInv == Init => IInv
<1> SUFFICES ASSUME Init PROVE IInv
  OBVIOUS
<1> DEFINE Snapshot == [paused : BOOLEAN, since : Nat]
<1>1. /\ now = 0 /\ runtime = InitRuntime /\ maxAge \in MaxAges
      /\ file = [status |-> "none", snapshot |-> 0, writtenAt |-> 0, expiresAt |-> Unset]
      /\ pause = NoPause
  BY DEF Init
<1>2. req = [r \in Requests |-> Idle]
  BY DEF Init
<1>3. PICK p \in BOOLEAN : ledger = <<[paused |-> p, since |-> 0]>>
  BY DEF Init
<1>4. /\ ledger \in Seq(Snapshot) /\ ledger # <<>> /\ Len(ledger) = 1
      /\ DOMAIN ledger = {1} /\ ledger[1].since = 0
  <2> DEFINE first == [paused |-> p, since |-> 0]
  <2>1. first \in Snapshot /\ first.since = 0 /\ ledger = <<first>>
    BY <1>3
  <2> HIDE DEF Snapshot, first
  <2> QED BY <2>1
<1>5. Snapshots = 0 .. 1
  BY <1>4 DEF Snapshots
<1>6. EnvState(FALSE) \in State /\ EnvState(FALSE).source = "env" /\ EnvState(FALSE).from = 0
  BY DEF EnvState, State
<1>7. /\ InitRuntime \in [state : State, snapshot : Nat, expiresAt : Nat]
      /\ InitRuntime.snapshot = 0 /\ InitRuntime.state = EnvState(FALSE)
      /\ InitRuntime.expiresAt = 0
  BY <1>6 DEF InitRuntime
<1>8. NoPause \in Pause /\ ~NoPause.alone
  BY DEF NoPause, Pause
<1>9. /\ Idle \in Request /\ Idle.pc = "idle" /\ Idle.began = 0 /\ Idle.under = NoPause
      /\ Idle.snapshot = 0 /\ Idle.state = EnvState(FALSE)
  BY <1>6, <1>8 DEF Idle, Request
<1>10. ResolutionTypeOK
  <2>1. req \in [Requests -> Request] /\ \A r \in Requests : req[r] = Idle
    BY <1>2, <1>9
  <2>2. /\ file \in [status : {"none", "torn", "whole"}, snapshot : Nat,
                     writtenAt : Nat, expiresAt : Nat \cup {Unset}]
        /\ file.snapshot = 0 /\ file.status # "whole"
    BY <1>1
  <2>3. ledger \in Seq([paused : BOOLEAN, since : Nat]) /\ ledger # <<>>
    BY <1>4
  <2>4. now \in Nat /\ maxAge \in MaxAges /\ pause \in Pause /\ 0 \in Snapshots
    BY <1>1, <1>5, <1>8
  <2>5. /\ runtime \in [state : State, snapshot : Nat, expiresAt : Nat]
        /\ runtime.snapshot \in Snapshots /\ runtime.state.from \in Snapshots
    BY <1>1, <1>6, <1>7, <2>4
  <2>6. \A r \in Requests : req[r].snapshot \in Snapshots /\ req[r].state.from \in Snapshots
    BY <1>6, <1>9, <2>1, <2>4
  <2>7. file.snapshot \in Snapshots /\ (file.status = "whole" => file.snapshot # 0)
    BY <2>2, <2>4
  <2> HIDE DEF Snapshot
  <2> QED BY <2>1, <2>2, <2>3, <2>4, <2>5, <2>6, <2>7 DEF ResolutionTypeOK
<1>11. ClockInv
  BY <1>1, <1>4, <1>7 DEF ClockInv
<1>12. GoodAt(runtime.state, runtime.expiresAt - TTL)
  BY <1>1, <1>6, <1>7 DEF GoodAt
<1>13. ASSUME NEW r \in Requests PROVE RequestInv(req[r])
  BY <1>1, <1>2, <1>8, <1>9 DEF RequestInv, Resolving, Decided
<1>14. PauseInv
  BY <1>1, <1>8 DEF PauseInv
<1> QED BY <1>10, <1>11, <1>12, <1>13, <1>14 DEF IInv

\* Every step of the next-state relation, and a stutter, keeps the invariant.
LEMMA NextIInv == IInv /\ [Next]_vars => IInv'
<1> SUFFICES ASSUME IInv, [Next]_vars PROVE IInv'
  OBVIOUS
<1>1. ASSUME NEW r \in Requests, NEW kind \in Kinds, NEW id \in Ids \cup {NoId},
             Begin(r, kind, id)
      PROVE  IInv'
  BY <1>1, BeginStep
<1>2. ASSUME NEW r \in Requests, Resolve(r)
      PROVE  IInv'
  BY <1>2, AoAnswerStep, FetchFailStep, WriteSkippedStep, WriteOpenStep, WriteEndStep,
     ReadCheckpointStep, CommitStep, GetContextStep DEF Resolve
<1>3. ASSUME NEW r \in Requests,
             IncidentRefused(r) \/ IncidentDuplicate(r) \/ IncidentApply(r) \/ Reply(r)
      PROVE  IInv'
  BY <1>3, IncidentRefusedStep, IncidentDuplicateStep, IncidentApplyStep, ReplyStep
<1>4. CASE Restart
  BY <1>4, RestartStep
<1>5. ASSUME NEW paused \in BOOLEAN, Publish(paused)
      PROVE  IInv'
  BY <1>5, PublishStep
<1>6. CASE Tick
  BY <1>6, TickStep
<1>7. CASE UNCHANGED vars
  <2>1. UNCHANGED <<now, ledger, runtime, file, maxAge, req, pause>>
    BY <1>7 DEF vars
  <2> QED BY <2>1 DEF IInv, ResolutionTypeOK, Snapshots, ClockInv, GoodAt, Current,
        WithinLimit, RequestInv, PauseInv
<1> QED BY <1>1, <1>2, <1>3, <1>4, <1>5, <1>6, <1>7 DEF Next

\* The inductive invariant holds in every reachable state.
THEOREM PolicyInvariant == Spec => []IInv
<1>1. QED BY InitIInv, NextIInv, PTL DEF Spec

\* The state a request decides on was resolved less than a TTL before it began.
LEMMA FreshDecisions == IInv => AoDecisionFresh
<1>1. SUFFICES ASSUME IInv, NEW r \in Requests,
                      req[r].pc \in Decided, req[r].state.source = "ao",
                      req[r].state.from < Len(ledger)
               PROVE  ~(ledger[req[r].state.from + 1].since <= req[r].began - TTL)
  BY DEF AoDecisionFresh, ReplacedBy
<1>2. req[r].began - TTL + 1 <= ledger[req[r].state.from + 1].since
  BY <1>1, Slot DEF RequestInv, GoodAt, Current
<1>3. req[r].began \in Nat /\ req[r].state.from \in Nat
  BY <1>1, Slot, Published DEF Request
<1>4. ledger[req[r].state.from + 1].since \in Nat
  <2>1. req[r].state.from + 1 \in 1 .. Len(ledger)
    BY <1>1, <1>3, Published
  <2> QED BY <1>1, <2>1, Published
<1> QED BY <1>2, <1>3, <1>4

(***************************************************************************)
(* No request decides on an AO policy that AO had replaced a TTL or more   *)
(* before the request began, in whatever order resolutions finish.         *)
(***************************************************************************)
THEOREM AoDecisionsFresh == Spec => []AoDecisionFresh
BY FreshDecisions, PolicyInvariant, PTL

(***************************************************************************)
(* No request decides on a checkpoint that had reached the age limit a TTL *)
(* or more before the request began, also after the limit was changed.     *)
(***************************************************************************)
THEOREM CheckpointDecisionsFresh == Spec => []CheckpointDecisionFresh
<1>1. IInv => CheckpointDecisionFresh
  <2>1. SUFFICES ASSUME IInv, NEW r \in Requests,
                        req[r].pc \in Decided, req[r].state.source = "checkpoint"
                 PROVE  /\ maxAge # Invalid
                        /\ maxAge \in Nat => req[r].began < req[r].state.asOf + maxAge + TTL
    BY DEF CheckpointDecisionFresh
  <2>2. WithinLimit(req[r].state.asOf, req[r].began - TTL + 1)
    BY <2>1, Slot DEF RequestInv, GoodAt
  <2>3. req[r].began \in Nat /\ req[r].state.asOf \in Nat
    BY <2>1, Slot DEF Request, State
  <2> QED BY <2>2, <2>3 DEF WithinLimit
<1> QED BY <1>1, PolicyInvariant, PTL

\* A request that began under such a pause holds a paused state.
LEMMA PauseFrozen == IInv => PauseFreezesIfAlone
BY Slot DEF PauseFreezesIfAlone, Frozen, RequestInv

(***************************************************************************)
(* While a pause lasts that no resolution was in flight for, no mutation   *)
(* that begins is admitted.                                                *)
(***************************************************************************)
THEOREM PauseHolds == Spec => []PauseFreezesIfAlone
BY PauseFrozen, PolicyInvariant, PTL

-----------------------------------------------------------------------------
(* The memory of incidents.                                                *)

\* The values of a map are times that never decrease along its order.
Chronological(m) == \A i \in MapKeys(m) : \A j \in After(m, i) : m.of[i] <= m.of[j]

(***************************************************************************)
(* pruneIntegrityIncidentReplay forgets what has run out, and besides only *)
(* what a cap's worth of others has come after.                            *)
(***************************************************************************)
LEMMA PrunedMemory ==
  ASSUME NEW m, MapOf(m, Ids, Nat), Chronological(m), now \in Nat
  PROVE  /\ MapOf(Pruned(m), Ids, Nat)
         /\ Cardinality(MapKeys(Pruned(m))) <= ReplayCap
         /\ MapKeys(Pruned(m)) \subseteq MapKeys(m)
         /\ \A i \in MapKeys(Pruned(m)) : Pruned(m).of[i] = m.of[i]
         /\ Chronological(Pruned(m))
         /\ \A i \in MapKeys(m) \ MapKeys(Pruned(m)) :
              now - m.of[i] <= ReplayTTL
                => /\ After(m, i) # {}
                   /\ Cardinality({j \in MapKeys(m) \ {i} : m.of[j] >= m.of[i]}) >= ReplayCap
<1> DEFINE young == MapOnly(m, {i \in MapKeys(m) : now - m.of[i] <= ReplayTTL})
           S == {i \in MapKeys(m) : now - m.of[i] <= ReplayTTL}
<1>1. /\ MapOf(young, Ids, Nat) /\ MapKeys(young) = S
      /\ \A i \in S : young.of[i] = m.of[i] /\ After(young, i) \subseteq After(m, i)
  <2>1. MapKeys(m) \cap S = S
    OBVIOUS
  <2> HIDE DEF S
  <2>2. /\ MapOf(MapOnly(m, S), Ids, Nat) /\ MapKeys(MapOnly(m, S)) = MapKeys(m) \cap S
        /\ \A k \in MapKeys(m) \cap S :
             MapOnly(m, S).of[k] = m.of[k] /\ After(MapOnly(m, S), k) = After(m, k) \cap S
    BY MapOnlyOf
  <2> QED BY <2>1, <2>2 DEF S
<1> HIDE DEF young
<1>2. Pruned(m) = MapNewest(young, ReplayCap)
  BY DEF Pruned, young
<1>3. ReplayCap \in Nat \ {0}
  BY PolicyAssumption
<1>4. /\ MapOf(Pruned(m), Ids, Nat)
      /\ MapKeys(Pruned(m)) = {i \in S : Cardinality(After(young, i)) < ReplayCap}
      /\ \A i \in MapKeys(Pruned(m)) : Pruned(m).of[i] = young.of[i]
      /\ \A i \in MapKeys(Pruned(m)) : After(Pruned(m), i) \subseteq After(young, i)
      /\ Cardinality(MapKeys(Pruned(m))) <= ReplayCap
  <2> HIDE DEF S
  <2> QED BY <1>1, <1>2, <1>3, MapNewestOf
<1>5. Chronological(Pruned(m))
  <2> SUFFICES ASSUME NEW i \in MapKeys(Pruned(m)), NEW j \in After(Pruned(m), i)
               PROVE  Pruned(m).of[i] <= Pruned(m).of[j]
    BY DEF Chronological
  <2>1. j \in MapKeys(Pruned(m)) /\ j \in After(m, i) /\ i \in S /\ j \in S
    BY <1>1, <1>4 DEF After
  <2> QED BY <1>1, <1>4, <2>1 DEF Chronological
<1>6. ASSUME NEW i \in MapKeys(m) \ MapKeys(Pruned(m)), now - m.of[i] <= ReplayTTL
      PROVE  /\ After(m, i) # {}
             /\ Cardinality({j \in MapKeys(m) \ {i} : m.of[j] >= m.of[i]}) >= ReplayCap
  <2> DEFINE L == {j \in MapKeys(m) \ {i} : m.of[j] >= m.of[i]}
  <2>1. i \in S /\ ~(Cardinality(After(young, i)) < ReplayCap)
    BY <1>4, <1>6
  <2>2. After(young, i) \subseteq After(m, i) /\ After(m, i) \subseteq MapKeys(m)
    BY <1>1, <2>1 DEF After
  <2>3. After(m, i) \subseteq L
    <3> SUFFICES ASSUME NEW j \in After(m, i) PROVE j \in L
      OBVIOUS
    <3>1. j \in MapKeys(m) /\ j # i
      BY DEF After, MapOf, Ordered
    <3>2. m.of[i] <= m.of[j] /\ m.of[i] \in Nat /\ m.of[j] \in Nat
      BY <3>1 DEF Chronological, MapOf
    <3> QED BY <3>1, <3>2
  <2>4. IsFiniteSet(L) /\ L \subseteq MapKeys(m)
    BY FS_Subset DEF MapOf
  <2>5. /\ Cardinality(After(young, i)) <= Cardinality(L)
        /\ IsFiniteSet(After(young, i))
    BY <2>2, <2>3, <2>4, FS_Subset
  <2>6. Cardinality(L) \in Nat /\ Cardinality(After(young, i)) \in Nat
    BY <2>4, <2>5, FS_CardinalityType
  <2>7. Cardinality(L) >= ReplayCap
    BY <1>3, <2>1, <2>5, <2>6
  <2>8. After(m, i) # {}
    <3> SUFFICES ASSUME After(young, i) = {} PROVE FALSE
      BY <2>2
    <3> QED BY <1>3, <2>1, FS_EmptySet
  <2> QED BY <2>7, <2>8
<1> QED BY <1>1, <1>4, <1>5, <1>6

\* The types of the memory, and what it holds.
IncidentInv ==
  /\ MapOf(replay, Ids, Nat) /\ Cardinality(MapKeys(replay)) <= ReplayCap
  /\ applied \in [Ids -> Nat \cup {Never}]
  /\ MemoryInv
  /\ IncidentRemembered

(***************************************************************************)
(* A set of ids that took effect since i did only grows.                   *)
(***************************************************************************)
LEMMA LaterIds ==
  ASSUME NEW f \in [Ids -> Nat \cup {Never}], NEW i \in Ids, f[i] # Never,
         IsFiniteSet({j \in Ids : f[j] # Never}),
         NEW L \in SUBSET {j \in Ids \ {i} : f[j] >= f[i]}, Cardinality(L) >= ReplayCap
  PROVE  Cardinality({j \in Ids \ {i} : f[j] >= f[i]}) >= ReplayCap
<1> DEFINE G == {j \in Ids \ {i} : f[j] >= f[i]}
<1>1. G \subseteq {j \in Ids : f[j] # Never}
  <2>1. \A j \in Ids : f[j] \in Nat \cup {Never}
    OBVIOUS
  <2> QED BY <2>1 DEF Never
<1>2. IsFiniteSet(G)
  BY <1>1, FS_Subset
<1>3. Cardinality(L) <= Cardinality(G) /\ IsFiniteSet(L)
  BY <1>2, FS_Subset
<1>4. Cardinality(L) \in Nat /\ Cardinality(G) \in Nat /\ ReplayCap \in Nat
  BY <1>2, <1>3, FS_CardinalityType, PolicyAssumption
<1> QED BY <1>3, <1>4

(***************************************************************************)
(* The memory as an incident finds it.                                     *)
(***************************************************************************)
LEMMA MemoryPruned ==
  ASSUME IncidentInv, now \in Nat
  PROVE  LET p == Pruned(replay) IN
         /\ MapOf(p, Ids, Nat) /\ Cardinality(MapKeys(p)) <= ReplayCap
         /\ MapKeys(p) \subseteq MapKeys(replay)
         /\ \A i \in MapKeys(p) : p.of[i] = applied[i]
         /\ Chronological(p)
         /\ \A i \in Ids :
              applied[i] # Never /\ now - applied[i] <= ReplayTTL
                => \/ i \in MapKeys(p)
                   \/ Cardinality({j \in Ids \ {i} : applied[j] >= applied[i]}) >= ReplayCap
<1> DEFINE p == Pruned(replay)
<1>1. /\ MapOf(replay, Ids, Nat) /\ applied \in [Ids -> Nat \cup {Never}]
      /\ MapKeys(replay) \subseteq Ids
      /\ \A i \in MapKeys(replay) : replay.of[i] = applied[i] /\ replay.of[i] \in Nat
      /\ IsFiniteSet({i \in Ids : applied[i] # Never})
  BY DEF IncidentInv, MemoryInv, MapOf
<1>2. Chronological(replay)
  <2> SUFFICES ASSUME NEW i \in MapKeys(replay), NEW j \in After(replay, i)
               PROVE  replay.of[i] <= replay.of[j]
    BY DEF Chronological
  <2>1. j \in MapKeys(replay)
    BY DEF After
  <2> QED BY <1>1, <2>1 DEF IncidentInv, MemoryInv
<1>3. /\ MapOf(p, Ids, Nat) /\ Cardinality(MapKeys(p)) <= ReplayCap
      /\ MapKeys(p) \subseteq MapKeys(replay)
      /\ \A i \in MapKeys(p) : p.of[i] = replay.of[i]
      /\ Chronological(p)
      /\ \A i \in MapKeys(replay) \ MapKeys(p) :
           now - replay.of[i] <= ReplayTTL
             => Cardinality({j \in MapKeys(replay) \ {i} : replay.of[j] >= replay.of[i]}) >= ReplayCap
  BY <1>1, <1>2, PrunedMemory
<1>4. ASSUME NEW i \in Ids, applied[i] # Never, now - applied[i] <= ReplayTTL, i \notin MapKeys(p)
      PROVE  Cardinality({j \in Ids \ {i} : applied[j] >= applied[i]}) >= ReplayCap
  <2>1. CASE i \notin MapKeys(replay)
    BY <1>4, <2>1 DEF IncidentInv, IncidentRemembered
  <2>2. CASE i \in MapKeys(replay)
    <3> DEFINE L == {j \in MapKeys(replay) \ {i} : replay.of[j] >= replay.of[i]}
    <3>1. Cardinality(L) >= ReplayCap
      BY <1>1, <1>3, <1>4, <2>2
    <3>2. L \subseteq {j \in Ids \ {i} : applied[j] >= applied[i]}
      BY <1>1, <2>2
    <3> HIDE DEF L
    <3> QED BY <1>1, <1>4, <3>1, <3>2, LaterIds
  <2> QED BY <2>1, <2>2
<1> QED BY <1>1, <1>3, <1>4

(***************************************************************************)
(* A duplicate prunes the memory and changes nothing else of it.           *)
(***************************************************************************)
LEMMA DuplicateStep ==
  ASSUME IncidentInv, now \in Nat, replay' = Pruned(replay), UNCHANGED <<now, applied>>
  PROVE  IncidentInv'
<1> DEFINE p == Pruned(replay)
<1>1. /\ MapOf(p, Ids, Nat) /\ Cardinality(MapKeys(p)) <= ReplayCap
      /\ \A i \in MapKeys(p) : p.of[i] = applied[i]
      /\ Chronological(p)
      /\ \A i \in Ids :
           applied[i] # Never /\ now - applied[i] <= ReplayTTL
             => \/ i \in MapKeys(p)
                \/ Cardinality({j \in Ids \ {i} : applied[j] >= applied[i]}) >= ReplayCap
  BY MemoryPruned
<1> HIDE DEF p
<1>2. replay' = p /\ now' = now /\ applied' = applied
  BY DEF p
<1>3. \A i \in MapKeys(p) : \A j \in After(p, i) : applied[i] <= applied[j]
  <2> TAKE i \in MapKeys(p)
  <2> TAKE j \in After(p, i)
  <2>1. j \in MapKeys(p)
    BY DEF After
  <2> QED BY <1>1, <2>1 DEF Chronological
<1>4. MemoryInv'
  BY <1>1, <1>2, <1>3 DEF IncidentInv, MemoryInv
<1>5. IncidentRemembered'
  BY <1>1, <1>2 DEF IncidentRemembered
<1> QED BY <1>1, <1>2, <1>4, <1>5 DEF IncidentInv

(***************************************************************************)
(* An incident takes effect: it is remembered as the newest, and what that *)
(* drops has a cap's worth of others after it.                             *)
(***************************************************************************)
LEMMA RecordStep ==
  ASSUME IncidentInv, now \in Nat, NEW id \in Ids \cup {NoId},
         id \notin MapKeys(Pruned(replay)),
         replay' = Recorded(id), UNCHANGED now,
         applied' = [i \in Ids |-> IF i = id THEN now ELSE applied[i]]
  PROVE  IncidentInv'
<1> DEFINE p == Pruned(replay)
           m == MapSet(p, id, now)
<1>1. /\ MapOf(p, Ids, Nat) /\ Cardinality(MapKeys(p)) <= ReplayCap
      /\ \A i \in MapKeys(p) : p.of[i] = applied[i]
      /\ Chronological(p)
      /\ \A i \in Ids :
           applied[i] # Never /\ now - applied[i] <= ReplayTTL
             => \/ i \in MapKeys(p)
                \/ Cardinality({j \in Ids \ {i} : applied[j] >= applied[i]}) >= ReplayCap
  BY MemoryPruned
<1>2. CASE id = NoId
  <2>1. applied' = applied
    BY <1>2, PolicyAssumption DEF IncidentInv
  <2>2. replay' = Pruned(replay)
    BY <1>2 DEF Recorded
  <2> QED BY <2>1, <2>2, DuplicateStep
<1>3. CASE id # NoId
  <2>1. id \in Ids /\ replay' = Pruned(m) /\ id \notin MapKeys(p)
    BY <1>3 DEF Recorded
  <2> HIDE DEF p
  <2>2. /\ MapOf(m, Ids, Nat)
        /\ MapKeys(m) = MapKeys(p) \cup {id}
        /\ m.of[id] = now
        /\ \A j \in MapKeys(p) : m.of[j] = p.of[j]
        /\ After(m, id) = {}
        /\ \A j \in MapKeys(p) : After(m, j) = After(p, j) \cup {id}
    BY <1>1, <2>1, MapSetOf
  <2> HIDE DEF m
  <2>3. /\ applied' \in [Ids -> Nat \cup {Never}]
        /\ applied'[id] = now /\ \A i \in Ids \ {id} : applied'[i] = applied[i]
        /\ \A i \in Ids : applied[i] \in Nat \cup {Never} /\ applied[i] <= now
        /\ MapKeys(p) \subseteq Ids
    BY <1>1, <2>1 DEF IncidentInv, MemoryInv, MapOf
  <2>4. \A i \in MapKeys(m) : m.of[i] = applied'[i] /\ m.of[i] \in Nat /\ m.of[i] <= now
    BY <1>1, <2>1, <2>2, <2>3 DEF MapOf
  <2>5. Chronological(m)
    <3> SUFFICES ASSUME NEW i \in MapKeys(m), NEW j \in After(m, i)
                 PROVE  m.of[i] <= m.of[j]
      BY DEF Chronological
    <3>1. i \in MapKeys(p) /\ (j = id \/ j \in After(p, i))
      BY <2>2
    <3>2. CASE j = id
      BY <2>2, <2>4, <3>2
    <3>3. CASE j \in After(p, i)
      <4>1. j \in MapKeys(p)
        BY <3>3 DEF After
      <4> QED BY <1>1, <2>2, <3>1, <3>3, <4>1 DEF Chronological
    <3> QED BY <3>1, <3>2, <3>3
  <2>6. /\ MapOf(Pruned(m), Ids, Nat)
        /\ Cardinality(MapKeys(Pruned(m))) <= ReplayCap
        /\ MapKeys(Pruned(m)) \subseteq MapKeys(m)
        /\ \A i \in MapKeys(Pruned(m)) : Pruned(m).of[i] = m.of[i]
        /\ Chronological(Pruned(m))
        /\ \A i \in MapKeys(m) \ MapKeys(Pruned(m)) :
             now - m.of[i] <= ReplayTTL
               => /\ After(m, i) # {}
                  /\ Cardinality({j \in MapKeys(m) \ {i} : m.of[j] >= m.of[i]}) >= ReplayCap
    BY <2>2, <2>5, PrunedMemory
  <2> DEFINE q == Pruned(m)
  <2> HIDE DEF q
  <2>7. replay' = q /\ now' = now
    BY <2>1 DEF q
  <2>8. IsFiniteSet({i \in Ids : applied'[i] # Never})
    <3>1. {i \in Ids : applied'[i] # Never} \subseteq {i \in Ids : applied[i] # Never} \cup {id}
      BY <2>3
    <3>2. IsFiniteSet({i \in Ids : applied[i] # Never} \cup {id})
      BY FS_AddElement DEF IncidentInv, MemoryInv
    <3> QED BY <3>1, <3>2, FS_Subset
  <2>9. MemoryInv'
    <3>1. \A i \in MapKeys(q) : q.of[i] = applied'[i]
      BY <2>4, <2>6 DEF q
    <3>2. \A i \in MapKeys(q) : \A j \in After(q, i) : applied'[i] <= applied'[j]
      <4> TAKE i \in MapKeys(q)
      <4> TAKE j \in After(q, i)
      <4>1. j \in MapKeys(q)
        BY DEF After
      <4> QED BY <2>6, <3>1, <4>1 DEF Chronological, q
    <3>3. \A i \in Ids : applied'[i] <= now
      BY <2>3
    <3> QED BY <2>7, <2>8, <3>1, <3>2, <3>3 DEF MemoryInv
  <2>10. ASSUME NEW i \in Ids, applied'[i] # Never, now - applied'[i] <= ReplayTTL, i \notin MapKeys(q)
         PROVE  Cardinality({j \in Ids \ {i} : applied'[j] >= applied'[i]}) >= ReplayCap
    <3>1. CASE i \in MapKeys(m)
      <4> DEFINE L == {j \in MapKeys(m) \ {i} : m.of[j] >= m.of[i]}
      <4>1. Cardinality(L) >= ReplayCap
        BY <2>4, <2>6, <2>10, <3>1 DEF q
      <4>2. L \subseteq {j \in Ids \ {i} : applied'[j] >= applied'[i]}
        BY <2>1, <2>2, <2>3, <2>4, <3>1
      <4> HIDE DEF L
      <4> QED BY <2>3, <2>8, <2>10, <4>1, <4>2, LaterIds
    <3>2. CASE i \notin MapKeys(m)
      <4>1. i # id /\ i \notin MapKeys(p) /\ applied'[i] = applied[i]
        BY <2>2, <2>3, <3>2
      <4> DEFINE L == {j \in Ids \ {i} : applied[j] >= applied[i]}
      <4>2. Cardinality(L) >= ReplayCap
        BY <1>1, <2>10, <4>1
      <4>3. L \subseteq {j \in Ids \ {i} : applied'[j] >= applied'[i]}
        <5> SUFFICES ASSUME NEW j \in L PROVE applied'[j] >= applied'[i]
          OBVIOUS
        <5>1. CASE j = id
          BY <2>3, <4>1, <5>1
        <5>2. CASE j # id
          BY <2>3, <4>1, <5>2
        <5> QED BY <5>1, <5>2
      <4> HIDE DEF L
      <4> QED BY <2>3, <2>8, <2>10, <4>2, <4>3, LaterIds
    <3> QED BY <3>1, <3>2
  <2>11. IncidentRemembered'
    BY <2>7, <2>10 DEF IncidentRemembered
  <2>12. MapOf(q, Ids, Nat) /\ Cardinality(MapKeys(q)) <= ReplayCap
    BY <2>6 DEF q
  <2> QED BY <2>3, <2>7, <2>9, <2>11, <2>12 DEF IncidentInv
<1> QED BY <1>2, <1>3

\* The program starts with no incident remembered.
LEMMA IncidentInit == Init => IncidentInv
<1> SUFFICES ASSUME Init PROVE IncidentInv
  OBVIOUS
<1>1. /\ now = 0 /\ replay = EmptyMap /\ \A i \in Ids : applied[i] = Never
      /\ applied = [i \in Ids |-> Never]
  BY DEF Init
<1>2. MapOf(replay, Ids, Nat) /\ MapKeys(replay) = {}
  BY <1>1, EmptyMapOf
<1>3. Cardinality(MapKeys(replay)) <= ReplayCap
  BY <1>2, FS_EmptySet, PolicyAssumption
<1>4. applied \in [Ids -> Nat \cup {Never}]
  BY <1>1
<1>5. {i \in Ids : applied[i] # Never} = {}
  BY <1>1
<1>6. MemoryInv
  BY <1>1, <1>2, <1>5, FS_EmptySet DEF MemoryInv, Never
<1>7. IncidentRemembered
  BY <1>1 DEF IncidentRemembered
<1> QED BY <1>2, <1>3, <1>4, <1>6, <1>7 DEF IncidentInv

\* Nothing is remembered of the requests of a process that died.
LEMMA IncidentRestart == ASSUME Restart, now \in Nat PROVE IncidentInv'
<1>1. /\ now' = now /\ replay' = EmptyMap /\ \A i \in Ids : applied'[i] = Never
      /\ applied' = [i \in Ids |-> Never]
  BY DEF Restart
<1>2. MapOf(replay', Ids, Nat) /\ MapKeys(replay') = {}
  BY <1>1, EmptyMapOf
<1>3. Cardinality(MapKeys(replay')) <= ReplayCap
  BY <1>2, FS_EmptySet, PolicyAssumption
<1>4. applied' \in [Ids -> Nat \cup {Never}]
  BY <1>1
<1>5. {i \in Ids : applied'[i] # Never} = {}
  BY <1>1
<1>6. MemoryInv'
  BY <1>1, <1>2, <1>5, FS_EmptySet DEF MemoryInv, Never
<1>7. IncidentRemembered'
  BY <1>1 DEF IncidentRemembered
<1> QED BY <1>2, <1>3, <1>4, <1>6, <1>7 DEF IncidentInv

\* Time passes: fewer ids have to be remembered.
LEMMA IncidentTick == ASSUME IncidentInv, Tick, now \in Nat PROVE IncidentInv'
<1>1. now' = now + 1 /\ replay' = replay /\ applied' = applied
  BY DEF Tick
<1>2. \A i \in Ids : applied[i] \in Int
  BY DEF IncidentInv, Never
<1>3. MemoryInv'
  <2>1. \A i \in Ids : applied[i] <= now + 1
    BY <1>2 DEF IncidentInv, MemoryInv
  <2> QED BY <1>1, <2>1 DEF IncidentInv, MemoryInv
<1>4. ASSUME NEW i \in Ids, applied[i] # Never, now' - applied[i] <= ReplayTTL
      PROVE  \/ i \in MapKeys(replay)
             \/ Cardinality({j \in Ids \ {i} : applied[j] >= applied[i]}) >= ReplayCap
  <2>1. now - applied[i] <= ReplayTTL
    BY <1>1, <1>2, <1>4, PolicyAssumption
  <2> QED BY <1>4, <2>1 DEF IncidentInv, IncidentRemembered
<1>5. IncidentRemembered'
  BY <1>1, <1>4 DEF IncidentRemembered
<1> QED BY <1>1, <1>3, <1>5 DEF IncidentInv

(***************************************************************************)
(* No step of a request but the two that end an incident touches the       *)
(* memory.                                                                 *)
(***************************************************************************)
LEMMA IncidentNext ==
  ASSUME ResolutionTypeOK, IncidentInv, [Next]_vars
  PROVE  IncidentInv'
<1>1. now \in Nat
  BY DEF ResolutionTypeOK
<1>2. ASSUME UNCHANGED <<now, replay, applied>> PROVE IncidentInv'
  BY <1>2 DEF IncidentInv, MemoryInv, IncidentRemembered
<1>3. ASSUME NEW r \in Requests, NEW kind \in Kinds, NEW id \in Ids \cup {NoId},
             Begin(r, kind, id)
      PROVE  IncidentInv'
  BY <1>2, <1>3 DEF Begin
<1>4. ASSUME NEW r \in Requests, Resolve(r) PROVE IncidentInv'
  BY <1>2, <1>4 DEF Resolve, AoAnswer, FetchFail, WriteSkipped, WriteOpen, WriteEnd,
       ReadCheckpoint, Commit, GetContext
<1>5. ASSUME NEW r \in Requests, IncidentRefused(r) \/ Reply(r) PROVE IncidentInv'
  BY <1>2, <1>5 DEF IncidentRefused, Reply
<1>6. ASSUME NEW r \in Requests, IncidentDuplicate(r) PROVE IncidentInv'
  BY <1>1, <1>6, DuplicateStep DEF IncidentDuplicate
<1>7. ASSUME NEW r \in Requests, IncidentApply(r) PROVE IncidentInv'
  <2>1. req[r].id \in Ids \cup {NoId}
    BY DEF ResolutionTypeOK, Request
  <2>2. /\ req[r].id \notin MapKeys(Pruned(replay))
        /\ replay' = Recorded(req[r].id) /\ UNCHANGED now
        /\ applied' = [i \in Ids |-> IF i = req[r].id THEN now ELSE applied[i]]
    BY <1>7 DEF IncidentApply
  <2> QED BY <1>1, <2>1, <2>2, RecordStep
<1>8. ASSUME NEW paused \in BOOLEAN, Publish(paused) PROVE IncidentInv'
  BY <1>2, <1>8 DEF Publish
<1>9. CASE Restart
  BY <1>1, <1>9, IncidentRestart
<1>10. CASE Tick
  BY <1>1, <1>10, IncidentTick
<1>11. CASE UNCHANGED vars
  BY <1>2, <1>11 DEF vars
<1> QED BY <1>3, <1>4, <1>5, <1>6, <1>7, <1>8, <1>9, <1>10, <1>11 DEF Next

(***************************************************************************)
(* The inductive invariant of the incident memory: its types, that it      *)
(* holds the ids in the order and as of the times at which they took       *)
(* effect, and the property.                                               *)
(***************************************************************************)
THEOREM IncidentInvariant == Spec => []IncidentInv
<1>1. ASSUME IInv /\ IncidentInv /\ [Next]_vars PROVE IncidentInv'
  BY <1>1, IncidentNext DEF IInv
<1> QED BY <1>1, IncidentInit, PolicyInvariant, PTL DEF Spec

(***************************************************************************)
(* What an incident id did within the replay TTL is remembered until the   *)
(* cap's worth of others has come, for every TTL, cap and number of        *)
(* requests in flight.                                                     *)
(***************************************************************************)
THEOREM IncidentsRemembered == Spec => []IncidentRemembered
<1>1. IncidentInv => IncidentRemembered
  BY DEF IncidentInv
<1> QED BY <1>1, IncidentInvariant, PTL

(***************************************************************************)
(* Every variable keeps its type, and the memory of incidents its cap.     *)
(***************************************************************************)
THEOREM PolicyTypes == Spec => []TypeOK
<1>1. IInv /\ IncidentInv => TypeOK
  BY DEF IInv, IncidentInv, TypeOK
<1> QED BY <1>1, PolicyInvariant, IncidentInvariant, PTL

-----------------------------------------------------------------------------
(* The cache routes.                                                       *)

\* A request that goes on to forward an erasure is in flight as before.
LEMMA ForwardStep ==
  ASSUME IInv, NEW r \in Requests, Entered(r), Goto(r, "notify"), UNCHANGED Rest
  PROVE  IInv'
<1> DEFINE rec == Moved(req[r], "notify", req[r].stamp, req[r].state, req[r].snapshot)
<1>1. req[r] \in Request /\ req[r].stamp \in Nat /\ req[r].state \in State /\ req[r].snapshot \in Nat
  BY Slot DEF Request
<1>2. /\ req' = [req EXCEPT ![r] = rec]
      /\ UNCHANGED <<now, ledger, runtime, file, maxAge, pause>>
  BY DEF Goto, Move, Rest
<1>3. /\ rec \in Request
      /\ rec.pc = "notify" /\ rec.state = req[r].state /\ rec.snapshot = req[r].snapshot
      /\ rec.began = req[r].began /\ rec.under = req[r].under
  BY <1>1 DEF Moved, Request, Decided
<1> HIDE DEF rec
<1>4. req[r].pc = "admitted"
  BY DEF Entered
<1>5. RequestInv(rec) /\ rec.pc \notin Resolving
  BY <1>3, <1>4, Slot DEF RequestInv, Resolving, Decided
<1>6. PICK new \in Request : new = rec
  BY <1>3
<1> QED BY <1>2, <1>3, <1>5, <1>6, Slot, FileStep, RequestStep

\* The cache routes keep what is known of the policy.
LEMMA CacheRouteStep ==
  ASSUME IInv, NEW r \in Requests, CacheRoute(r)
  PROVE  IInv'
<1>1. CASE Entered(r) /\ Leave(r)
  BY <1>1, EmptiedStep DEF Leave, Rest
<1>2. CASE Entered(r) /\ Goto(r, "notify") /\ UNCHANGED Rest
  BY <1>2, ForwardStep
<1> QED BY <1>1, <1>2 DEF CacheRoute, PutStored, PutExceeds, ForgetBody

LEMMA GateNextIInv == IInv /\ [GateNext]_<<vars, gateVars>> => IInv'
<1> SUFFICES ASSUME IInv, [GateNext]_<<vars, gateVars>> PROVE IInv'
  OBVIOUS
<1>1. CASE [Next]_vars
  BY <1>1, NextIInv
<1>2. ASSUME NEW r \in Requests, CacheRoute(r) PROVE IInv'
  BY <1>2, CacheRouteStep
<1>3. ASSUME NEW k \in Keys, Get(k) PROVE [Next]_vars
  BY <1>3 DEF Get
<1> QED BY <1>1, <1>2, <1>3 DEF GateNext

\* One slot changes to rec, whose snapshot its policy came from, and the runtime
\* state stays.
LEMMA VoucherSlot ==
  ASSUME IInv, VoucherInv, NEW r \in Requests, NEW rec,
         req' = [req EXCEPT ![r] = rec], UNCHANGED runtime,
         IF rec.pc = "resolved" THEN rec.state = runtime.state ELSE Paired(rec.state, rec.snapshot)
  PROVE  VoucherInv'
<1>1. ASSUME NEW q \in Requests PROVE req'[q] = IF q = r THEN rec ELSE req[q]
  BY DEF IInv, ResolutionTypeOK
<1> QED BY <1>1 DEF VoucherInv, Paired

\* The parts of a slot that moves on.
LEMMA MovedParts ==
  ASSUME NEW r \in Requests, NEW pc, NEW stamp, NEW state, NEW snapshot
  PROVE  LET rec == Moved(req[r], pc, stamp, state, snapshot) IN
         rec.pc = pc /\ rec.state = state /\ rec.snapshot = snapshot
BY DEF Moved

\* A slot that moves on within its resolution, or from its decision, keeps what
\* it has resolved or takes it from one place.
LEMMA VoucherMove ==
  ASSUME IInv, VoucherInv, NEW r \in Requests, NEW pc, NEW stamp, NEW state, NEW snapshot,
         Move(r, pc, stamp, state, snapshot), UNCHANGED runtime,
         pc # "resolved", Paired(state, snapshot)
  PROVE  VoucherInv'
<1> DEFINE rec == Moved(req[r], pc, stamp, state, snapshot)
<1>1. req' = [req EXCEPT ![r] = rec]
  BY DEF Move
<1>2. rec.pc = pc /\ rec.state = state /\ rec.snapshot = snapshot
  BY MovedParts
<1> HIDE DEF rec
<1> QED BY <1>1, <1>2, VoucherSlot

\* An empty slot holds no policy of AO's.
LEMMA VoucherIdle ==
  /\ Idle.pc # "resolved" /\ Paired(Idle.state, Idle.snapshot)
  /\ \A paused \in BOOLEAN, snapshot \in Nat : Paired(EnvState(paused), snapshot)
BY DEF Idle, EnvState, Paired

\* A request takes the runtime state, or begins to resolve its own.
LEMMA VoucherBegin ==
  ASSUME IInv, VoucherInv, NEW r \in Requests, NEW kind \in Kinds, NEW id \in Ids \cup {NoId},
         Begin(r, kind, id)
  PROVE  VoucherInv'
<1> DEFINE rec == [pc |-> IF Fresh THEN "resolved" ELSE "fetching",
                  kind |-> kind, id |-> id, began |-> now, stamp |-> 0,
                  state |-> IF Fresh THEN runtime.state ELSE EnvState(EnvPaused),
                  snapshot |-> 0, under |-> pause]
<1>1. req' = [req EXCEPT ![r] = rec] /\ UNCHANGED runtime
  BY DEF Begin
<1>2. IF rec.pc = "resolved" THEN rec.state = runtime.state ELSE Paired(rec.state, rec.snapshot)
  BY DEF Paired, EnvState
<1> HIDE DEF rec
<1> QED BY <1>1, <1>2, VoucherSlot

\* A resolution that does not end leaves the runtime state alone; the context then
\* takes the snapshot that the runtime state, which it has kept, came from.
LEMMA VoucherResolve ==
  ASSUME IInv, VoucherInv, NEW r \in Requests, Resolve(r), ~Commit(r)
  PROVE  VoucherInv'
<1>1. req[r].pc # "resolved" => Paired(req[r].state, req[r].snapshot)
  BY DEF VoucherInv
<1>2. CASE AoAnswer(r)
  <2> DEFINE state == [paused |-> ledger[Len(ledger)].paused, source |-> "ao",
                       from |-> Len(ledger), asOf |-> 0]
  <2>1. Move(r, "answered", req[r].stamp, state, Len(ledger)) /\ UNCHANGED runtime
    BY <1>2 DEF AoAnswer
  <2>2. Paired(state, Len(ledger))
    BY DEF Paired
  <2> HIDE DEF state
  <2> QED BY <2>1, <2>2, VoucherMove
<1>3. CASE FetchFail(r) \/ WriteSkipped(r)
  <2>1. PICK pc \in {"reading", "commit"} : Goto(r, pc)
    BY <1>3 DEF FetchFail, WriteSkipped
  <2> QED BY <1>1, <1>3, <2>1, VoucherMove DEF FetchFail, WriteSkipped, Goto
<1>4. CASE WriteOpen(r)
  BY <1>1, <1>4, VoucherMove DEF WriteOpen
<1>5. CASE WriteEnd(r)
  BY <1>1, <1>5, VoucherMove DEF WriteEnd
<1>6. CASE ReadCheckpoint(r)
  <2>1. CASE Usable
    <3> DEFINE state == [paused |-> ledger[file.snapshot].paused, source |-> "checkpoint",
                         from |-> file.snapshot, asOf |-> file.writtenAt]
    <3>1. Move(r, "commit", req[r].stamp, state, file.snapshot) /\ UNCHANGED runtime
      BY <1>6, <2>1 DEF ReadCheckpoint
    <3>2. Paired(state, file.snapshot)
      BY DEF Paired
    <3> HIDE DEF state
    <3> QED BY <3>1, <3>2, VoucherMove
  <2>2. CASE ~Usable
    <3>1. Move(r, "commit", req[r].stamp, EnvState(EnvPaused), 0) /\ UNCHANGED runtime
      BY <1>6, <2>2 DEF ReadCheckpoint
    <3> QED BY <3>1, VoucherIdle, VoucherMove
  <2> QED BY <2>1, <2>2
<1>7. CASE GetContext(r)
  <2>1. PICK pc \in {"body", "blocked", "admitted"} :
          Move(r, pc, req[r].stamp, req[r].state, runtime.snapshot)
    BY <1>7 DEF GetContext
  <2>2. Paired(req[r].state, runtime.snapshot)
    BY <1>7 DEF GetContext, VoucherInv
  <2> QED BY <1>7, <2>1, <2>2, VoucherMove DEF GetContext
<1> QED BY <1>2, <1>3, <1>4, <1>5, <1>6, <1>7 DEF Resolve

\* A resolution ends: its policy and its snapshot become the runtime state
\* together, and no other request is about to read the snapshot.
LEMMA VoucherCommit ==
  ASSUME IInv, VoucherInv, NEW r \in Requests, Commit(r), Prompt
  PROVE  VoucherInv'
<1> DEFINE rec == Moved(req[r], "resolved", req[r].stamp, req[r].state, req[r].snapshot)
<1>1. req' = [req EXCEPT ![r] = rec]
  BY DEF Commit, Goto, Move
<1>2. rec.pc = "resolved" /\ rec.state = req[r].state
  BY MovedParts
<1> HIDE DEF rec
<1>3. ASSUME NEW q \in Requests PROVE req'[q] = IF q = r THEN rec ELSE req[q]
  BY <1>1 DEF IInv, ResolutionTypeOK
<1>4. Paired(req[r].state, req[r].snapshot)
  BY DEF Commit, VoucherInv
<1>5. /\ runtime'.state = req[r].state /\ runtime'.snapshot = req[r].snapshot
  BY DEF Commit
<1>6. ASSUME NEW q \in Requests, q # r PROVE req[q].pc # "resolved"
  BY <1>3, <1>6 DEF Prompt
<1> QED BY <1>2, <1>3, <1>4, <1>5, <1>6 DEF VoucherInv, Paired

\* An operator's state is not AO's, and no request is about to read the snapshot.
LEMMA VoucherApply ==
  ASSUME IInv, VoucherInv, NEW r \in Requests, IncidentApply(r), Prompt
  PROVE  VoucherInv'
<1> DEFINE rec == Moved(req[r], "notify", req[r].stamp, req[r].state, req[r].snapshot)
<1>1. req' = [req EXCEPT ![r] = rec]
  BY DEF IncidentApply, Goto, Move
<1>2. rec.pc = "notify" /\ rec.state = req[r].state /\ rec.snapshot = req[r].snapshot
  BY MovedParts
<1> HIDE DEF rec
<1>3. ASSUME NEW q \in Requests PROVE req'[q] = IF q = r THEN rec ELSE req[q]
  BY <1>1 DEF IInv, ResolutionTypeOK
<1>4. Paired(req[r].state, req[r].snapshot)
  BY DEF IncidentApply, VoucherInv
<1>5. ASSUME NEW q \in Requests PROVE req[q].pc # "resolved"
  BY <1>2, <1>3 DEF Prompt, IncidentApply
<1>6. Paired(runtime'.state, runtime'.snapshot)
  <2>1. \A p \in BOOLEAN : Toggled(p).state.source = "env"
    BY DEF Toggled, EnvState
  <2>2. runtime' \in {Toggled(TRUE), Toggled(FALSE), runtime}
    BY DEF IncidentApply
  <2> QED BY <2>1, <2>2 DEF VoucherInv, Paired
<1> QED BY <1>2, <1>3, <1>4, <1>5, <1>6 DEF VoucherInv, Paired

\* Every step keeps the snapshots with the policies they came from.
LEMMA VoucherNext ==
  IInv /\ VoucherInv /\ [GateNext]_<<vars, gateVars>> => VoucherInv'
<1> SUFFICES ASSUME IInv, VoucherInv, [GateNext]_<<vars, gateVars>> PROVE VoucherInv'
  OBVIOUS
<1>1. ASSUME NEW r \in Requests, req' = [req EXCEPT ![r] = Idle], UNCHANGED runtime
      PROVE  VoucherInv'
  BY <1>1, VoucherIdle, VoucherSlot
<1>2. ASSUME UNCHANGED <<runtime, req>> PROVE VoucherInv'
  BY <1>2 DEF VoucherInv, Paired
<1>3. ASSUME NEW r \in Requests, CacheRoute(r) PROVE VoucherInv'
  <2>1. CASE Leave(r)
    BY <1>1, <2>1 DEF Leave, Rest
  <2>2. CASE Entered(r) /\ Goto(r, "notify") /\ UNCHANGED Rest
    <3>1. Paired(req[r].state, req[r].snapshot)
      BY <2>2 DEF Entered, VoucherInv
    <3> QED BY <2>2, <3>1, VoucherMove DEF Goto, Rest
  <2> QED BY <1>3, <2>1, <2>2 DEF CacheRoute, PutStored, PutExceeds, ForgetBody
<1>4. ASSUME NEW k \in Keys, Get(k) PROVE VoucherInv'
  BY <1>2, <1>4 DEF Get, vars
<1>5. CASE Next /\ Prompt
  <2>1. ASSUME NEW r \in Requests, NEW kind \in Kinds, NEW id \in Ids \cup {NoId}, Begin(r, kind, id)
        PROVE  VoucherInv'
    BY <2>1, VoucherBegin
  <2>2. ASSUME NEW r \in Requests, Resolve(r) PROVE VoucherInv'
    BY <1>5, <2>2, VoucherResolve, VoucherCommit
  <2>3. ASSUME NEW r \in Requests, IncidentRefused(r) \/ IncidentDuplicate(r) \/ Reply(r)
        PROVE  VoucherInv'
    BY <1>1, <2>3 DEF IncidentRefused, IncidentDuplicate, Reply
  <2>4. ASSUME NEW r \in Requests, IncidentApply(r) PROVE VoucherInv'
    BY <1>5, <2>4, VoucherApply
  <2>5. CASE Restart
    <3>1. \A r \in Requests : req'[r] = Idle
      BY <2>5 DEF Restart
    <3>2. Paired(runtime'.state, runtime'.snapshot)
      BY <2>5 DEF Restart, InitRuntime, EnvState, Paired
    <3> QED BY <3>1, <3>2, VoucherIdle DEF VoucherInv, Paired
  <2>6. CASE Tick \/ \E paused \in BOOLEAN : Publish(paused)
    BY <1>2, <2>6 DEF Tick, Publish
  <2> QED BY <1>5, <2>1, <2>2, <2>3, <2>4, <2>5, <2>6 DEF Next
<1>6. CASE UNCHANGED <<vars, gateVars>>
  BY <1>2, <1>6 DEF vars
<1> QED BY <1>3, <1>4, <1>5, <1>6 DEF GateNext

\* With the cache routes, every request still has the policy it should, and the
\* snapshot that this came from.
THEOREM GateInvariant == GateSpec => [](IInv /\ VoucherInv)
<1>1. Init => IInv /\ VoucherInv
  <2>1. Init => VoucherInv
    BY VoucherIdle DEF Init, InitRuntime, EnvState, VoucherInv, Paired
  <2> QED BY <2>1, InitIInv
<1>2. IInv /\ VoucherInv /\ [GateNext]_<<vars, gateVars>> => IInv' /\ VoucherInv'
  BY GateNextIInv, VoucherNext
<1> QED BY <1>1, <1>2, PTL DEF GateSpec

(***************************************************************************)
(* What a PUT stores under a policy of AO's was vouched for by a snapshot  *)
(* AO had not replaced a TTL before the request began; and a request that  *)
(* began under a pause nothing was in flight for neither stores nor erases.*)
(***************************************************************************)
THEOREM StoresOnGoodAuthority == GateSpec => StoredOnGoodAuthority
<1>1. ASSUME IInv, VoucherInv, NEW r \in Requests, Entered(r)
      PROVE  /\ ~(Frozen(r) /\ req[r].under.alone)
             /\ req[r].state.source = "ao" => ~ReplacedBy(Voucher(r), req[r].began - TTL)
  <2>1. req[r].pc = "admitted" /\ req[r].pc \in Decided
    BY <1>1 DEF Entered, Decided
  <2>2. ~(Frozen(r) /\ req[r].under.alone)
    BY <1>1, <2>1, PauseFrozen DEF PauseFreezesIfAlone
  <2>3. req[r].state.source = "ao" => Voucher(r) = req[r].state.from
    BY <1>1, <2>1 DEF VoucherInv, Paired, Voucher
  <2>4. req[r].state.source = "ao" => ~ReplacedBy(req[r].state.from, req[r].began - TTL)
    BY <1>1, <2>1, FreshDecisions DEF AoDecisionFresh
  <2> QED BY <2>2, <2>3, <2>4
<1>2. IInv /\ VoucherInv /\ [GateNext]_<<vars, gateVars>>
      => [\A r \in Requests :
            Entered(r) /\ req'[r] # req[r] /\ answer'.status \in {"stored", "forgotten", "dropped"}
              => /\ ~(Frozen(r) /\ req[r].under.alone)
                 /\ Strict /\ answer'.status = "stored" /\ req[r].state.source = "ao"
                      => ~ReplacedBy(Voucher(r), req[r].began - TTL)]_<<vars, gateVars>>
  BY <1>1
<1> QED BY <1>2, GateInvariant, PTL DEF GateSpec, StoredOnGoodAuthority
=============================================================================
