------------------------------ MODULE CacheGate ------------------------------
(***************************************************************************)
(* The cache routes of the gateway (src/handler.ts: PUT and GET            *)
(* /cache/:key, POST /cache/forget), which compose the integrity policy    *)
(* with the response cache.  A route is entered with the policy as it was  *)
(* resolved for its request, and awaits the body; what a PUT brings is     *)
(* verified by the snapshot of the beginning.  An erasure is forwarded to  *)
(* a worker, and answered whether or not that succeeds.                    *)
(*                                                                         *)
(* The cache is taken by its contract, which GatewayCache implements.  A   *)
(* root is trusted by a snapshot or not: an entry is as good as the        *)
(* snapshot that vouched for it.                                           *)
(***************************************************************************)
EXTENDS IntegrityPolicy

CONSTANTS
  Keys, Subjects, NoSubject, NoKey, \* see CacheContract
  Strict                            \* GATEWAY_INTEGRITY_REQUIRE_VERIFIED_CACHE

VARIABLES
  entries, \* the cache
  answer   \* what its call in this step returned, if there was one

gateVars == <<entries, answer>>

Cache == INSTANCE CacheContract WITH reply <- answer

-----------------------------------------------------------------------------

\* A slot at a cache route, whose body is awaited.
Entered(r) == req[r].pc = "admitted"

Rest == <<now, ledger, runtime, file, maxAge, replay, pause, applied>>

Leave(r) == req' = [req EXCEPT ![r] = Idle] /\ UNCHANGED Rest

\* Mutant of Voucher: the snapshot is read once the body is there.
VoucherOfRuntime(r) == runtime.snapshot

\* The snapshot that a PUT is verified by.
Voucher(r) == req[r].snapshot

\* verifyManifestEntry may accept: there is a snapshot, its policy is not paused,
\* and the root and the hash are good.
Vouched(r) == Voucher(r) # 0 /\ ~ledger[Voucher(r)].paused

\* The body of a PUT, which the cache stores.
PutStored(r, k, subject) ==
  /\ Entered(r)
  /\ Strict => Vouched(r)
  /\ \E lost \in SUBSET Cache!Held : Cache!Store(k, subject, Strict, lost)
  /\ Leave(r)

\* Verified, and refused by the cache: cache_budget_exceeded.
PutExceeds(r, k) ==
  /\ Entered(r)
  /\ Strict => Vouched(r)
  /\ \E lost \in SUBSET Cache!Held : Cache!Refuse(k, lost)
  /\ Leave(r)

\* GET, which a pause does not stop.  Where verified entries are required, no
\* other ones are ever stored.
Get(k) ==
  /\ Cache!Miss(k) \/ Cache!Serve(k, Strict)
  /\ UNCHANGED vars

\* The body of a forget, with a subject, a key or both; then the erasure is
\* forwarded.
ForgetBody(r, subject, k) ==
  LET erased == (IF subject = NoSubject THEN {} ELSE Cache!OwnedBy(subject))
                \cup ({k} \cap Cache!Held)
  IN
  /\ Entered(r)
  /\ Cache!Keep(Cache!Held \ erased)
  /\ Cache!Answer(IF k = NoKey THEN "forgotten" ELSE "dropped", k, erased)
  /\ Goto(r, "notify")
  /\ UNCHANGED Rest

CacheRoute(r) ==
  \/ \E k \in Keys, subject \in Subjects \cup {NoSubject} : PutStored(r, k, subject)
  \/ \E k \in Keys : PutExceeds(r, k)
  \/ \E k \in Keys \cup {NoKey}, subject \in Subjects \cup {NoSubject} : ForgetBody(r, subject, k)

\* Only a microtask lies between the end of a resolution and the read of the
\* snapshot in resolveIntegrityContext: no other request runs in between.
Prompt == \A r \in Requests : req[r].pc = "resolved" => req'[r].pc # "resolved"

\* A PUT or forget that is refused by what it brings is IntegrityPolicy's Reply;
\* so is the end of the forwarding, however it ends.
GateNext ==
  /\ \/ Next /\ UNCHANGED entries /\ answer' = [status |-> "none", key |-> NoKey, removed |-> {}]
     \/ \E r \in Requests : CacheRoute(r)
     \/ \E k \in Keys : Get(k)
  /\ Prompt

GateSpec == Init /\ Cache!CInit /\ [][GateNext]_<<vars, gateVars>>

-----------------------------------------------------------------------------
(***************************************************************************)
(* What is stored was vouched for by a snapshot that AO had not replaced a *)
(* TTL or more before the request began, however long its body took and    *)
(* whatever slower resolutions wrote meanwhile, if the policy it was       *)
(* admitted under came from AO.  An operator's pause or resume keeps the   *)
(* snapshot in use for another TTL, with nothing to say how old it is.     *)
(* And nothing is stored or erased by a request that began under a pause   *)
(* that no resolution was in flight for.                                   *)
(***************************************************************************)
StoredOnGoodAuthority ==
  [][\A r \in Requests :
       Entered(r) /\ req'[r] # req[r] /\ answer'.status \in {"stored", "forgotten", "dropped"}
         => /\ ~(Frozen(r) /\ req[r].under.alone)
            /\ Strict /\ answer'.status = "stored" /\ req[r].state.source = "ao"
                 => ~ReplacedBy(Voucher(r), req[r].began - TTL)]_<<vars, gateVars>>

(***************************************************************************)
(* What the proofs need besides: the snapshot that a request holds is the  *)
(* one its policy came from, if that came from AO, although the two are    *)
(* read at different times.  For as long as it has only resolved its       *)
(* policy, this is still the one of the runtime state.                     *)
(***************************************************************************)
Paired(state, snapshot) == state.source = "ao" => snapshot = state.from

VoucherInv ==
  /\ Paired(runtime.state, runtime.snapshot)
  /\ \A r \in Requests :
       IF req[r].pc = "resolved" THEN req[r].state = runtime.state
       ELSE Paired(req[r].state, req[r].snapshot)
=============================================================================
