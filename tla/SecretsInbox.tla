---------------------------- MODULE SecretsInbox ----------------------------
(***************************************************************************)
(* The inbox of the secrets worker and its replay lock                     *)
(* (workers/secrets-worker/src/index.ts): letters are posted under a       *)
(* subject and a nonce, read once, forgotten by subject.  A nonce is       *)
(* claimed in the memory of the isolate, then in a Durable Object, of      *)
(* which KV keeps a marker for /forget to find; where no Durable Object is *)
(* bound, in KV alone.  Every KV or Durable Object call is awaited, and    *)
(* /forget leaves its deletions to the background (waitUntil).             *)
(*                                                                         *)
(* A key is the sequence of its segments, as joined with ":"; listing by   *)
(* the prefix "subject:" finds the keys the subject is a proper prefix of. *)
(* Items, markers and locks have the same keys in stores of their own.  KV *)
(* is one copy, and an expired entry is gone.  /sign takes its nonces      *)
(* through the same replay check, under the subject "sign".                *)
(***************************************************************************)
EXTENDS Clock, Sequences, SequencesExt, FiniteSetsExt

CONSTANTS
  InboxCalls,    \* requests in flight
  Letters,       \* what clients post, read and forget: [subject, nonce]
  NoLetter,      \* what a free request slot holds
  Deployments,   \* the configurations explored, see Deployment
  LockTTL,       \* REPLAY_TTL
  ClaimTTL,      \* how long a claim in memory lasts
  ItemTTL,       \* ttlSeconds
  SubjectMax,    \* SUBJECT_MAX_ENVELOPES
  ListLimit,     \* the 50 of currentSubjectCount
  ForgetMax,     \* FORGET_MAX_KEYS
  CallLimit,     \* how long a request may take
  MaxCalls       \* bound of the exploration: requests

\* Whether REPLAY_LOCKS is bound, whether one isolate serves all requests or
\* each request has its own, whether the janitor runs.
Deployment == [locks : BOOLEAN, oneIsolate : BOOLEAN, janitor : BOOLEAN]

LetterKey(l) == l.subject \o l.nonce

LetterKeys == {LetterKey(l) : l \in Letters}

ASSUME InboxAssumption ==
  /\ Letters \subseteq [subject : Seq(STRING), nonce : Seq(STRING)]
  /\ \A l \in Letters : l.subject # <<>> /\ l.nonce # <<>>
  /\ NoLetter \in [subject : Seq(STRING), nonce : Seq(STRING)] \ Letters
  /\ Deployments \subseteq Deployment
  /\ LockTTL \in Nat \ {0} /\ ClaimTTL \in 1 .. LockTTL /\ ItemTTL \in Nat \ {0}
  /\ SubjectMax \in Nat /\ ListLimit \in Nat /\ ForgetMax \in Nat
  /\ CallLimit \in Nat /\ MaxCalls \in Nat
  /\ IsFiniteSet(InboxCalls) /\ IsFiniteSet(Letters)

VARIABLES
  deployed, \* the configuration
  items,    \* KV, the letters: key |-> when it expires
  marks,    \* KV, the replay markers: key |-> [until, by]
  locks,    \* the Durable Objects: key |-> until when it is locked
  claims,   \* replayClaims, of the one isolate: key |-> until when
  desk,     \* the requests in flight
  doomed,   \* deletions left to the background
  started,  \* how many requests there have been
  failed,   \* history: a call failed, or an isolate was evicted
  peak,     \* history: the most requests that were about to store at once
  passes,   \* history: the nonces accepted, and when they were claimed
  vowed     \* history: keys a forget found and that no request posted since

inboxVars == <<deployed, items, marks, locks, claims, desk, doomed, started, failed, peak, passes, vowed>>

\* While its nonce is being claimed, a request holds the claim in memory.
Claiming == {"locking", "marking", "clearing", "looking", "claiming", "owning", "settling"}

Settled == "settled"

\* The claim time of a pass that an erasure has excused.
Excused == -1

Desk == [pc : {"idle", "counting", "storing", "reading", "removing", "listing"} \cup Claiming,
         letter : Letters \cup {NoLetter}, began : Nat,
         at : Nat \cup {Excused}, found : SUBSET LetterKeys]

Vacant == [pc |-> "idle", letter |-> NoLetter, began |-> 0, at |-> 0, found |-> {}]

Expiries == [LetterKeys -> Nat]

InboxTypeOK ==
  /\ deployed \in Deployments
  /\ items \in Expiries /\ locks \in Expiries /\ claims \in Expiries
  /\ marks \in [LetterKeys -> [until : Nat, by : InboxCalls \cup {Settled}]]
  /\ desk \in [InboxCalls -> Desk]
  /\ doomed \subseteq [what : {"item", "mark", "lock", "claim"}, key : LetterKeys]
  /\ started \in 0 .. MaxCalls
  /\ failed \in BOOLEAN
  /\ peak \in Nat
  /\ passes \subseteq [key : LetterKeys, at : Nat, n : Nat]
  /\ vowed \subseteq LetterKeys

NoMark == [until |-> 0, by |-> Settled]

InboxInit ==
  /\ deployed \in Deployments
  /\ items = [k \in LetterKeys |-> 0]
  /\ locks = [k \in LetterKeys |-> 0]
  /\ claims = [k \in LetterKeys |-> 0]
  /\ marks = [k \in LetterKeys |-> NoMark]
  /\ desk = [c \in InboxCalls |-> Vacant]
  /\ doomed = {}
  /\ started = 0
  /\ failed = FALSE
  /\ peak = 0
  /\ passes = {}
  /\ vowed = {}

-----------------------------------------------------------------------------
(* Requests.                                                               *)

KeyOf(c) == LetterKey(desk[c].letter)

\* The keys that listing by "subject:" finds among ks.
Under(subject, ks) == {k \in ks : IsStrictPrefix(subject, k)}

LiveItems == {k \in LetterKeys : items[k] > now}
LiveMarks == {k \in LetterKeys : marks[k].until > now}
Locked == {k \in LetterKeys : locks[k] > now}

\* The request c takes up the letter l, at pc.
TakeUp(c, l, pc, found) ==
  /\ desk[c].pc = "idle"
  /\ started < MaxCalls
  /\ started' = started + 1
  /\ desk' = [desk EXCEPT ![c] =
       [pc |-> pc, letter |-> l, began |-> now, at |-> 0, found |-> found]]

Proceed(c, pc) == desk' = [desk EXCEPT ![c].pc = pc]

\* The answer, whatever it is.
Leave(c) == desk' = [desk EXCEPT ![c] = Vacant]

\* The `finally` of checkReplay, whoever holds the claim by now.
ReleaseClaim(c) == claims' = [claims EXCEPT ![KeyOf(c)] = 0]

\* POST /inbox, up to the claim in memory: a nonce claimed there is a replay.
PostLetter(c, l) ==
  /\ deployed.oneIsolate => claims[LetterKey(l)] <= now
  /\ TakeUp(c, l, IF deployed.locks THEN "locking" ELSE "looking", {})
  /\ claims' = IF deployed.oneIsolate THEN [claims EXCEPT ![LetterKey(l)] = now + ClaimTTL] ELSE claims
  /\ vowed' = vowed \ {LetterKey(l)}
  /\ UNCHANGED <<now, deployed, items, marks, locks, doomed, failed, peak, passes>>

-----------------------------------------------------------------------------
(* The nonce, with a Durable Object.                                       *)

\* Mutant of ClaimLock: a lock that has not expired is taken over.
ClaimLockAnyway(c) ==
  /\ desk[c].pc = "locking"
  /\ locks' = [locks EXCEPT ![KeyOf(c)] = now + LockTTL]
  /\ desk' = [desk EXCEPT ![c].pc = "marking", ![c].at = now]
  /\ UNCHANGED <<now, deployed, items, marks, claims, doomed, started, failed, peak, passes, vowed>>

\* The claim of the Durable Object, atomic under its input gate.
ClaimLock(c) ==
  /\ desk[c].pc = "locking"
  /\ locks[KeyOf(c)] <= now
  /\ locks' = [locks EXCEPT ![KeyOf(c)] = now + LockTTL]
  /\ desk' = [desk EXCEPT ![c].pc = "marking", ![c].at = now]
  /\ UNCHANGED <<now, deployed, items, marks, claims, doomed, started, failed, peak, passes, vowed>>

LockHeld(c) ==
  /\ desk[c].pc = "locking"
  /\ locks[KeyOf(c)] > now
  /\ Leave(c) /\ ReleaseClaim(c)
  /\ UNCHANGED <<now, deployed, items, marks, locks, doomed, started, failed, peak, passes, vowed>>

\* No answer from the Durable Object, which may have claimed the nonce.
LockLost(c) ==
  /\ desk[c].pc = "locking"
  /\ Leave(c) /\ ReleaseClaim(c)
  /\ failed' = TRUE
  /\ locks' \in {locks} \cup (IF locks[KeyOf(c)] > now THEN {}
                             ELSE {[locks EXCEPT ![KeyOf(c)] = now + LockTTL]})
  /\ UNCHANGED <<now, deployed, items, marks, doomed, started, peak, passes, vowed>>

\* The nonce is accepted, which is recorded where it is claimed once.
Accept(c, at) ==
  passes' = IF at = Excused \/ ~(deployed.locks \/ deployed.oneIsolate) THEN passes
            ELSE passes \cup {[key |-> KeyOf(c), at |-> at, n |-> Cardinality(passes)]}

\* persistReplayMarker, after which the nonce is accepted.
PutMarker(c) ==
  /\ desk[c].pc = "marking"
  /\ marks' = [marks EXCEPT ![KeyOf(c)] = [until |-> now + LockTTL, by |-> Settled]]
  /\ Accept(c, desk[c].at)
  /\ Proceed(c, "counting") /\ ReleaseClaim(c)
  /\ UNCHANGED <<now, deployed, items, locks, doomed, started, failed, peak, vowed>>

\* The put throws, with or without effect.
MarkerFails(c) ==
  /\ desk[c].pc = "marking"
  /\ marks' \in {marks, [marks EXCEPT ![KeyOf(c)] = [until |-> now + LockTTL, by |-> Settled]]}
  /\ Proceed(c, "clearing")
  /\ failed' = TRUE
  /\ UNCHANGED <<now, deployed, items, locks, claims, doomed, started, peak, passes, vowed>>

\* An erasure gives the nonce k back: what was accepted under it, or is being
\* accepted, no longer counts.
Unpassed(k) == {p \in passes : p.key # k}

Excuse(k) ==
  [c \in InboxCalls |->
     IF desk[c].pc \in Claiming /\ KeyOf(c) = k THEN [desk[c] EXCEPT !.at = Excused] ELSE desk[c]]

\* clearReplayWithDurableObject, whose own failure is swallowed.  The lock it
\* clears is another request's where an erasure has cleared its own.
ClearLock(c) ==
  /\ desk[c].pc = "clearing"
  /\ ReleaseClaim(c)
  /\ \/ /\ Leave(c)
        /\ UNCHANGED <<locks, passes>>
     \/ /\ locks' = [locks EXCEPT ![KeyOf(c)] = 0]
        /\ IF desk[c].at = Excused
             THEN passes' = Unpassed(KeyOf(c)) /\ desk' = [Excuse(KeyOf(c)) EXCEPT ![c] = Vacant]
             ELSE Leave(c) /\ UNCHANGED passes
  /\ UNCHANGED <<now, deployed, items, marks, doomed, started, failed, peak, vowed>>

-----------------------------------------------------------------------------
(* The nonce, in KV alone.                                                 *)

LookUp(c) ==
  /\ desk[c].pc = "looking"
  /\ IF KeyOf(c) \in LiveMarks THEN Leave(c) /\ ReleaseClaim(c)
     ELSE Proceed(c, "claiming") /\ UNCHANGED claims
  /\ UNCHANGED <<now, deployed, items, marks, locks, doomed, started, failed, peak, passes, vowed>>

\* The claim marker, which no other request writes.
PutClaim(c) ==
  /\ desk[c].pc = "claiming"
  /\ marks' = [marks EXCEPT ![KeyOf(c)] = [until |-> now + LockTTL, by |-> c]]
  /\ Proceed(c, "owning")
  /\ UNCHANGED <<now, deployed, items, locks, claims, doomed, started, failed, peak, passes, vowed>>

CheckClaim(c) ==
  /\ desk[c].pc = "owning"
  /\ IF KeyOf(c) \in LiveMarks /\ marks[KeyOf(c)].by = c THEN Proceed(c, "settling") /\ UNCHANGED claims
     ELSE Leave(c) /\ ReleaseClaim(c)
  /\ UNCHANGED <<now, deployed, items, marks, locks, doomed, started, failed, peak, passes, vowed>>

\* The second put, after which the nonce is accepted.
SettleClaim(c) ==
  /\ desk[c].pc = "settling"
  /\ marks' = [marks EXCEPT ![KeyOf(c)] = [until |-> now + LockTTL, by |-> Settled]]
  /\ Accept(c, IF desk[c].at = Excused THEN Excused ELSE now)
  /\ Proceed(c, "counting") /\ ReleaseClaim(c)
  /\ UNCHANGED <<now, deployed, items, locks, doomed, started, failed, peak, vowed>>

\* KV is busy: the whole exchange starts over, and may meet its own marker.
KvBusy(c) ==
  /\ desk[c].pc \in {"claiming", "owning", "settling"}
  /\ Proceed(c, "looking")
  /\ UNCHANGED <<now, deployed, items, marks, locks, claims, doomed, started, failed, peak, passes, vowed>>

\* A KV call throws; a put may have taken effect.
KvFails(c) ==
  /\ desk[c].pc \in {"looking", "claiming", "owning", "settling"}
  /\ Leave(c) /\ ReleaseClaim(c)
  /\ failed' = TRUE
  /\ marks' \in {marks} \cup
       (CASE desk[c].pc = "claiming" -> {[marks EXCEPT ![KeyOf(c)] = [until |-> now + LockTTL, by |-> c]]}
          [] desk[c].pc = "settling" -> {[marks EXCEPT ![KeyOf(c)] = [until |-> now + LockTTL, by |-> Settled]]}
          [] OTHER -> {})
  /\ UNCHANGED <<now, deployed, items, locks, doomed, started, peak, passes, vowed>>

-----------------------------------------------------------------------------
(* The letter, once its nonce is accepted.                                 *)

\* One listing, which ends at its limit.
CurrentSubjectCount(subject) ==
  LET n == Cardinality(Under(subject, LiveItems)) IN IF n > ListLimit THEN ListLimit ELSE n

\* Mutant of SubjectFull: off by one.
SubjectOverfull(subject) == Cardinality(Under(subject, LiveItems)) > SubjectMax

\* A maximum of 0 is none.
SubjectFull(subject) == SubjectMax > 0 /\ CurrentSubjectCount(subject) >= SubjectMax

\* The letter is too large, or its subject has too many: the nonce is spent.
CountSubject(c) ==
  /\ desk[c].pc = "counting"
  /\ \/ Leave(c) /\ UNCHANGED peak
     \/ /\ ~SubjectFull(desk[c].letter.subject)
        /\ Proceed(c, "storing")
        /\ peak' = LET n == Cardinality({d \in InboxCalls : desk[d].pc = "storing"}) + 1
                   IN IF n > peak THEN n ELSE peak
  /\ UNCHANGED <<now, deployed, items, marks, locks, claims, doomed, started, failed, passes, vowed>>

StoreLetter(c) ==
  /\ desk[c].pc = "storing"
  /\ items' = [items EXCEPT ![KeyOf(c)] = now + ItemTTL]
  /\ Leave(c)
  /\ UNCHANGED <<now, deployed, marks, locks, claims, doomed, started, failed, peak, passes, vowed>>

StoreLetterFails(c) ==
  /\ desk[c].pc = "storing"
  /\ items' \in {items, [items EXCEPT ![KeyOf(c)] = now + ItemTTL]}
  /\ Leave(c)
  /\ failed' = TRUE
  /\ UNCHANGED <<now, deployed, marks, locks, claims, doomed, started, peak, passes, vowed>>

-----------------------------------------------------------------------------
(* GET /inbox/:subject/:nonce.                                             *)

GetLetter(c, l) ==
  /\ TakeUp(c, l, "reading", {})
  /\ UNCHANGED <<now, deployed, items, marks, locks, claims, doomed, failed, peak, passes, vowed>>

ReadLetter(c) ==
  /\ desk[c].pc = "reading"
  /\ IF KeyOf(c) \in LiveItems THEN Proceed(c, "removing") ELSE Leave(c)
  /\ UNCHANGED <<now, deployed, items, marks, locks, claims, doomed, started, failed, peak, passes, vowed>>

\* The deletion, which may throw; then the letter is returned.
RemoveLetter(c) ==
  /\ desk[c].pc = "removing"
  /\ Leave(c)
  /\ \/ items' = [items EXCEPT ![KeyOf(c)] = 0] /\ UNCHANGED failed
     \/ failed' = TRUE /\ UNCHANGED items
  /\ UNCHANGED <<now, deployed, marks, locks, claims, doomed, started, peak, passes, vowed>>

-----------------------------------------------------------------------------
(* POST /forget.                                                           *)

\* What a subject has when it is forgotten, but for what requests in flight may
\* add.  A lock without a marker is left out: no listing finds it.
Vow(subject) ==
  {k \in Under(subject, LiveItems \cup LiveMarks) :
     /\ k \in Locked => k \in LiveMarks /\ [what |-> "mark", key |-> k] \notin doomed
     /\ \A c \in InboxCalls :
          desk[c].pc \in {"idle", "reading", "removing", "listing"} \/ KeyOf(c) # k}

\* The first listing, of the letters.
Forget(c, l) ==
  /\ TakeUp(c, l, "listing", Under(l.subject, LiveItems))
  /\ vowed' = vowed \cup Vow(l.subject)
  /\ UNCHANGED <<now, deployed, items, marks, locks, claims, doomed, failed, peak, passes>>

\* Mutant of Deletions: the Durable Objects keep their locks.
DeletionsOfKv(letters, markers) ==
  [what : {"item"}, key : letters] \cup [what : {"mark"}, key : markers]

\* What is deleted in the background, in any order.
Deletions(letters, markers) ==
  [what : {"item"}, key : letters] \cup [what : {"mark"}, key : markers]
  \cup (IF deployed.locks THEN [what : {"lock"}, key : markers] ELSE {})

\* The second listing, of the markers, and the answer.
ForgetAll(c) ==
  LET markers == Under(desk[c].letter.subject, LiveMarks) IN
  /\ desk[c].pc = "listing"
  /\ Cardinality(desk[c].found) <= ForgetMax /\ Cardinality(markers) <= ForgetMax
  /\ doomed' = doomed \cup Deletions(desk[c].found, markers)
  /\ Leave(c)
  /\ UNCHANGED <<now, deployed, items, marks, locks, claims, started, failed, peak, passes, vowed>>

\* Too many keys: the first of them are deleted, and the answer is an error.
ForgetSome(c) ==
  LET markers == Under(desk[c].letter.subject, LiveMarks)
      First(ks) == IF Cardinality(ks) <= ForgetMax THEN {ks} ELSE kSubset(ForgetMax, ks)
  IN
  /\ desk[c].pc = "listing"
  /\ Cardinality(desk[c].found) > ForgetMax \/ Cardinality(markers) > ForgetMax
  /\ \E ls \in First(desk[c].found), ms \in First(markers) :
       doomed' = doomed \cup Deletions(ls, ms)
  /\ vowed' = vowed \ Under(desk[c].letter.subject, vowed)
  /\ Leave(c)
  /\ UNCHANGED <<now, deployed, items, marks, locks, claims, started, failed, peak, passes>>

\* A listing throws.
ForgetFails(c) ==
  /\ desk[c].pc = "listing"
  /\ Leave(c)
  /\ failed' = TRUE
  /\ UNCHANGED <<now, deployed, items, marks, locks, claims, doomed, started, peak, passes, vowed>>

\* A deletion in the background takes effect.
Delete(d) ==
  /\ d \in doomed
  /\ doomed' = doomed \ {d}
  /\ items' = IF d.what = "item" THEN [items EXCEPT ![d.key] = 0] ELSE items
  /\ marks' = IF d.what \in {"mark", "claim"} THEN [marks EXCEPT ![d.key] = NoMark] ELSE marks
  /\ locks' = IF d.what = "lock" THEN [locks EXCEPT ![d.key] = 0] ELSE locks
  /\ IF d.what = (IF deployed.locks THEN "lock" ELSE "mark")
       THEN passes' = Unpassed(d.key) /\ desk' = Excuse(d.key)
       ELSE UNCHANGED <<passes, desk>>
  /\ UNCHANGED <<now, deployed, claims, started, failed, peak, vowed>>

\* It fails, which only a counter of the worker tells.
DeleteFails(d) ==
  /\ d \in doomed
  /\ doomed' = doomed \ {d}
  /\ failed' = TRUE
  /\ UNCHANGED <<now, deployed, items, marks, locks, claims, desk, started, peak, passes, vowed>>

-----------------------------------------------------------------------------
(* The environment.                                                        *)

\* The scheduled janitor deletes what it cannot parse, which claim markers are,
\* and what has expired, which KV has already dropped.
Janitor(k) ==
  /\ deployed.janitor
  /\ k \in LiveMarks /\ marks[k].by # Settled
  /\ doomed' = doomed \cup {[what |-> "claim", key |-> k]}
  /\ UNCHANGED <<now, deployed, items, marks, locks, claims, desk, started, failed, peak, passes, vowed>>

\* The isolate of the request c is evicted.
EvictIsolate(c) ==
  /\ desk[c].pc # "idle"
  /\ failed' = TRUE
  /\ IF deployed.oneIsolate
       THEN desk' = [d \in InboxCalls |-> Vacant] /\ claims' = [k \in LetterKeys |-> 0]
       ELSE Leave(c) /\ UNCHANGED claims
  /\ UNCHANGED <<now, deployed, items, marks, locks, doomed, started, peak, passes, vowed>>

\* No request takes longer than CallLimit.
InboxTick ==
  /\ Advance
  /\ \A c \in InboxCalls : desk[c].pc # "idle" => now - desk[c].began < CallLimit
  /\ UNCHANGED inboxVars

Nonce(c) ==
  \/ ClaimLock(c) \/ LockHeld(c) \/ LockLost(c)
  \/ PutMarker(c) \/ MarkerFails(c) \/ ClearLock(c)
  \/ LookUp(c) \/ PutClaim(c) \/ CheckClaim(c) \/ SettleClaim(c) \/ KvBusy(c) \/ KvFails(c)

InboxNext ==
  \/ \E c \in InboxCalls, l \in Letters : PostLetter(c, l) \/ GetLetter(c, l) \/ Forget(c, l)
  \/ \E c \in InboxCalls :
       \/ Nonce(c)
       \/ CountSubject(c) \/ StoreLetter(c) \/ StoreLetterFails(c)
       \/ ReadLetter(c) \/ RemoveLetter(c)
       \/ ForgetAll(c) \/ ForgetSome(c) \/ ForgetFails(c)
       \/ EvictIsolate(c)
  \/ \E d \in doomed : Delete(d) \/ DeleteFails(d)
  \/ \E k \in LetterKeys : Janitor(k)
  \/ InboxTick

InboxSpec == InitClock /\ InboxInit /\ [][InboxNext]_<<now, inboxVars>>

-----------------------------------------------------------------------------
(* Properties.                                                             *)

(***************************************************************************)
(* Where the Durable Objects are bound, a nonce is accepted once in        *)
(* REPLAY_TTL, counted from its claims, unless its subject was forgotten   *)
(* in between: whatever fails, is evicted or has lost its answer, as long  *)
(* as no request outlasts the lock.  In KV alone that takes a single       *)
(* isolate that is not evicted, requests that do not outlast the claim in  *)
(* memory, no failing put and no janitor, which may delete a claim marker  *)
(* just as it is settled.                                                  *)
(***************************************************************************)
AcceptedOnce ==
  \/ deployed.locks /\ CallLimit < LockTTL
  \/ deployed.oneIsolate /\ ~deployed.janitor /\ ~failed /\ CallLimit < ClaimTTL
  => \A p, q \in passes :
       p # q /\ p.key = q.key => p.at + LockTTL <= q.at \/ q.at + LockTTL <= p.at

(***************************************************************************)
(* A subject's letters are counted and then stored: it has more than       *)
(* SUBJECT_MAX_ENVELOPES of them only by the requests that overlapped      *)
(* between the two, all but one.  The letters are those no other subject   *)
(* has: what is posted under "a:b" and "c" is stored where the letter of   *)
(* "a" and "b:c" is, and was counted among those of "a:b" alone.           *)
(***************************************************************************)
SubjectBounded ==
  SubjectMax \in 1 .. ListLimit =>
    \A l \in Letters :
      LET own == {LetterKey(m) : m \in {m \in Letters : m.subject = l.subject}}
                   \ {LetterKey(m) : m \in {m \in Letters : m.subject # l.subject}}
      IN own \cap LiveItems # {} => Cardinality(own \cap LiveItems) < SubjectMax + peak

(***************************************************************************)
(* Once a forget has been answered with OK and the deletions it left to    *)
(* the background have ended, none having failed, nothing is left of what  *)
(* the subject had, in KV or locked in a Durable Object, but what was      *)
(* posted anew.                                                            *)
(***************************************************************************)
Erased ==
  ~failed =>
    \A k \in vowed :
      \/ k \notin LiveItems \cup LiveMarks \cup Locked
      \/ \E d \in doomed : d.key = k
      \/ \E c \in InboxCalls : desk[c].pc = "listing" /\ k \in Under(desk[c].letter.subject, {k})

(***************************************************************************)
(* "Keep a replay marker in KV so /forget can enumerate replay keys even   *)
(* when locking is enforced via Durable Objects" (index.ts:522): while     *)
(* nothing fails, a locked nonce has its marker, or a request is about to  *)
(* put it, or the lock is about to be cleared.  The deletion of an earlier *)
(* marker, left to the background, refutes it.                             *)
(***************************************************************************)
LocksEnumerable ==
  deployed.locks /\ ~failed =>
    \A k \in Locked :
      \/ k \in LiveMarks
      \/ [what |-> "lock", key |-> k] \in doomed
      \/ \E c \in InboxCalls : desk[c].pc = "marking" /\ KeyOf(c) = k
=============================================================================
