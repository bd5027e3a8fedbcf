--------------------------- MODULE CacheContract ---------------------------
(***************************************************************************)
(* What the gateway's cache promises its callers, without its indexes, its *)
(* recency list or its clock: a set of entries, each with an owner.        *)
(* A cache may lose entries whenever it is written to; it may not serve    *)
(* what it does not hold, serve an unverified entry to a caller that       *)
(* requires a verified one, or keep an entry of a subject it has           *)
(* forgotten.                                                              *)
(***************************************************************************)
CONSTANTS Keys, Subjects, NoSubject, NoKey

VARIABLES
  entries, \* key |-> [owner, verified]
  reply    \* what the last call returned

cvars == <<entries, reply>>

Held == DOMAIN entries

OwnedBy(s) == {k \in Held : entries[k].owner = s}

Answer(status, key, removed) ==
  reply' = [status |-> status, key |-> key, removed |-> removed]

Keep(K) == entries' = [k \in K |-> entries[k]]

CInit ==
  /\ entries = [k \in {} |-> 0]
  /\ reply = [status |-> "none", key |-> NoKey, removed |-> {}]

\* Time passing, or a periodic sweep: entries may be lost at any time.
Lose(L) ==
  /\ Keep(Held \ L)
  /\ Answer("swept", NoKey, L)

\* Other entries may be lost to make room; a store that names no owner keeps
\* the owner of an entry that is still held.
Store(k, subject, verified, L) ==
  LET owner == IF subject # NoSubject THEN subject
               ELSE IF k \in Held \ L THEN entries[k].owner ELSE NoSubject
  IN
  /\ entries' = [j \in (Held \ L) \cup {k} |->
                   IF j = k THEN [owner |-> owner, verified |-> verified]
                   ELSE entries[j]]
  /\ Answer("stored", k, L)

Refuse(k, L) ==
  /\ Keep(Held \ L)
  /\ \E status \in {"reject_size", "reject_subject", "reject_capacity"} :
       Answer(status, k, L)

Miss(k) ==
  \/ k \notin Held /\ UNCHANGED entries /\ Answer("miss", k, {})
  \/ k \in Held /\ Keep(Held \ {k}) /\ Answer("expired", k, {k})

Withhold(k) ==
  /\ k \in Held /\ ~entries[k].verified
  /\ UNCHANGED entries
  /\ Answer("unverified", k, {})

Serve(k, requireVerified) ==
  /\ k \in Held
  /\ requireVerified => entries[k].verified
  /\ UNCHANGED entries
  /\ Answer("hit", k, {})

\* Erasure is complete: every entry of the subject, and no other.
Forget(s) ==
  /\ Keep(Held \ OwnedBy(s))
  /\ Answer("forgotten", NoKey, OwnedBy(s))

Drop(k) ==
  /\ Keep(Held \ {k})
  /\ Answer("dropped", k, {k} \cap Held)

CNext ==
  \/ \E L \in SUBSET Held : Lose(L)
  \/ \E k \in Keys, subject \in Subjects \cup {NoSubject}, v \in BOOLEAN,
        L \in SUBSET Held : Store(k, subject, v, L)
  \/ \E k \in Keys, L \in SUBSET Held : Refuse(k, L)
  \/ \E k \in Keys : Miss(k) \/ Withhold(k) \/ Drop(k)
  \/ \E k \in Keys, requireVerified \in BOOLEAN : Serve(k, requireVerified)
  \/ \E s \in Subjects : Forget(s)

CSpec == CInit /\ [][CNext]_cvars
=============================================================================
