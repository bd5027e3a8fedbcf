-------------------------- MODULE SessionLifecycle --------------------------
(***************************************************************************)
(* The session service of the gateway (src/runtime/sessions/lifecycle.ts): *)
(* sessions are created, read, rotated to a successor and revoked, each in *)
(* one synchronous call on a store in memory.  A session is never deleted. *)
(* Times are what remains of them; ids are numbered as they are made.      *)
(***************************************************************************)
EXTENDS Integers, FiniteSets

CONSTANTS
  MaxSessions, \* bound of the exploration: ids made
  Lifetimes    \* ttlMs that are asked for

ASSUME SessionAssumption == MaxSessions \in Nat /\ Lifetimes \subseteq Nat \ {0}

VARIABLES
  sessions, \* id |-> its session
  login     \* history: id |-> the session that was created, of which it came by rotation

sessionVars == <<sessions, login>>

Ids == 1 .. MaxSessions

NoSession == 0

\* from and to are rotatedFrom and rotatedTo.
Session == [status : {"active", "rotated", "revoked"}, left : Nat, ttl : Lifetimes,
            from : Ids \cup {NoSession}, to : Ids \cup {NoSession}]

Made == DOMAIN sessions

SessionTypeOK ==
  /\ Made \subseteq Ids
  /\ sessions \in [Made -> Session]
  /\ login \in [Made -> Made]

SessionInit ==
  /\ sessions = [id \in {} |-> NoSession]
  /\ login = [id \in {} |-> NoSession]

\* What a read returns, and a rotation or a revocation acts on.
Usable(id) == sessions[id].status = "active" /\ sessions[id].left > 0

\* The next id, which idFactory makes.
Fresh(id) == id \in Ids \ Made /\ \A other \in Ids \ Made : id <= other

Create(id, ttl) ==
  /\ Fresh(id)
  /\ sessions' = [other \in Made \cup {id} |->
       IF other \in Made THEN sessions[other]
       ELSE [status |-> "active", left |-> ttl, ttl |-> ttl, from |-> NoSession, to |-> NoSession]]
  /\ login' = [other \in Made \cup {id} |-> IF other \in Made THEN login[other] ELSE id]

\* Mutant of RotatedTo: the session that is rotated stays active.
RotatedToStillActive(id, next) ==
  [status |-> "active", left |-> sessions[id].left, ttl |-> sessions[id].ttl,
   from |-> sessions[id].from, to |-> next]

RotatedTo(id, next) ==
  [status |-> "rotated", left |-> sessions[id].left, ttl |-> sessions[id].ttl,
   from |-> sessions[id].from, to |-> next]

\* The successor lives as long as the session was made to.
Successor(id) ==
  [status |-> "active", left |-> sessions[id].ttl, ttl |-> sessions[id].ttl,
   from |-> id, to |-> NoSession]

Rotate(id, next) ==
  /\ Usable(id)
  /\ Fresh(next)
  /\ sessions' = [other \in Made \cup {next} |->
       CASE other = next -> Successor(id)
         [] other = id -> RotatedTo(id, next)
         [] OTHER -> sessions[other]]
  /\ login' = [other \in Made \cup {next} |-> IF other \in Made THEN login[other] ELSE login[id]]

\* A session that was rotated is not revoked, nor is its successor.
Revoke(id) ==
  /\ Usable(id)
  /\ sessions' = [sessions EXCEPT ![id] =
       [status |-> "revoked", left |-> @.left, ttl |-> @.ttl, from |-> @.from, to |-> @.to]]
  /\ UNCHANGED login

SessionTick ==
  /\ sessions' = [id \in Made |->
       LET s == sessions[id] IN
       [status |-> s.status, left |-> IF s.left > 0 THEN s.left - 1 ELSE 0,
        ttl |-> s.ttl, from |-> s.from, to |-> s.to]]
  /\ UNCHANGED login

SessionNext ==
  \/ \E id \in Ids, ttl \in Lifetimes : Create(id, ttl)
  \/ \E id \in Made : Revoke(id)
  \/ \E id \in Made, next \in Ids : Rotate(id, next)
  \/ SessionTick

SessionSpec == SessionInit /\ [][SessionNext]_sessionVars

-----------------------------------------------------------------------------
(* Properties.                                                             *)

(***************************************************************************)
(* Rotation hands a login over and never splits it: of all the sessions    *)
(* that came of one login, one alone is not rotated.  So at most one of    *)
(* them can be read, and once that one is revoked none can, nor be made.   *)
(* Revoking an earlier session of the chain is refused and revokes none.   *)
(***************************************************************************)
OneHolderPerLogin ==
  \A a, b \in Made :
    /\ login[a] = login[b]
    /\ sessions[a].status # "rotated" /\ sessions[b].status # "rotated"
    => a = b
=============================================================================
