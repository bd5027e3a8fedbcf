---------------------------- MODULE RateLimiter ----------------------------
(***************************************************************************)
(* The gateway's rate limiter (src/ratelimit.ts): a window of fixed length *)
(* for each client key, kept in a Map of at most MAX_BUCKETS buckets.  The *)
(* Map iterates in the order of insertion, and at its limit the bucket at  *)
(* the front goes, with the count it holds.  A check is one synchronous    *)
(* call.                                                                   *)
(*                                                                         *)
(* Times are what remains of them.                                         *)
(***************************************************************************)
EXTENDS Integers, OrderedMap

CONSTANTS
  Clients,    \* keys, "prefix:ip"
  MaxReq,     \* effectiveMaxForKey: client |-> GATEWAY_RL_MAX or its prefix's override
  Span,       \* GATEWAY_RL_WINDOW_MS
  MaxBuckets  \* GATEWAY_RL_MAX_BUCKETS

ASSUME LimiterAssumption ==
  /\ MaxReq \in [Clients -> Nat \ {0}]
  /\ Span \in Nat \ {0}
  /\ MaxBuckets \in Nat \ {0}

VARIABLES
  buckets, \* the Map: client |-> [left, count]
  given    \* history: client |-> [left, count, moved], its window without the limit on buckets;
           \* moved when an eviction made its bucket another window

limiterVars == <<buckets, given>>

\* A count above the maximum is kept as one above it: nothing tells them apart.
Bucket == [left : 1 .. Span, count : Nat]

Granted == [left : 0 .. Span, count : Nat, moved : BOOLEAN]

NoWindow == [left |-> 0, count |-> 0, moved |-> FALSE]

LimiterTypeOK ==
  /\ MapOf(buckets, Clients, Bucket)
  /\ Cardinality(MapKeys(buckets)) <= MaxBuckets
  /\ given \in [Clients -> Granted]

LimiterInit ==
  /\ buckets = EmptyMap
  /\ given = [c \in Clients |-> NoWindow]

Bucketed == MapKeys(buckets)

\* The bucket of c, one request later: its own, or a new one.
Counted(c) ==
  IF c \in Bucketed
  THEN LET b == buckets.of[c]
       IN [left |-> b.left, count |-> IF b.count > MaxReq[c] THEN b.count ELSE b.count + 1]
  ELSE [left |-> Span, count |-> 1]

\* Mutant of Allowed: one more than the maximum is let through.
AllowedOneMore(c, count) == count <= MaxReq[c] + 1

Allowed(c, count) == count <= MaxReq[c]

\* The window of c as it would be if no bucket were evicted.
Given(c, ok) ==
  LET w == IF given[c].left = 0
           THEN [left |-> Span, count |-> 0, moved |-> given[c].moved /\ c \in Bucketed]
           ELSE given[c]
  IN [left |-> w.left, count |-> IF ok /\ w.count <= MaxReq[c] THEN w.count + 1 ELSE w.count, moved |-> w.moved]

\* check(key).  What has expired went in the first prune; the second one
\* keeps the newest.
Check(c) ==
  LET counted == MapSet(buckets, c, Counted(c))
      pruned == MapNewest(counted, MaxBuckets)
  IN
  /\ buckets' = pruned
  /\ given' = [d \in Clients |->
       LET w == IF d = c THEN Given(c, Allowed(c, Counted(c).count)) ELSE given[d]
       IN [left |-> w.left, count |-> w.count,
           moved |-> w.moved \/ d \in MapKeys(counted) \ MapKeys(pruned)]]

\* Time passes.  What it expires, the next check removes before anything else.
LimiterTick ==
  /\ buckets' = LET kept == MapOnly(buckets, {c \in Bucketed : buckets.of[c].left > 1})
                IN [kept EXCEPT !.of = [c \in MapKeys(kept) |->
                     [left |-> buckets.of[c].left - 1, count |-> buckets.of[c].count]]]
  /\ given' = [c \in Clients |->
       IF given[c].left <= 1 THEN [left |-> 0, count |-> 0, moved |-> given[c].moved]
       ELSE [left |-> given[c].left - 1, count |-> given[c].count, moved |-> given[c].moved]]

LimiterNext == (\E c \in Clients : Check(c)) \/ LimiterTick

LimiterSpec == LimiterInit /\ [][LimiterNext]_limiterVars

-----------------------------------------------------------------------------
(* Properties.                                                             *)

(***************************************************************************)
(* Within one window a client is let through no more often than its        *)
(* maximum, unless an eviction made it start another window in between.    *)
(***************************************************************************)
RateHolds == \A c \in Clients : given[c].count > MaxReq[c] => given[c].moved

(***************************************************************************)
(* What the proofs need besides.  Unless an eviction moved it, the window  *)
(* of a client is its bucket's, which has counted what was let through.    *)
(***************************************************************************)
WindowInv ==
  \A c \in Clients :
    ~given[c].moved =>
      IF given[c].left = 0 THEN c \notin Bucketed /\ given[c].count = 0
      ELSE /\ c \in Bucketed
           /\ given[c].left = buckets.of[c].left
           /\ given[c].count <= buckets.of[c].count
           /\ given[c].count <= MaxReq[c]

LimiterIInv == LimiterTypeOK /\ WindowInv
=============================================================================
