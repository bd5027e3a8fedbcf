--------------------------- MODULE FrontController ---------------------------
(***************************************************************************)
(* The gateway's front controller (src/frontController.ts): for a host it  *)
(* asks the template index which transaction to serve, fetches that from   *)
(* Arweave, checks its hash if the index gives one, and keeps the page for *)
(* a while.  Between the lookup in the cache and the write back it awaits  *)
(* the index, the body of its answer, and the page, and requests for one   *)
(* host overlap there.  A page that is out of date is served when a        *)
(* refresh fails.                                                          *)
(*                                                                         *)
(* One host.  A pinned host map is an index that always answers the same.  *)
(* Times are what remains of them, or what has passed as far as it matters.*)
(***************************************************************************)
EXTENDS Integers

CONSTANTS
  Views,       \* requests in flight
  Txs,         \* template transactions
  NoTx,        \* what a free request slot and an empty cache hold
  PageTTL,     \* GATEWAY_FRONT_CONTROLLER_CACHE_TTL_MS
  RequireHash  \* GATEWAY_FRONT_CONTROLLER_REQUIRE_HASH

ASSUME FrontAssumption == NoTx \notin Txs /\ PageTTL \in Nat \ {0} /\ RequireHash \in BOOLEAN

VARIABLES
  listed,   \* what the index names: [tx, hashed]
  since,    \* history: tx |-> how long ago the index named it, at most PageTTL
  bare,     \* history: transactions the index has named without a hash
  page,     \* cacheByHost: [tx, right, left]
  view,     \* the requests in flight
  served    \* the last answer that had a page

frontVars == <<listed, since, bare, page, view, served>>

\* right: the page is what the transaction holds.
Page == [tx : Txs \cup {NoTx}, right : BOOLEAN, left : 0 .. PageTTL]

NoPage == [tx |-> NoTx, right |-> FALSE, left |-> 0]

\* `same`: the page the request took from the cache is still the cached object.
View == [pc : {"idle", "resolving", "answered", "fetching"}, forced : BOOLEAN, took : Page, same : BOOLEAN,
         want : [tx : Txs \cup {NoTx}, hashed : BOOLEAN], age : 0 .. PageTTL]

NoView == [pc |-> "idle", forced |-> FALSE, took |-> NoPage, same |-> FALSE,
           want |-> [tx |-> NoTx, hashed |-> FALSE], age |-> 0]

\* `late`: the request that was answered had taken PageTTL or longer.
Served == [how : {"none", "hit", "miss", "stale"}, tx : Txs \cup {NoTx}, right : BOOLEAN,
           late : BOOLEAN]

NotServed == [how |-> "none", tx |-> NoTx, right |-> FALSE, late |-> FALSE]

FrontTypeOK ==
  /\ listed \in [tx : Txs, hashed : BOOLEAN]
  /\ since \in [Txs -> 0 .. PageTTL]
  /\ bare \subseteq Txs
  /\ page \in Page
  /\ view \in [Views -> View]
  /\ served \in Served

FrontInit ==
  /\ listed \in [tx : Txs, hashed : BOOLEAN]
  /\ since = [t \in Txs |-> IF t = listed.tx THEN 0 ELSE PageTTL]
  /\ bare = IF listed.hashed THEN {} ELSE {listed.tx}
  /\ page = NoPage
  /\ view = [v \in Views |-> NoView]
  /\ served = NotServed

\* The index changes its mind.
List(tx, hashed) ==
  /\ listed' = [tx |-> tx, hashed |-> hashed]
  /\ since' = [since EXCEPT ![tx] = 0]
  /\ bare' = IF hashed THEN bare ELSE bare \cup {tx}
  /\ UNCHANGED <<page, view, served>>

Serve(how, p, age) ==
  served' = [how |-> how, tx |-> p.tx, right |-> p.right, late |-> age = PageTTL]

\* The cached page, within its time.
ServeCached ==
  /\ page.tx # NoTx /\ page.left > 0
  /\ Serve("hit", page, 0)
  /\ UNCHANGED <<listed, since, bare, page, view>>

\* None, or out of time, or ?refresh=1.
AskIndex(v, forced) ==
  /\ view[v].pc = "idle"
  /\ forced \/ page.tx = NoTx \/ page.left = 0
  /\ view' = [view EXCEPT ![v] =
       [pc |-> "resolving", forced |-> forced, took |-> page, same |-> page.tx # NoTx,
        want |-> NoView.want, age |-> 0]]
  /\ UNCHANGED <<listed, since, bare, page, served>>

\* The index or Arweave does not answer, or the page is not what it should be:
\* what the request had taken is served, however old.
Fallback(v) ==
  /\ view' = [view EXCEPT ![v] = NoView]
  /\ IF view[v].took.tx # NoTx THEN Serve("stale", view[v].took, view[v].age) ELSE UNCHANGED served
  /\ UNCHANGED <<listed, since, bare, page>>

IndexFails(v) == view[v].pc \in {"resolving", "answered"} /\ Fallback(v)

\* The index answers with what it names now; the body of the answer is read
\* without a timeout.
IndexAnswers(v) ==
  /\ view[v].pc = "resolving"
  /\ view' = [view EXCEPT ![v].pc = "answered", ![v].want = listed]
  /\ UNCHANGED <<listed, since, bare, page, served>>

\* Still the same transaction: its page is kept for as long again.  Neither the
\* hash that the index may give by now nor the page is looked at.
Confirmed(v) ==
  /\ view[v].pc = "answered"
  /\ ~view[v].forced /\ view[v].took.tx = view[v].want.tx
  /\ page' = IF view[v].same
             THEN [tx |-> page.tx, right |-> page.right, left |-> PageTTL - view[v].age] ELSE page
  /\ Serve("hit", view[v].took, view[v].age)
  /\ view' = [view EXCEPT ![v] = NoView]
  /\ UNCHANGED <<listed, since, bare>>

Resolve(v) ==
  /\ view[v].pc = "answered"
  /\ view[v].forced \/ view[v].took.tx # view[v].want.tx
  /\ view' = [view EXCEPT ![v].pc = "fetching"]
  /\ UNCHANGED <<listed, since, bare, page, served>>

FetchFails(v) == view[v].pc = "fetching" /\ Fallback(v)

\* Mutant of Until: the page is kept from when it arrived.
UntilFromNow(v) == PageTTL

\* expiresAt counts from the beginning of the request.
Until(v) == PageTTL - view[v].age

\* Mutant of Passes: the hash is not compared.
PassesUnchecked(v, right) == RequireHash => view[v].want.hashed

\* The page is compared with the hash, if the index gave one, and may have to.
Passes(v, right) ==
  /\ view[v].want.hashed => right
  /\ RequireHash => view[v].want.hashed

\* The page, right or wrong, if its hash does not speak against it.
Fetched(v, right) ==
  LET p == [tx |-> view[v].want.tx, right |-> right, left |-> Until(v)] IN
  /\ view[v].pc = "fetching"
  /\ Passes(v, right)
  /\ page' = p
  /\ view' = [w \in Views |-> IF w = v THEN NoView ELSE [view[w] EXCEPT !.same = FALSE]]
  /\ Serve("miss", p, view[v].age)
  /\ UNCHANGED <<listed, since, bare>>

FrontTick ==
  /\ since' = [t \in Txs |-> IF t = listed.tx THEN 0 ELSE IF since[t] < PageTTL THEN since[t] + 1 ELSE PageTTL]
  /\ page' = [tx |-> page.tx, right |-> page.right, left |-> IF page.left > 0 THEN page.left - 1 ELSE 0]
  /\ view' = [v \in Views |->
       IF view[v].pc = "idle" \/ view[v].age = PageTTL THEN view[v] ELSE [view[v] EXCEPT !.age = @ + 1]]
  /\ served' = NotServed
  /\ UNCHANGED <<listed, bare>>

FrontNext ==
  \/ \E tx \in Txs, hashed \in BOOLEAN : List(tx, hashed)
  \/ ServeCached
  \/ \E v \in Views :
       \/ \E forced \in BOOLEAN : AskIndex(v, forced)
       \/ IndexFails(v) \/ IndexAnswers(v) \/ Confirmed(v) \/ Resolve(v) \/ FetchFails(v)
       \/ \E right \in BOOLEAN : Fetched(v, right)
  \/ FrontTick

FrontSpec == FrontInit /\ [][FrontNext]_frontVars

-----------------------------------------------------------------------------
(* Properties.                                                             *)

(***************************************************************************)
(* A page that is served as a hit was named by the index within the last   *)
(* PageTTL, whatever other requests stored meanwhile, and although a slow  *)
(* request may put back an older page: but for a request that itself has   *)
(* taken PageTTL or longer, as the index answer it waited for is as old.   *)
(***************************************************************************)
HitIsRecent == served.how = "hit" /\ ~served.late => since[served.tx] < PageTTL

(***************************************************************************)
(* A page that is not what its transaction holds is served only if the     *)
(* index has named that transaction without a hash: never where hashes are *)
(* required.  A hash that the index adds later is not checked as long as   *)
(* the transaction stays the same.                                         *)
(***************************************************************************)
WrongOnlyIfBare ==
  served.how # "none" /\ ~served.right => served.tx \in bare /\ ~RequireHash

(***************************************************************************)
(* What the proofs need besides.  A page that is kept for some time more   *)
(* was named by the index so short a time ago that it will still be recent *)
(* when that has passed; what the index answered to a request was named no *)
(* longer ago than the request is old; and the page a request takes for the       *)
(* cached one is the cached one.                                           *)
(***************************************************************************)
IndexNamed == {"answered", "fetching"}

RecentInv ==
  /\ since[listed.tx] = 0
  /\ page.left > 0 => since[page.tx] + page.left <= PageTTL
  /\ \A v \in Views :
       /\ view[v].pc \in IndexNamed => since[view[v].want.tx] <= view[v].age
       /\ view[v].same => page.tx = view[v].took.tx /\ page.right = view[v].took.right

\* A page that may be wrong was named without a hash, and none is required.
Excusable(p) == p.tx = NoTx \/ p.right \/ (p.tx \in bare /\ ~RequireHash)

BareInv ==
  /\ ~listed.hashed => listed.tx \in bare
  /\ Excusable(page)
  /\ \A v \in Views :
       /\ Excusable(view[v].took)
       /\ view[v].pc \in IndexNamed /\ ~view[v].want.hashed => view[v].want.tx \in bare

\* What is named, kept and fetched is a transaction.
NamedInv ==
  /\ page.left > 0 => page.tx # NoTx
  /\ \A v \in Views : view[v].pc \in IndexNamed => view[v].want.tx # NoTx
  /\ served.how # "none" => served.tx # NoTx

FrontIInv == FrontTypeOK /\ NamedInv /\ RecentInv /\ BareInv /\ HitIsRecent /\ WrongOnlyIfBare
=============================================================================
