----------------------- MODULE GatewayServices_proofs -----------------------
(***************************************************************************)
(* Theorems about the services of the gateway that share no state: the     *)
(* front controller, which serves the page of a host, the resolver of      *)
(* hosts, the sessions, the rate limiter and the path of a write.  They    *)
(* hold for every number of overlapping requests, lookups and attempts,    *)
(* and every lifetime, window, capacity and time limit.  The last one puts *)
(* them and the response cache (GatewayCache_proofs) side by side.         *)
(***************************************************************************)
EXTENDS MCGateway, GatewayCache_proofs, OrderedMap_proofs, TLAPS

-----------------------------------------------------------------------------
(* The front controller.                                                   *)

\* The front controller starts with nothing cached and nobody served.
LEMMA FrontInitInv == FrontInit => FrontIInv
<1> SUFFICES ASSUME FrontInit PROVE FrontIInv
  OBVIOUS
<1>1. /\ NoPage \in Page /\ NoView \in View
      /\ NoPage.tx = NoTx /\ NoPage.left = 0
      /\ NoView.pc = "idle" /\ ~NoView.same /\ NoView.took = NoPage
  BY FrontAssumption DEF NoPage, Page, NoView, View
<1>2. FrontTypeOK
  BY <1>1, FrontAssumption DEF FrontInit, FrontTypeOK, Served, NotServed
<1>3. NamedInv /\ RecentInv /\ BareInv
  BY <1>1, FrontAssumption DEF FrontInit, NamedInv, RecentInv, BareInv, Excusable,
                                IndexNamed, NotServed
<1>4. HitIsRecent /\ WrongOnlyIfBare
  BY DEF FrontInit, HitIsRecent, WrongOnlyIfBare, NotServed
<1> QED BY <1>2, <1>3, <1>4 DEF FrontIInv

\* What the types say of the parts, as the steps use them.
LEMMA FrontTypes ==
  ASSUME FrontIInv
  PROVE  /\ PageTTL \in Nat \ {0} /\ NoTx \notin Txs
         /\ listed.tx \in Txs /\ listed.hashed \in BOOLEAN
         /\ \A t \in Txs : since[t] \in 0 .. PageTTL
         /\ page.tx \in Txs \cup {NoTx} /\ page.right \in BOOLEAN /\ page.left \in 0 .. PageTTL
         /\ \A v \in Views :
              /\ view[v] \in View
              /\ view[v].took \in Page
              /\ view[v].age \in 0 .. PageTTL
              /\ view[v].want.tx \in Txs \cup {NoTx}
         /\ NoPage \in Page /\ NoView \in View
BY FrontAssumption DEF FrontIInv, FrontTypeOK, Page, View, NoPage, NoView

(***************************************************************************)
(* The index names a transaction: that makes no page less recent, and no   *)
(* transaction less excusable.                                             *)
(***************************************************************************)
LEMMA ListStep ==
  ASSUME FrontIInv, NEW tx \in Txs, NEW hashed \in BOOLEAN, List(tx, hashed)
  PROVE  FrontIInv'
<1>1. /\ listed' = [tx |-> tx, hashed |-> hashed]
      /\ since' = [since EXCEPT ![tx] = 0]
      /\ bare' = IF hashed THEN bare ELSE bare \cup {tx}
      /\ page' = page /\ view' = view /\ served' = served
  BY DEF List
<1>2. ASSUME NEW t \in Txs PROVE since'[t] = IF t = tx THEN 0 ELSE since[t]
  BY <1>1 DEF FrontIInv, FrontTypeOK
<1>3. FrontTypeOK' /\ NamedInv'
  BY <1>1, FrontAssumption DEF FrontIInv, FrontTypeOK, NamedInv
<1>4. RecentInv'
  BY <1>1, <1>2, FrontTypes DEF FrontIInv, RecentInv, NamedInv
<1>5. BareInv' /\ WrongOnlyIfBare'
  BY <1>1 DEF FrontIInv, BareInv, Excusable, WrongOnlyIfBare
<1>6. HitIsRecent'
  <2>1. served.how = "hit" => served.tx \in Txs
    BY DEF FrontIInv, FrontTypeOK, NamedInv, Served
  <2> QED BY <1>1, <1>2, <2>1, FrontTypes DEF FrontIInv, HitIsRecent
<1> QED BY <1>3, <1>4, <1>5, <1>6 DEF FrontIInv

(***************************************************************************)
(* A request slot moves, the page is as before or as good as it, and what  *)
(* is served, if anything is, is recent if it is a hit and excusable.      *)
(***************************************************************************)
LEMMA ViewStep ==
  ASSUME FrontIInv, UNCHANGED <<listed, since, bare>>,
         page' \in Page, view' \in [Views -> View], served' \in Served,
         NamedInv', RecentInv', Excusable(page'),
         \A v \in Views :
           /\ Excusable(view'[v].took)
           /\ view'[v].pc \in IndexNamed /\ ~view'[v].want.hashed => view'[v].want.tx \in bare,
         \/ served' = served
         \/ /\ served'.tx # NoTx
            /\ served'.how = "hit" /\ ~served'.late => since[served'.tx] < PageTTL
            /\ served'.right \/ (served'.tx \in bare /\ ~RequireHash)
  PROVE  FrontIInv'
<1>1. FrontTypeOK'
  BY DEF FrontIInv, FrontTypeOK
<1>2. BareInv'
  BY DEF FrontIInv, BareInv, Excusable
<1>3. HitIsRecent' /\ WrongOnlyIfBare'
  BY DEF FrontIInv, HitIsRecent, WrongOnlyIfBare
<1> QED BY <1>1, <1>2, <1>3 DEF FrontIInv

\* What is served of a page is an answer.
LEMMA ServeType ==
  ASSUME NEW manner \in {"hit", "miss", "stale"}, NEW p \in Page, NEW elapsed, Serve(manner, p, elapsed)
  PROVE  served' \in Served
<1>1. PICK late \in BOOLEAN : late = (elapsed = PageTTL)
  OBVIOUS
<1>2. served' = [how |-> manner, tx |-> p.tx, right |-> p.right, late |-> late]
  BY <1>1 DEF Serve
<1> QED BY <1>2 DEF Served, Page

\* The cached page, within its time, was named within the last PageTTL.
LEMMA ServeCachedStep ==
  ASSUME FrontIInv, ServeCached
  PROVE  FrontIInv'
<1>1. /\ UNCHANGED <<listed, since, bare, page, view>>
      /\ page.tx # NoTx /\ page.left > 0
      /\ served' = [how |-> "hit", tx |-> page.tx, right |-> page.right, late |-> 0 = PageTTL]
  BY DEF ServeCached, Serve
<1>2. page \in Page /\ view \in [Views -> View] /\ served' \in Served
  BY <1>1, FrontTypes DEF FrontIInv, FrontTypeOK, Served
<1>3. since[page.tx] < PageTTL
  BY <1>1, FrontTypes DEF FrontIInv, RecentInv
<1>4. NamedInv' /\ RecentInv'
  BY <1>1 DEF FrontIInv, NamedInv, RecentInv
<1>5. /\ Excusable(page)
      /\ \A v \in Views :
           /\ Excusable(view[v].took)
           /\ view[v].pc \in IndexNamed /\ ~view[v].want.hashed => view[v].want.tx \in bare
  BY DEF FrontIInv, BareInv
<1> QED BY <1>1, <1>2, <1>3, <1>4, <1>5, ViewStep DEF Excusable

\* A request asks the index, and remembers the page it could fall back on.
LEMMA AskIndexStep ==
  ASSUME FrontIInv, NEW v \in Views, NEW forced \in BOOLEAN, AskIndex(v, forced)
  PROVE  FrontIInv'
<1> DEFINE slot == [pc |-> "resolving", forced |-> forced, took |-> page, same |-> page.tx # NoTx,
                    want |-> NoView.want, age |-> 0]
<1>1. /\ UNCHANGED <<listed, since, bare, page, served>>
      /\ view' = [view EXCEPT ![v] = slot]
  BY DEF AskIndex
<1>2. slot \in View
  BY FrontAssumption DEF FrontIInv, FrontTypeOK, View, NoView
<1>3. slot.pc \notin IndexNamed /\ slot.took = page
  BY DEF IndexNamed
<1> HIDE DEF slot
<1>4. ASSUME NEW w \in Views PROVE view'[w] = IF w = v THEN slot ELSE view[w]
  BY <1>1 DEF FrontIInv, FrontTypeOK
<1>5. view' \in [Views -> View]
  BY <1>1, <1>2 DEF FrontIInv, FrontTypeOK
<1>6. NamedInv' /\ RecentInv'
  BY <1>1, <1>3, <1>4 DEF FrontIInv, NamedInv, RecentInv
<1>7. /\ page' \in Page /\ served' \in Served /\ Excusable(page')
      /\ \A w \in Views :
           /\ Excusable(view'[w].took)
           /\ view'[w].pc \in IndexNamed /\ ~view'[w].want.hashed => view'[w].want.tx \in bare
  BY <1>1, <1>3, <1>4 DEF FrontIInv, FrontTypeOK, BareInv
<1> QED BY <1>1, <1>5, <1>6, <1>7, ViewStep

(***************************************************************************)
(* The request v ends.  What is left of the others is as it was, or no     *)
(* longer taken for the cached page.                                       *)
(***************************************************************************)
LEMMA ViewEnds ==
  ASSUME FrontIInv, NEW v \in Views, NEW keep \in BOOLEAN,
         view' = [w \in Views |-> IF w = v THEN NoView
                                  ELSE IF keep THEN view[w] ELSE [view[w] EXCEPT !.same = FALSE]],
         UNCHANGED <<listed, since, bare>>
  PROVE  /\ view' \in [Views -> View]
         /\ \A w \in Views :
              /\ view'[w].pc \in IndexNamed => since[view'[w].want.tx] <= view'[w].age
              /\ view'[w].same => keep /\ view[w].same /\ view'[w].took = view[w].took
              /\ view'[w].pc \in IndexNamed => view'[w].want.tx # NoTx
              /\ Excusable(view'[w].took)
              /\ view'[w].pc \in IndexNamed /\ ~view'[w].want.hashed => view'[w].want.tx \in bare
<1>1. \A w \in Views : view[w] \in View /\ view[w].took \in Page
  BY FrontTypes
<1>2. /\ NoView \in View /\ NoView.pc \notin IndexNamed /\ ~NoView.same /\ NoView.took = NoPage
      /\ Excusable(NoPage)
  BY FrontTypes DEF NoView, NoPage, Excusable, IndexNamed
<1>3. ASSUME NEW w \in Views, w # v
      PROVE  /\ view'[w] \in View
             /\ view'[w].pc = view[w].pc /\ view'[w].took = view[w].took
             /\ view'[w].want = view[w].want /\ view'[w].age = view[w].age
             /\ view'[w].same => keep /\ view[w].same
  BY <1>1, <1>3 DEF View
<1>4. view'[v] = NoView
  OBVIOUS
<1>5. view' \in [Views -> View]
  BY <1>2, <1>3, <1>4
<1> QED BY <1>2, <1>3, <1>4, <1>5 DEF FrontIInv, NamedInv, RecentInv, BareInv

\* A request that fails serves what it had taken, as a stale page, or nothing.
LEMMA FallbackStep ==
  ASSUME FrontIInv, NEW v \in Views, Fallback(v)
  PROVE  FrontIInv'
<1>1. /\ UNCHANGED <<listed, since, bare, page>>
      /\ view' = [view EXCEPT ![v] = NoView]
      /\ IF view[v].took.tx # NoTx
         THEN served' = [how |-> "stale", tx |-> view[v].took.tx, right |-> view[v].took.right,
                         late |-> view[v].age = PageTTL]
         ELSE served' = served
  BY DEF Fallback, Serve
<1>2. view' = [w \in Views |-> IF w = v THEN NoView
                               ELSE IF TRUE THEN view[w] ELSE [view[w] EXCEPT !.same = FALSE]]
  BY <1>1 DEF FrontIInv, FrontTypeOK
<1>3. /\ view' \in [Views -> View]
      /\ \A w \in Views :
           /\ view'[w].pc \in IndexNamed => since[view'[w].want.tx] <= view'[w].age
           /\ view'[w].same => view[w].same /\ view'[w].took = view[w].took
           /\ view'[w].pc \in IndexNamed => view'[w].want.tx # NoTx
           /\ Excusable(view'[w].took)
           /\ view'[w].pc \in IndexNamed /\ ~view'[w].want.hashed => view'[w].want.tx \in bare
  BY <1>1, <1>2, ViewEnds
<1>4. page' \in Page /\ Excusable(page') /\ Excusable(view[v].took) /\ view[v].took \in Page
  BY <1>1, FrontTypes DEF FrontIInv, FrontTypeOK, BareInv
<1>5. served' \in Served
  <2>1. view[v].took.tx # NoTx => Serve("stale", view[v].took, view[v].age)
    BY DEF Fallback
  <2> QED BY <1>1, <1>4, <2>1, ServeType DEF FrontIInv, FrontTypeOK
<1>6. NamedInv' /\ RecentInv'
  BY <1>1, <1>3 DEF FrontIInv, NamedInv, RecentInv
<1>7. \/ served' = served
      \/ /\ served'.tx # NoTx
         /\ served'.how = "hit" /\ ~served'.late => since[served'.tx] < PageTTL
         /\ served'.right \/ (served'.tx \in bare /\ ~RequireHash)
  BY <1>1, <1>4 DEF Excusable
<1> QED BY <1>1, <1>3, <1>4, <1>5, <1>6, <1>7, ViewStep

(***************************************************************************)
(* The index named the transaction that the request had taken, no longer   *)
(* ago than the request is old; and the page, if it is the cached one, is  *)
(* kept for what is left of PageTTL since the request began.               *)
(***************************************************************************)
LEMMA ConfirmedStep ==
  ASSUME FrontIInv, NEW v \in Views, Confirmed(v)
  PROVE  FrontIInv'
<1>1. /\ UNCHANGED <<listed, since, bare>>
      /\ view[v].pc = "answered" /\ view[v].took.tx = view[v].want.tx
      /\ page' = IF view[v].same
                 THEN [tx |-> page.tx, right |-> page.right, left |-> PageTTL - view[v].age]
                 ELSE page
      /\ served' = [how |-> "hit", tx |-> view[v].took.tx, right |-> view[v].took.right,
                     late |-> view[v].age = PageTTL]
      /\ view' = [view EXCEPT ![v] = NoView]
  BY DEF Confirmed, Serve
<1>2. view' = [w \in Views |-> IF w = v THEN NoView
                               ELSE IF TRUE THEN view[w] ELSE [view[w] EXCEPT !.same = FALSE]]
  BY <1>1 DEF FrontIInv, FrontTypeOK
<1>3. /\ view' \in [Views -> View]
      /\ \A w \in Views :
           /\ view'[w].pc \in IndexNamed => since[view'[w].want.tx] <= view'[w].age
           /\ view'[w].same => view[w].same /\ view'[w].took = view[w].took
           /\ view'[w].pc \in IndexNamed => view'[w].want.tx # NoTx
           /\ Excusable(view'[w].took)
           /\ view'[w].pc \in IndexNamed /\ ~view'[w].want.hashed => view'[w].want.tx \in bare
  BY <1>1, <1>2, ViewEnds
<1>4. /\ since[view[v].took.tx] <= view[v].age
      /\ view[v].took.tx \in Txs /\ view[v].took.tx # NoTx
      /\ since[view[v].took.tx] \in 0 .. PageTTL
      /\ view[v].age \in 0 .. PageTTL /\ view[v].took.right \in BOOLEAN
      /\ view[v].same => page.tx = view[v].took.tx
  <2>1. view[v].pc \in IndexNamed
    BY <1>1 DEF IndexNamed
  <2>2. since[view[v].want.tx] <= view[v].age /\ view[v].want.tx # NoTx
    BY <2>1 DEF FrontIInv, RecentInv, NamedInv
  <2> QED BY <1>1, <2>2, FrontTypes DEF FrontIInv, RecentInv, Page
<1>5. page'.tx = page.tx /\ page'.right = page.right /\ page' \in Page
  BY <1>1, <1>4, FrontTypes DEF Page, FrontIInv, FrontTypeOK
<1>6. served' \in Served
  <2>1. Serve("hit", view[v].took, view[v].age)
    BY DEF Confirmed
  <2>2. view[v].took \in Page
    BY FrontTypes
  <2> QED BY <2>1, <2>2, ServeType
<1>7. page'.left > 0 => page'.tx # NoTx /\ since[page'.tx] + page'.left <= PageTTL
  BY <1>1, <1>4, <1>5, FrontTypes DEF FrontIInv, NamedInv, RecentInv
<1>8. NamedInv' /\ RecentInv'
  BY <1>1, <1>3, <1>4, <1>5, <1>7 DEF FrontIInv, NamedInv, RecentInv
<1>9. Excusable(page') /\ Excusable(view[v].took)
  BY <1>5 DEF FrontIInv, BareInv, Excusable
<1>10. /\ ~served'.late => since[served'.tx] < PageTTL
       /\ (served'.right \/ (served'.tx \in bare /\ ~RequireHash))
  <2>1. /\ served'.tx = view[v].took.tx /\ served'.right = view[v].took.right
        /\ ~served'.late => view[v].age # PageTTL
    BY <1>1
  <2>2. PageTTL \in Nat
    BY FrontAssumption
  <2>3. view[v].age # PageTTL => since[view[v].took.tx] < PageTTL
    BY <1>4, <2>2
  <2> QED BY <1>4, <1>9, <2>1, <2>3 DEF Excusable
<1> QED BY <1>1, <1>3, <1>4, <1>5, <1>6, <1>8, <1>9, <1>10, ViewStep

\* The index answers a request with what it names now.
LEMMA IndexAnswersStep ==
  ASSUME FrontIInv, NEW v \in Views, IndexAnswers(v)
  PROVE  FrontIInv'
<1>1. /\ UNCHANGED <<listed, since, bare, page, served>>
      /\ view' = [view EXCEPT ![v].pc = "answered", ![v].want = listed]
  BY DEF IndexAnswers
<1>2. ASSUME NEW w \in Views
      PROVE  /\ view'[w] \in View
             /\ view'[w].took = view[w].took /\ view'[w].same = view[w].same
             /\ view'[w].age = view[w].age
             /\ w # v => view'[w] = view[w]
             /\ w = v => view'[w].want = listed /\ view'[w].pc \in IndexNamed
  <2>1. view[w] \in View /\ view \in [Views -> View] /\ listed \in [tx : Txs, hashed : BOOLEAN]
    BY DEF FrontIInv, FrontTypeOK
  <2>2. CASE w = v
    <3>1. view'[w] = [view[w] EXCEPT !.pc = "answered", !.want = listed]
      BY <1>1, <2>1, <2>2
    <3>2. listed \in [tx : Txs \cup {NoTx}, hashed : BOOLEAN]
      BY <2>1
    <3> QED BY <2>1, <2>2, <3>1, <3>2 DEF View, IndexNamed
  <2>3. CASE w # v
    <3>1. view'[w] = view[w]
      BY <1>1, <2>1, <2>3
    <3> QED BY <2>1, <2>3, <3>1
  <2> QED BY <2>2, <2>3
<1>3. view' \in [Views -> View]
  BY <1>1, <1>2 DEF FrontIInv, FrontTypeOK
<1>4. NamedInv' /\ RecentInv'
  <2>1. listed.tx # NoTx /\ since[listed.tx] = 0
    BY FrontTypes DEF FrontIInv, RecentInv
  <2>2. ASSUME NEW w \in Views, view'[w].pc \in IndexNamed
        PROVE  since[view'[w].want.tx] <= view'[w].age /\ view'[w].want.tx # NoTx
    <3>1. CASE w = v
      BY <1>2, <2>1, <3>1, FrontTypes
    <3>2. CASE w # v
      BY <1>2, <2>2, <3>2 DEF FrontIInv, NamedInv, RecentInv
    <3> QED BY <3>1, <3>2
  <2>3. NamedInv'
    BY <1>1, <2>2 DEF FrontIInv, NamedInv
  <2>4. RecentInv'
    <3>1. since'[listed'.tx] = 0
      BY <1>1, <2>1
    <3>2. page'.left > 0 => since'[page'.tx] + page'.left <= PageTTL
      BY <1>1 DEF FrontIInv, RecentInv
    <3>3. ASSUME NEW w \in Views, view'[w].pc \in IndexNamed
          PROVE  since'[view'[w].want.tx] <= view'[w].age
      BY <1>1, <2>2, <3>3
    <3>4. ASSUME NEW w \in Views, view'[w].same
          PROVE  page'.tx = view'[w].took.tx /\ page'.right = view'[w].took.right
      <4>1. view[w].same /\ view'[w].took = view[w].took
        BY <1>2, <3>4
      <4>2. page.tx = view[w].took.tx /\ page.right = view[w].took.right
        BY <4>1 DEF FrontIInv, RecentInv
      <4> QED BY <1>1, <4>1, <4>2
    <3> QED BY <3>1, <3>2, <3>3, <3>4 DEF RecentInv
  <2> QED BY <2>3, <2>4
<1>5. /\ page' \in Page /\ served' \in Served /\ Excusable(page')
      /\ \A w \in Views :
           /\ Excusable(view'[w].took)
           /\ view'[w].pc \in IndexNamed /\ ~view'[w].want.hashed => view'[w].want.tx \in bare
  BY <1>1, <1>2 DEF FrontIInv, FrontTypeOK, BareInv
<1> QED BY <1>1, <1>3, <1>4, <1>5, ViewStep

\* The answer names another transaction than the request had taken, which is
\* to be fetched.
LEMMA ResolveStep ==
  ASSUME FrontIInv, NEW v \in Views, Resolve(v)
  PROVE  FrontIInv'
<1>1. /\ UNCHANGED <<listed, since, bare, page, served>>
      /\ view[v].pc = "answered" /\ view' = [view EXCEPT ![v].pc = "fetching"]
  BY DEF Resolve
<1>2. ASSUME NEW w \in Views
      PROVE  /\ view'[w] \in View
             /\ view'[w].took = view[w].took /\ view'[w].same = view[w].same
             /\ view'[w].age = view[w].age /\ view'[w].want = view[w].want
             /\ view'[w].pc \in IndexNamed => view[w].pc \in IndexNamed
  BY <1>1 DEF FrontIInv, FrontTypeOK, View, IndexNamed
<1>3. view' \in [Views -> View]
  BY <1>1, <1>2 DEF FrontIInv, FrontTypeOK
<1>4. NamedInv' /\ RecentInv'
  BY <1>1, <1>2 DEF FrontIInv, NamedInv, RecentInv
<1>5. /\ page' \in Page /\ served' \in Served /\ Excusable(page')
      /\ \A w \in Views :
           /\ Excusable(view'[w].took)
           /\ view'[w].pc \in IndexNamed /\ ~view'[w].want.hashed => view'[w].want.tx \in bare
  BY <1>1, <1>2 DEF FrontIInv, FrontTypeOK, BareInv
<1> QED BY <1>1, <1>3, <1>4, <1>5, ViewStep

(***************************************************************************)
(* The page is there and its hash does not speak against it.  It is kept   *)
(* for what is left of PageTTL since the request began, and other requests *)
(* no longer hold the cached page.                                         *)
(***************************************************************************)
LEMMA FetchedStep ==
  ASSUME FrontIInv, NEW v \in Views, NEW right \in BOOLEAN, Fetched(v, right)
  PROVE  FrontIInv'
<1> DEFINE p == [tx |-> view[v].want.tx, right |-> right, left |-> PageTTL - view[v].age]
<1>1. /\ UNCHANGED <<listed, since, bare>>
      /\ view[v].pc \in IndexNamed
      /\ view[v].want.hashed => right
      /\ RequireHash => view[v].want.hashed
      /\ page' = p
      /\ view' = [w \in Views |-> IF w = v THEN NoView ELSE [view[w] EXCEPT !.same = FALSE]]
      /\ served' = [how |-> "miss", tx |-> p.tx, right |-> p.right, late |-> view[v].age = PageTTL]
  BY DEF Fetched, Passes, Serve, Until, IndexNamed
<1>2. view' = [w \in Views |-> IF w = v THEN NoView
                               ELSE IF FALSE THEN view[w] ELSE [view[w] EXCEPT !.same = FALSE]]
  BY <1>1
<1>3. /\ view' \in [Views -> View]
      /\ \A w \in Views :
           /\ view'[w].pc \in IndexNamed => since[view'[w].want.tx] <= view'[w].age
           /\ ~view'[w].same
           /\ view'[w].pc \in IndexNamed => view'[w].want.tx # NoTx
           /\ Excusable(view'[w].took)
           /\ view'[w].pc \in IndexNamed /\ ~view'[w].want.hashed => view'[w].want.tx \in bare
  <2>1. view' \in [Views -> View]
    BY <1>1, <1>2, ViewEnds
  <2>2. ASSUME NEW w \in Views PROVE ~view'[w].same
    BY <1>1, FrontTypes DEF NoView, View
  <2> QED BY <1>1, <1>2, <2>1, <2>2, ViewEnds
<1>4. /\ view[v].want.tx \in Txs /\ view[v].want.hashed \in BOOLEAN
      /\ view[v].age \in 0 .. PageTTL /\ since[view[v].want.tx] \in 0 .. PageTTL
      /\ since[view[v].want.tx] <= view[v].age
      /\ ~view[v].want.hashed => view[v].want.tx \in bare
  BY <1>1, FrontTypes DEF FrontIInv, NamedInv, RecentInv, BareInv, View
<1>5. p \in Page /\ p.tx # NoTx /\ since[p.tx] + p.left <= PageTTL /\ Excusable(p)
  BY <1>1, <1>4, FrontAssumption DEF Page, Excusable
<1>6. served' \in Served /\ served'.tx = p.tx /\ served'.right = p.right /\ served'.how = "miss"
  BY <1>1, <1>4 DEF Served
<1> HIDE DEF p
<1>7. NamedInv' /\ RecentInv'
  <2>1. NamedInv'
    BY <1>1, <1>3, <1>5, <1>6 DEF NamedInv
  <2>2. since[listed.tx] = 0
    BY DEF FrontIInv, RecentInv
  <2> QED BY <1>1, <1>3, <1>5, <2>1, <2>2 DEF RecentInv
<1>8. served'.right \/ (served'.tx \in bare /\ ~RequireHash)
  BY <1>5, <1>6 DEF Excusable
<1> QED BY <1>1, <1>3, <1>5, <1>6, <1>7, <1>8, ViewStep

\* Time passes, for the page as for the requests; nobody is being served.
LEMMA FrontTickStep ==
  ASSUME FrontIInv, FrontTick
  PROVE  FrontIInv'
<1>1. /\ UNCHANGED <<listed, bare>>
      /\ page' = [tx |-> page.tx, right |-> page.right,
                  left |-> IF page.left > 0 THEN page.left - 1 ELSE 0]
      /\ served' = [how |-> "none", tx |-> NoTx, right |-> FALSE, late |-> FALSE]
  BY DEF FrontTick, NotServed
<1>2. ASSUME NEW t \in Txs
      PROVE  /\ since'[t] = IF t = listed.tx THEN 0
                            ELSE IF since[t] < PageTTL THEN since[t] + 1 ELSE PageTTL
             /\ since'[t] \in 0 .. PageTTL /\ since'[t] <= since[t] + 1
  BY FrontTypes DEF FrontTick
<1>3. ASSUME NEW v \in Views
      PROVE  /\ view'[v] \in View
             /\ view'[v].pc = view[v].pc /\ view'[v].took = view[v].took
             /\ view'[v].same = view[v].same /\ view'[v].want = view[v].want
             /\ view[v].pc \in IndexNamed =>
                  view'[v].age = IF view[v].age = PageTTL THEN PageTTL ELSE view[v].age + 1
  <2>1. view[v] \in View /\ view[v].age \in 0 .. PageTTL /\ PageTTL \in Nat
    BY FrontTypes
  <2>2. CASE view[v].pc = "idle" \/ view[v].age = PageTTL
    <3>1. view'[v] = view[v]
      BY <2>2 DEF FrontTick
    <3> QED BY <2>1, <2>2, <3>1 DEF IndexNamed
  <2>3. CASE ~(view[v].pc = "idle" \/ view[v].age = PageTTL)
    <3>1. view'[v] = [view[v] EXCEPT !.age = view[v].age + 1]
      BY <2>3 DEF FrontTick
    <3>2. view[v].age + 1 \in 0 .. PageTTL
      BY <2>1, <2>3
    <3> QED BY <2>1, <2>3, <3>1, <3>2 DEF View
  <2> QED BY <2>2, <2>3
<1>4. page' \in Page /\ served' \in Served /\ since' \in [Txs -> 0 .. PageTTL]
  BY <1>1, FrontTypes DEF FrontTick, Page, Served
<1>5. view' \in [Views -> View]
  BY <1>3 DEF FrontTick
<1>6. FrontTypeOK' /\ NamedInv' /\ BareInv' /\ HitIsRecent' /\ WrongOnlyIfBare'
  <2>1. FrontTypeOK'
    BY <1>1, <1>4, <1>5 DEF FrontIInv, FrontTypeOK
  <2>2. NamedInv'
    BY <1>1, <1>3, FrontTypes DEF FrontIInv, NamedInv
  <2>3. BareInv'
    BY <1>1, <1>3 DEF FrontIInv, BareInv, Excusable
  <2> QED BY <1>1, <2>1, <2>2, <2>3 DEF HitIsRecent, WrongOnlyIfBare
<1>7. RecentInv'
  <2>1. since'[listed'.tx] = 0
    BY <1>1, <1>2, FrontTypes
  <2>2. page'.left > 0 => since'[page'.tx] + page'.left <= PageTTL
    <3>1. SUFFICES ASSUME page'.left > 0 PROVE since'[page'.tx] + page'.left <= PageTTL
      OBVIOUS
    <3>2. page.left > 0 /\ page'.left = page.left - 1 /\ page.tx \in Txs /\ page'.tx = page.tx
      BY <1>1, <3>1, FrontTypes DEF FrontIInv, NamedInv
    <3> QED BY <1>2, <3>2, FrontTypes DEF FrontIInv, RecentInv
  <2>3. ASSUME NEW v \in Views, view'[v].pc \in IndexNamed
        PROVE  since'[view'[v].want.tx] <= view'[v].age
    <3>1. view[v].pc \in IndexNamed /\ view'[v].want.tx = view[v].want.tx /\ view[v].want.tx \in Txs
      BY <1>3, <2>3, FrontTypes DEF FrontIInv, NamedInv
    <3> QED BY <1>2, <1>3, <3>1, FrontTypes DEF FrontIInv, RecentInv
  <2>4. ASSUME NEW v \in Views, view'[v].same
        PROVE  page'.tx = view'[v].took.tx /\ page'.right = view'[v].took.right
    BY <1>1, <1>3, <2>4 DEF FrontIInv, RecentInv
  <2> QED BY <2>1, <2>2, <2>3, <2>4 DEF RecentInv
<1> QED BY <1>6, <1>7 DEF FrontIInv

\* Every step keeps the invariant.
LEMMA FrontNextInv == FrontIInv /\ [FrontNext]_frontVars => FrontIInv'
<1> SUFFICES ASSUME FrontIInv, [FrontNext]_frontVars PROVE FrontIInv'
  OBVIOUS
<1>1. ASSUME NEW tx \in Txs, NEW hashed \in BOOLEAN, List(tx, hashed) PROVE FrontIInv'
  BY <1>1, ListStep
<1>2. CASE ServeCached
  BY <1>2, ServeCachedStep
<1>3. ASSUME NEW v \in Views, NEW forced \in BOOLEAN, AskIndex(v, forced) PROVE FrontIInv'
  BY <1>3, AskIndexStep
<1>4. ASSUME NEW v \in Views, IndexFails(v) \/ FetchFails(v) PROVE FrontIInv'
  BY <1>4, FallbackStep DEF IndexFails, FetchFails
<1>5. ASSUME NEW v \in Views, Confirmed(v) PROVE FrontIInv'
  BY <1>5, ConfirmedStep
<1>6. ASSUME NEW v \in Views, IndexAnswers(v) \/ Resolve(v) PROVE FrontIInv'
  BY <1>6, IndexAnswersStep, ResolveStep
<1>7. ASSUME NEW v \in Views, NEW right \in BOOLEAN, Fetched(v, right) PROVE FrontIInv'
  BY <1>7, FetchedStep
<1>8. CASE FrontTick
  BY <1>8, FrontTickStep
<1>9. CASE UNCHANGED frontVars
  BY <1>9 DEF frontVars, FrontIInv, FrontTypeOK, NamedInv, RecentInv, BareInv, Excusable,
              HitIsRecent, WrongOnlyIfBare
<1> QED BY <1>1, <1>2, <1>3, <1>4, <1>5, <1>6, <1>7, <1>8, <1>9 DEF FrontNext

(***************************************************************************)
(* The types, what makes pages recent, what excuses wrong ones, and the    *)
(* two properties are one inductive invariant.                             *)
(***************************************************************************)
THEOREM FrontInvariant == FrontSpec => []FrontIInv
<1>1. FrontInit => FrontIInv
  BY FrontInitInv
<1>2. FrontIInv /\ [FrontNext]_frontVars => FrontIInv'
  BY FrontNextInv
<1> QED BY <1>1, <1>2, PTL DEF FrontSpec

(***************************************************************************)
(* A hit of the front controller was named by the index within the last    *)
(* GATEWAY_FRONT_CONTROLLER_CACHE_TTL_MS, however requests overlap, unless *)
(* the request that is answered had itself taken that long.                *)
(***************************************************************************)
THEOREM FrontHitIsRecent == FrontSpec => []HitIsRecent
<1>1. FrontIInv => HitIsRecent
  BY DEF FrontIInv
<1> QED BY <1>1, FrontInvariant, PTL

(***************************************************************************)
(* A page that is not what its transaction holds is served only if the     *)
(* index has named the transaction without a hash, and never where hashes  *)
(* are required (GATEWAY_FRONT_CONTROLLER_REQUIRE_HASH).                   *)
(***************************************************************************)
THEOREM FrontWrongOnlyIfBare == FrontSpec => []WrongOnlyIfBare
<1>1. FrontIInv => WrongOnlyIfBare
  BY DEF FrontIInv
<1> QED BY <1>1, FrontInvariant, PTL

-----------------------------------------------------------------------------
(* The resolver of hosts.                                                  *)

\* The longest memory is one of the three, and no shorter than any of them.
LEMMA LongestMemory ==
  /\ Longest \in {UnavailTTL, GlobalTTL, OpenFor} /\ Longest \in Nat \ {0}
  /\ UnavailTTL <= Longest /\ GlobalTTL <= Longest /\ OpenFor <= Longest
  /\ Recovery = FetchLimit + Longest /\ Recovery \in Nat \ {0}
<1> DEFINE S == {UnavailTTL, GlobalTTL, OpenFor}
<1>1. S \subseteq Nat /\ UnavailTTL > 0
  BY ResolverAssumption
<1>2. \E m \in S : \A n \in S : n <= m
  <2>1. CASE UnavailTTL >= GlobalTTL /\ UnavailTTL >= OpenFor
    BY <2>1, <1>1
  <2>2. CASE GlobalTTL >= UnavailTTL /\ GlobalTTL >= OpenFor
    BY <2>2, <1>1
  <2>3. CASE OpenFor >= GlobalTTL /\ OpenFor >= UnavailTTL
    BY <2>3, <1>1
  <2> QED BY <1>1, <2>1, <2>2, <2>3
<1>3. Longest \in S /\ \A n \in S : n <= Longest
  BY <1>2 DEF Longest, LongestOf
<1>4. Recovery = FetchLimit + Longest
  BY DEF Recovery, Longest
<1> QED BY <1>1, <1>3, <1>4, ResolverAssumption

\* What the types say of the parts, as the steps use them.
LEMMA ResolverTypes ==
  ASSUME ResolverIInv
  PROVE  /\ up \in 0 .. Recovery + 1
         /\ allDown \in 0 .. GlobalTTL
         /\ \A h \in Hosts : unavailable[h] \in 0 .. UnavailTTL /\ found[h] \in 0 .. FoundTTL
         /\ circuit.failures \in 0 .. Failures /\ circuit.age \in 0 .. Window + 1
         /\ circuit.open \in 0 .. OpenFor
         /\ \A l \in Lookups :
              /\ lookup[l].host \in Hosts \cup {NoHost} /\ lookup[l].age \in 0 .. FetchLimit
              /\ lookup[l].doubt \in BOOLEAN /\ lookup[l].early \in BOOLEAN
         /\ NoLookup \in Lookup /\ NoLookup.host = NoHost /\ ~NoLookup.doubt
BY ResolverAssumption DEF ResolverIInv, ResolverTypeOK, Lookup, NoLookup

\* Memories that end in time have ended when AO has answered long enough.
LEMMA Recovered == ResolverIInv => RecoversInTime
BY LongestMemory, ResolverTypes
   DEF ResolverIInv, MemoryInv, EndsInTime, RecoversInTime, Refused, CircuitOpen

\* Nothing is remembered at first.
LEMMA ResolverInitInv == ResolverInit => ResolverIInv
<1> SUFFICES ASSUME ResolverInit PROVE ResolverIInv
  OBVIOUS
<1>1. NoLookup \in Lookup /\ NoLookup.host = NoHost /\ ~NoLookup.doubt
  BY ResolverAssumption DEF NoLookup, Lookup
<1>2. ResolverTypeOK
  BY <1>1, ResolverAssumption, LongestMemory DEF ResolverInit, ResolverTypeOK
<1>3. MemoryInv /\ CircuitInv
  BY <1>1 DEF ResolverInit, MemoryInv, CircuitInv, EndsInTime
<1> QED BY <1>2, <1>3 DEF ResolverIInv

\* A lookup asks AO: no circuit is open, and nothing fails while AO answers.
LEMMA AskAoStep ==
  ASSUME ResolverIInv, NEW l \in Lookups, NEW h \in Hosts, AskAo(l, h)
  PROVE  ResolverIInv'
<1> DEFINE slot == [host |-> h, age |-> 0, doubt |-> up = 0, early |-> FALSE]
<1>1. /\ UNCHANGED <<found, unavailable, allDown, circuit, up>>
      /\ lookup' = [lookup EXCEPT ![l] = slot]
      /\ circuit.open = 0
  BY ResolverTypes DEF AskAo, Refused, CircuitOpen
<1>2. slot \in Lookup /\ (slot.doubt => up = 0)
  <2>1. (up = 0) \in BOOLEAN /\ 0 \in 0 .. FetchLimit
    BY ResolverAssumption
  <2> QED BY <2>1 DEF Lookup
<1> HIDE DEF slot
<1>3. ASSUME NEW m \in Lookups PROVE lookup'[m] = IF m = l THEN slot ELSE lookup[m]
  BY <1>1 DEF ResolverIInv, ResolverTypeOK
<1>4. ResolverTypeOK'
  BY <1>1, <1>2 DEF ResolverIInv, ResolverTypeOK, Recovery
<1>5. MemoryInv'
  <2>1. ASSUME NEW m \in Lookups, lookup'[m].doubt, up > 0 PROVE up <= lookup'[m].age + 1
    BY <1>2, <1>3, <2>1 DEF ResolverIInv, MemoryInv
  <2> QED BY <1>1, <2>1 DEF ResolverIInv, MemoryInv, EndsInTime
<1>6. CircuitInv'
  BY <1>1 DEF CircuitInv
<1> QED BY <1>4, <1>5, <1>6 DEF ResolverIInv

\* AO has answered: what was remembered of failures is forgotten.
LEMMA ResolvedStep ==
  ASSUME ResolverIInv, NEW l \in Lookups, Resolved(l)
  PROVE  ResolverIInv'
<1>1. /\ found' = [found EXCEPT ![lookup[l].host] = FoundTTL]
      /\ unavailable' = [unavailable EXCEPT ![lookup[l].host] = 0]
      /\ allDown' = 0
      /\ circuit' = [failures |-> 0, age |-> 0, open |-> 0]
      /\ lookup' = [lookup EXCEPT ![l] = NoLookup]
      /\ up' = up
  BY DEF Resolved
<1>2. ASSUME NEW m \in Lookups PROVE lookup'[m] = IF m = l THEN NoLookup ELSE lookup[m]
  BY <1>1 DEF ResolverIInv, ResolverTypeOK
<1>3. ASSUME NEW h \in Hosts PROVE unavailable'[h] = unavailable[h] \/ unavailable'[h] = 0
  BY <1>1 DEF ResolverIInv, ResolverTypeOK
<1>4. ResolverTypeOK'
  <2>1. circuit' \in [failures : 0 .. Failures, age : 0 .. Window + 1, open : 0 .. OpenFor]
    BY <1>1, ResolverAssumption
  <2>2. lookup' \in [Lookups -> Lookup]
    BY <1>1, ResolverTypes DEF ResolverIInv, ResolverTypeOK
  <2>3. found' \in [Hosts -> 0 .. FoundTTL]
    <3>1. FoundTTL \in 0 .. FoundTTL
      BY ResolverAssumption
    <3> QED BY <1>1, <3>1 DEF ResolverIInv, ResolverTypeOK
  <2>4. unavailable' \in [Hosts -> 0 .. UnavailTTL] /\ allDown' \in 0 .. GlobalTTL
    <3>1. 0 \in 0 .. UnavailTTL /\ 0 \in 0 .. GlobalTTL
      BY ResolverAssumption
    <3> QED BY <1>1, <3>1 DEF ResolverIInv, ResolverTypeOK
  <2> QED BY <1>1, <2>1, <2>2, <2>3, <2>4, ResolverTypes DEF ResolverTypeOK, Recovery
<1>5. MemoryInv'
  BY <1>1, <1>2, <1>3, ResolverTypes DEF ResolverIInv, MemoryInv, EndsInTime
<1>6. CircuitInv'
  BY <1>1 DEF CircuitInv
<1> QED BY <1>4, <1>5, <1>6 DEF ResolverIInv

\* A lookup fails: it may have begun before AO came back, but not long before.
LEMMA UnresolvedStep ==
  ASSUME ResolverIInv, NEW l \in Lookups, Unresolved(l)
  PROVE  ResolverIInv'
<1>1. /\ circuit' = Noting
      /\ unavailable' = [unavailable EXCEPT ![lookup[l].host] = UnavailTTL]
      /\ allDown' = IF GlobalTTL > 0 THEN GlobalTTL ELSE allDown
      /\ found' = found /\ up' = up
      /\ lookup[l].host \in Hosts /\ lookup[l].doubt
  BY ResolverTypes DEF Unresolved
<1>2. /\ circuit'.failures \in 0 .. Failures /\ circuit'.age \in 0 .. Window + 1
      /\ circuit'.open = OpenFor \/ circuit'.open = circuit.open
      /\ circuit' = [failures |-> circuit'.failures, age |-> circuit'.age, open |-> circuit'.open]
  <2>1. Failures \in Nat \ {0} /\ Window \in Nat \ {0}
    BY ResolverAssumption
  <2> QED BY <1>1, <2>1, ResolverTypes DEF Noting
<1>3. ASSUME NEW m \in Lookups
      PROVE  /\ lookup'[m] \in Lookup
             /\ lookup'[m].doubt => m # l /\ lookup[m].doubt /\ lookup'[m].age = lookup[m].age
             /\ circuit'.open > 0 /\ lookup'[m].host # NoHost => lookup'[m].early
  <2>1. CASE m = l
    BY <1>1, <2>1, ResolverTypes DEF Unresolved
  <2>2. CASE m # l
    <3> DEFINE wasEarly == lookup[m].early \/ (Noting.open > 0 /\ lookup[m].host # NoHost)
    <3>1. wasEarly \in BOOLEAN
      BY ResolverTypes
    <3>2. lookup[m] \in Lookup
      BY DEF ResolverIInv, ResolverTypeOK
    <3>3. lookup'[m] = [lookup[m] EXCEPT !.early = wasEarly]
      BY <2>2 DEF Unresolved
    <3>4. Noting.open > 0 /\ lookup[m].host # NoHost => wasEarly
      OBVIOUS
    <3> HIDE DEF wasEarly
    <3> QED BY <1>1, <2>2, <3>1, <3>2, <3>3, <3>4 DEF Lookup
  <2> QED BY <2>1, <2>2
<1>4. ASSUME NEW h \in Hosts
      PROVE  unavailable'[h] = unavailable[h] \/ unavailable'[h] = UnavailTTL
  BY <1>1 DEF ResolverIInv, ResolverTypeOK
<1>5. ResolverTypeOK'
  <2>1. circuit' \in [failures : 0 .. Failures, age : 0 .. Window + 1, open : 0 .. OpenFor]
    BY <1>2, ResolverAssumption, ResolverTypes
  <2>2. lookup' \in [Lookups -> Lookup]
    BY <1>3 DEF Unresolved
  <2>3. unavailable' \in [Hosts -> 0 .. UnavailTTL] /\ allDown' \in 0 .. GlobalTTL
    <3>1. UnavailTTL \in 0 .. UnavailTTL /\ GlobalTTL \in 0 .. GlobalTTL
      BY ResolverAssumption
    <3> QED BY <1>1, <3>1 DEF ResolverIInv, ResolverTypeOK
  <2> QED BY <1>1, <2>1, <2>2, <2>3 DEF ResolverIInv, ResolverTypeOK, Recovery
<1>6. MemoryInv'
  <2>1. up > 0 => up <= FetchLimit + 1
    BY <1>1, ResolverTypes, ResolverAssumption DEF ResolverIInv, MemoryInv
  <2>2. ASSUME NEW left \in Nat, left <= Longest PROVE EndsInTime(left)
    BY <2>1, <2>2, LongestMemory, ResolverAssumption, ResolverTypes DEF EndsInTime
  <2>3. EndsInTime(UnavailTTL) /\ EndsInTime(GlobalTTL) /\ EndsInTime(OpenFor)
    BY <2>2, LongestMemory, ResolverAssumption
  <2>4. (\A h \in Hosts : EndsInTime(unavailable[h]))'
    BY <1>1, <1>4, <2>3 DEF ResolverIInv, MemoryInv, EndsInTime, Recovery
  <2>5. EndsInTime(allDown)'
    BY <1>1, <2>3 DEF ResolverIInv, MemoryInv, EndsInTime, Recovery
  <2>6. EndsInTime(circuit.open)'
    BY <1>1, <1>2, <2>3 DEF ResolverIInv, MemoryInv, EndsInTime, Recovery
  <2> QED BY <1>1, <1>3, <2>4, <2>5, <2>6 DEF ResolverIInv, MemoryInv
<1>7. CircuitInv'
  BY <1>3 DEF CircuitInv
<1> QED BY <1>5, <1>6, <1>7 DEF ResolverIInv

\* AO stops or comes back: what is in flight may fail, and every memory is short.
LEMMA AoTurnsStep ==
  ASSUME ResolverIInv, AoTurns
  PROVE  ResolverIInv'
<1>1. /\ up' = IF up = 0 THEN 1 ELSE 0
      /\ UNCHANGED <<found, unavailable, allDown, circuit>>
  BY DEF AoTurns
<1>2. ASSUME NEW m \in Lookups
      PROVE  /\ lookup'[m] \in Lookup /\ lookup'[m].age = lookup[m].age
             /\ lookup'[m].host = lookup[m].host /\ lookup'[m].early = lookup[m].early
  <2>1. lookup[m] \in Lookup /\ (lookup[m].host # NoHost) \in BOOLEAN
    BY DEF ResolverIInv, ResolverTypeOK
  <2>2. lookup'[m] = [lookup[m] EXCEPT !.doubt = lookup[m].host # NoHost]
    BY DEF AoTurns
  <2> QED BY <2>1, <2>2 DEF Lookup
<1>3. ResolverTypeOK'
  <2>1. up' \in 0 .. Recovery + 1
    BY <1>1, LongestMemory
  <2>2. lookup' \in [Lookups -> Lookup]
    BY <1>2 DEF AoTurns
  <2> QED BY <1>1, <2>1, <2>2 DEF ResolverIInv, ResolverTypeOK, Recovery
<1>4. MemoryInv'
  <2>1. \A m \in Lookups : lookup'[m].doubt /\ up' > 0 => up' <= lookup'[m].age + 1
    BY <1>1, <1>2, ResolverTypes, ResolverAssumption
  <2>2. ASSUME NEW left \in Nat, left <= Longest, up' > 0, left > 0
        PROVE  up' + left <= Recovery + 1
    BY <1>1, <2>2, LongestMemory, ResolverAssumption, ResolverTypes
  <2>3. /\ \A h \in Hosts : unavailable[h] \in Nat /\ unavailable[h] <= Longest
        /\ allDown \in Nat /\ allDown <= Longest
        /\ circuit.open \in Nat /\ circuit.open <= Longest
    BY LongestMemory, ResolverAssumption, ResolverTypes
  <2> QED BY <1>1, <2>1, <2>2, <2>3 DEF MemoryInv, EndsInTime, Recovery
<1>5. CircuitInv'
  BY <1>1, <1>2 DEF ResolverIInv, CircuitInv
<1> QED BY <1>3, <1>4, <1>5 DEF ResolverIInv

\* Time passes for AO, for what is in flight and for what is remembered alike.
LEMMA ResolverTickStep ==
  ASSUME ResolverIInv, ResolverTick
  PROVE  ResolverIInv'
<1>1. ASSUME NEW n, NEW t \in 0 .. n, n \in Nat
      PROVE  Shorter(t) \in 0 .. n /\ (Shorter(t) > 0 => t > 0 /\ Shorter(t) = t - 1)
  BY <1>1 DEF Shorter
<1>2. ASSUME NEW h \in Hosts
      PROVE  /\ found'[h] \in 0 .. FoundTTL
             /\ unavailable'[h] \in 0 .. UnavailTTL
             /\ unavailable'[h] > 0 => unavailable[h] > 0 /\ unavailable'[h] = unavailable[h] - 1
  BY <1>1, ResolverTypes, ResolverAssumption DEF ResolverTick
<1>3. /\ allDown' \in 0 .. GlobalTTL
      /\ allDown' > 0 => allDown > 0 /\ allDown' = allDown - 1
  BY <1>1, ResolverTypes, ResolverAssumption DEF ResolverTick
<1>4. /\ circuit' \in [failures : 0 .. Failures, age : 0 .. Window + 1, open : 0 .. OpenFor]
      /\ circuit'.open > 0 => circuit.open > 0 /\ circuit'.open = circuit.open - 1
  <2>1. Window \in Nat /\ OpenFor \in Nat
    BY ResolverAssumption
  <2>2. circuit' = [failures |-> circuit.failures,
                    age |-> IF circuit.age > Window THEN circuit.age ELSE circuit.age + 1,
                    open |-> Shorter(circuit.open)]
    BY DEF ResolverTick
  <2>3. /\ Shorter(circuit.open) \in 0 .. OpenFor
        /\ Shorter(circuit.open) > 0 => circuit.open > 0 /\ Shorter(circuit.open) = circuit.open - 1
    BY <1>1, <2>1, ResolverTypes
  <2> QED BY <2>1, <2>2, <2>3, ResolverTypes
<1>5. up' \in 0 .. Recovery + 1 /\ (up' > 0 => up > 0 /\ up' <= up + 1)
  BY ResolverTypes, LongestMemory DEF ResolverTick
<1>6. ASSUME NEW m \in Lookups
      PROVE  /\ lookup'[m] \in Lookup
             /\ lookup'[m].doubt => lookup[m].doubt /\ lookup'[m].age = lookup[m].age + 1
             /\ lookup'[m].host = lookup[m].host
             /\ lookup'[m].host # NoHost => lookup'[m].early = lookup[m].early
  <2>1. CASE lookup[m].host = NoHost
    BY <2>1, ResolverTypes DEF ResolverTick
  <2>2. CASE lookup[m].host # NoHost
    <3>1. lookup'[m] = [lookup[m] EXCEPT !.age = lookup[m].age + 1]
      BY <2>2 DEF ResolverTick
    <3>2. lookup[m].age + 1 \in 0 .. FetchLimit
      BY <2>2, ResolverTypes, ResolverAssumption DEF ResolverTick
    <3>3. lookup[m] \in Lookup
      BY DEF ResolverIInv, ResolverTypeOK
    <3> QED BY <3>1, <3>2, <3>3 DEF Lookup
  <2> QED BY <2>1, <2>2
<1>7. ResolverTypeOK'
  BY <1>2, <1>3, <1>4, <1>5, <1>6 DEF ResolverTick, ResolverTypeOK, Recovery
<1>8. MemoryInv'
  <2>1. ASSUME NEW m \in Lookups, lookup'[m].doubt, up' > 0 PROVE up' <= lookup'[m].age + 1
    BY <1>5, <1>6, <2>1, ResolverTypes, LongestMemory DEF ResolverIInv, MemoryInv
  <2>2. ASSUME NEW left \in Nat, EndsInTime(left), left > 0, up' > 0
        PROVE  up' + (left - 1) <= Recovery + 1
    BY <1>5, <2>2, ResolverTypes, LongestMemory DEF EndsInTime
  <2>3. /\ \A h \in Hosts : unavailable[h] \in Nat /\ EndsInTime(unavailable[h])
        /\ allDown \in Nat /\ EndsInTime(allDown)
        /\ circuit.open \in Nat /\ EndsInTime(circuit.open)
    BY ResolverTypes, ResolverAssumption DEF ResolverIInv, MemoryInv
  <2>4. (\A h \in Hosts : EndsInTime(unavailable[h]))'
    BY <1>2, <2>2, <2>3 DEF EndsInTime, Recovery
  <2>5. EndsInTime(allDown)' /\ EndsInTime(circuit.open)'
    BY <1>3, <1>4, <2>2, <2>3 DEF EndsInTime, Recovery
  <2> QED BY <2>1, <2>4, <2>5 DEF MemoryInv
<1>9. CircuitInv'
  BY <1>4, <1>6 DEF ResolverIInv, CircuitInv
<1> QED BY <1>7, <1>8, <1>9 DEF ResolverIInv

\* Every step keeps the invariant; a refused lookup changes nothing.
LEMMA ResolverNextInv == ResolverIInv /\ [ResolverNext]_resolverVars => ResolverIInv'
<1> SUFFICES ASSUME ResolverIInv, [ResolverNext]_resolverVars PROVE ResolverIInv'
  OBVIOUS
<1>1. ASSUME NEW l \in Lookups, NEW h \in Hosts, AskAo(l, h) PROVE ResolverIInv'
  BY <1>1, AskAoStep
<1>2. ASSUME NEW l \in Lookups, Resolved(l) PROVE ResolverIInv'
  BY <1>2, ResolvedStep
<1>3. ASSUME NEW l \in Lookups, Unresolved(l) PROVE ResolverIInv'
  BY <1>3, UnresolvedStep
<1>4. CASE AoTurns
  BY <1>4, AoTurnsStep
<1>5. CASE ResolverTick
  BY <1>5, ResolverTickStep
<1>6. CASE UNCHANGED resolverVars
  BY <1>6 DEF resolverVars, ResolverIInv, ResolverTypeOK, Recovery, MemoryInv, EndsInTime, CircuitInv
<1> QED BY <1>1, <1>2, <1>3, <1>4, <1>5, <1>6 DEF ResolverNext, AskRefused

\* The circuit only closes early by an answer to a lookup in flight.
LEMMA CircuitCloses ==
  ASSUME ResolverIInv, ResolverNext, circuit.open > 1, circuit'.open = 0
  PROVE  \E l \in Lookups : lookup[l].host # NoHost /\ lookup[l].early
<1>1. ASSUME NEW l \in Lookups, NEW h \in Hosts, AskAo(l, h) PROVE FALSE
  BY <1>1, ResolverTypes DEF AskAo
<1>2. ASSUME NEW h \in Hosts, AskRefused(h) PROVE FALSE
  BY <1>2, ResolverTypes DEF AskRefused, resolverVars
<1>3. ASSUME NEW l \in Lookups, Resolved(l) PROVE lookup[l].host # NoHost /\ lookup[l].early
  BY <1>3, ResolverTypes DEF Resolved, ResolverIInv, CircuitInv
<1>4. ASSUME NEW l \in Lookups, Unresolved(l) PROVE FALSE
  <2>1. circuit'.open = OpenFor \/ circuit'.open = circuit.open
    BY <1>4 DEF Unresolved, Noting
  <2> QED BY <2>1, ResolverTypes, ResolverAssumption
<1>5. CASE AoTurns
  BY <1>5, ResolverTypes DEF AoTurns
<1>6. CASE ResolverTick
  BY <1>6, ResolverTypes, ResolverAssumption DEF ResolverTick, Shorter
<1> QED BY <1>1, <1>2, <1>3, <1>4, <1>5, <1>6 DEF ResolverNext

(***************************************************************************)
(* The types, the ends of the memories and what is in flight while the     *)
(* circuit is open are one inductive invariant.                            *)
(***************************************************************************)
THEOREM ResolverInvariant == ResolverSpec => []ResolverIInv
<1>1. ResolverInit => ResolverIInv
  BY ResolverInitInv
<1>2. ResolverIInv /\ [ResolverNext]_resolverVars => ResolverIInv'
  BY ResolverNextInv
<1> QED BY <1>1, <1>2, PTL DEF ResolverSpec

(***************************************************************************)
(* Once AO has answered for GATEWAY_SITE_RESOLVE_TIMEOUT_MS and the longest*)
(* of the three memories, the resolver refuses no host.                    *)
(***************************************************************************)
THEOREM ResolverRecoversInTime == ResolverSpec => []RecoversInTime
BY ResolverInvariant, Recovered, PTL

(***************************************************************************)
(* An open circuit closes before its time only when a lookup that was in   *)
(* flight as it opened succeeds (noteResolverSuccess).                     *)
(***************************************************************************)
THEOREM ResolverCircuitHolds == ResolverSpec => CircuitHolds
<1>1. ResolverIInv /\ [ResolverNext]_resolverVars
      => [circuit.open > 1 /\ circuit'.open = 0
           => \E l \in Lookups : lookup[l].host # NoHost /\ lookup[l].early]_resolverVars
  BY CircuitCloses
<1> QED BY <1>1, ResolverInvariant, PTL DEF ResolverSpec, CircuitHolds

-----------------------------------------------------------------------------
(* The session service.                                                    *)

SessionIInv == SessionTypeOK /\ OneHolderPerLogin

\* A login begins with a session of its own.
LEMMA CreateStep ==
  ASSUME SessionIInv, NEW id \in Ids, NEW ttl \in Lifetimes, Create(id, ttl)
  PROVE  SessionIInv'
<1> DEFINE s == [status |-> "active", left |-> ttl, ttl |-> ttl, from |-> NoSession, to |-> NoSession]
<1>1. /\ sessions' = [other \in Made \cup {id} |-> IF other \in Made THEN sessions[other] ELSE s]
      /\ login' = [other \in Made \cup {id} |-> IF other \in Made THEN login[other] ELSE id]
      /\ id \in Ids \ Made
  BY DEF Create, Fresh
<1>2. s \in Session
  BY SessionAssumption DEF Session
<1> HIDE DEF s
<1>3. Made' = Made \cup {id}
  BY <1>1 DEF Made
<1>4. SessionTypeOK'
  <2>1. sessions' \in [Made \cup {id} -> Session]
    BY <1>1, <1>2 DEF SessionIInv, SessionTypeOK
  <2>2. login' \in [Made \cup {id} -> Made \cup {id}]
    BY <1>1 DEF SessionIInv, SessionTypeOK
  <2> QED BY <1>1, <1>3, <2>1, <2>2 DEF SessionIInv, SessionTypeOK
<1>5. ASSUME NEW a \in Made'
      PROVE  /\ a \in Made => sessions'[a] = sessions[a] /\ login'[a] = login[a] /\ login[a] \in Made
             /\ a \notin Made => a = id /\ login'[a] = id
  BY <1>1, <1>3 DEF SessionIInv, SessionTypeOK
<1>6. OneHolderPerLogin'
  BY <1>1, <1>5 DEF SessionIInv, OneHolderPerLogin
<1> QED BY <1>4, <1>6 DEF SessionIInv

\* A rotation makes the one holder of a login rotated and its successor the holder.
LEMMA RotateStep ==
  ASSUME SessionIInv, NEW id \in Made, NEW next \in Ids, Rotate(id, next)
  PROVE  SessionIInv'
<1>1. /\ sessions' = [other \in Made \cup {next} |->
           CASE other = next -> Successor(id)
             [] other = id -> RotatedTo(id, next)
             [] OTHER -> sessions[other]]
      /\ login' = [other \in Made \cup {next} |-> IF other \in Made THEN login[other] ELSE login[id]]
      /\ next \in Ids \ Made /\ sessions[id].status = "active"
  BY DEF Rotate, Fresh, Usable
<1>2. /\ Successor(id) \in Session
      /\ RotatedTo(id, next) \in Session /\ RotatedTo(id, next).status = "rotated"
  <2>1. sessions[id] \in Session /\ id \in Ids
    BY DEF SessionIInv, SessionTypeOK
  <2>2. /\ sessions[id].ttl \in Lifetimes /\ sessions[id].ttl \in Nat /\ sessions[id].left \in Nat
        /\ sessions[id].from \in Ids \cup {NoSession}
    BY <2>1, SessionAssumption DEF Session
  <2> QED BY <2>1, <2>2, <1>1 DEF Successor, RotatedTo, Session
<1>3. Made' = Made \cup {next}
  BY <1>1 DEF Made
<1>4. ASSUME NEW a \in Made'
      PROVE  /\ a \in Made /\ a # id => sessions'[a] = sessions[a] /\ login'[a] = login[a]
             /\ a = id => sessions'[a].status = "rotated" /\ login'[a] = login[a]
             /\ a \notin Made => a = next /\ login'[a] = login[id]
             /\ sessions'[a] \in Session /\ login'[a] \in Made
  <2>1. CASE a = next
    BY <1>1, <1>2, <2>1 DEF SessionIInv, SessionTypeOK
  <2>2. CASE a = id
    BY <1>1, <1>2, <2>2 DEF SessionIInv, SessionTypeOK
  <2>3. CASE a \in Made /\ a # id
    BY <1>1, <2>3 DEF SessionIInv, SessionTypeOK
  <2> QED BY <1>3, <2>1, <2>2, <2>3
<1>5. SessionTypeOK'
  <2>1. sessions' \in [Made' -> Session] /\ login' \in [Made' -> Made']
    BY <1>1, <1>3, <1>4
  <2> QED BY <1>1, <1>3, <2>1 DEF SessionIInv, SessionTypeOK
<1>6. ASSUME NEW a \in Made', NEW b \in Made', login'[a] = login'[b],
             sessions'[a].status # "rotated", sessions'[b].status # "rotated"
      PROVE  a = b
  <2>1. a # id /\ b # id
    BY <1>4, <1>6
  <2>2. ASSUME NEW c \in Made, c # id, sessions[c].status # "rotated" PROVE login[c] # login[id]
    BY <1>1, <2>2 DEF SessionIInv, OneHolderPerLogin
  <2>3. CASE a \in Made /\ b \in Made
    BY <1>4, <1>6, <2>1, <2>3 DEF SessionIInv, OneHolderPerLogin
  <2>4. CASE ~(a \in Made /\ b \in Made)
    BY <1>4, <1>6, <2>1, <2>2, <2>4
  <2> QED BY <2>3, <2>4
<1> QED BY <1>5, <1>6 DEF SessionIInv, OneHolderPerLogin

\* A revocation makes no session, and none that was rotated the holder again.
LEMMA RevokeStep ==
  ASSUME SessionIInv, NEW id \in Made, Revoke(id)
  PROVE  SessionIInv'
<1>1. ASSUME NEW a \in Made
      PROVE  /\ sessions'[a] \in Session
             /\ sessions'[a].status # "rotated" => sessions[a].status # "rotated"
  <2>1. sessions[a] \in Session
    BY DEF SessionIInv, SessionTypeOK
  <2>2. CASE a # id
    BY <2>1, <2>2 DEF Revoke, SessionIInv, SessionTypeOK
  <2>3. CASE a = id
    <3>1. sessions'[a] = [status |-> "revoked", left |-> sessions[a].left, ttl |-> sessions[a].ttl,
                          from |-> sessions[a].from, to |-> sessions[a].to]
      BY <2>3 DEF Revoke, SessionIInv, SessionTypeOK
    <3>2. sessions[a].status # "rotated"
      BY <2>3 DEF Revoke, Usable
    <3> QED BY <2>1, <3>1, <3>2 DEF Session
  <2> QED BY <2>2, <2>3
<1>2. Made' = Made /\ login' = login /\ sessions' \in [Made -> Session]
  BY <1>1 DEF Revoke, Made, SessionIInv, SessionTypeOK
<1> QED BY <1>1, <1>2 DEF SessionIInv, SessionTypeOK, OneHolderPerLogin

\* Time ends sessions and rotates none.
LEMMA SessionTickStep ==
  ASSUME SessionIInv, SessionTick
  PROVE  SessionIInv'
<1>1. ASSUME NEW a \in Made
      PROVE  sessions'[a] \in Session /\ sessions'[a].status = sessions[a].status
  <2>1. sessions[a] \in Session
    BY DEF SessionIInv, SessionTypeOK
  <2>2. sessions'[a] = [status |-> sessions[a].status,
                        left |-> IF sessions[a].left > 0 THEN sessions[a].left - 1 ELSE 0,
                        ttl |-> sessions[a].ttl, from |-> sessions[a].from, to |-> sessions[a].to]
    BY DEF SessionTick
  <2> QED BY <2>1, <2>2 DEF Session
<1>2. Made' = Made /\ login' = login /\ sessions' \in [Made -> Session]
  BY <1>1 DEF SessionTick, Made
<1> QED BY <1>1, <1>2 DEF SessionIInv, SessionTypeOK, OneHolderPerLogin

LEMMA SessionStarts == SessionInit => SessionIInv
BY DEF SessionInit, SessionIInv, SessionTypeOK, OneHolderPerLogin, Made

LEMMA SessionNextInv == SessionIInv /\ [SessionNext]_sessionVars => SessionIInv'
<1> SUFFICES ASSUME SessionIInv, [SessionNext]_sessionVars PROVE SessionIInv'
  OBVIOUS
<1>1. CASE UNCHANGED sessionVars
  BY <1>1 DEF sessionVars, SessionIInv, SessionTypeOK, OneHolderPerLogin, Made
<1> QED BY <1>1, CreateStep, RotateStep, RevokeStep, SessionTickStep DEF SessionNext

(***************************************************************************)
(* A login is held by one session at most, whatever is rotated and revoked.*)
(***************************************************************************)
THEOREM SessionOneHolder == SessionSpec => []OneHolderPerLogin
<1>1. SessionIInv => OneHolderPerLogin
  BY DEF SessionIInv
<1> QED BY <1>1, SessionStarts, SessionNextInv, PTL DEF SessionSpec

(***************************************************************************)
(* Revoking ends a login: once one of its sessions is revoked, none of     *)
(* them is read, rotated or revoked again (readSession and its fellows).    *)
(***************************************************************************)
THEOREM SessionRevokedLoginEnds ==
  SessionSpec => [](\A a, b \in Made :
                      login[a] = login[b] /\ sessions[a].status = "revoked" => ~Usable(b))
<1>1. OneHolderPerLogin
      => \A a, b \in Made : login[a] = login[b] /\ sessions[a].status = "revoked" => ~Usable(b)
  BY DEF OneHolderPerLogin, Usable
<1> QED BY <1>1, SessionOneHolder, PTL

-----------------------------------------------------------------------------
(* The rate limiter.  A bucket that no eviction moved has counted what was *)
(* let through in its window.                                              *)

(***************************************************************************)
(* The limiter starts with no bucket and no window (src/ratelimit.ts).     *)
(***************************************************************************)
LEMMA LimiterInitInv == LimiterInit => LimiterIInv
<1> SUFFICES ASSUME LimiterInit PROVE LimiterIInv
  OBVIOUS
<1>1. MapOf(buckets, Clients, Bucket) /\ MapKeys(buckets) = {}
  BY EmptyMapOf DEF LimiterInit
<1>2. Cardinality(MapKeys(buckets)) <= MaxBuckets
  BY <1>1, FS_EmptySet, LimiterAssumption
<1>3. /\ given \in [Clients -> Granted]
      /\ \A c \in Clients : given[c].left = 0 /\ given[c].count = 0
  BY LimiterAssumption DEF LimiterInit, Granted, NoWindow
<1> QED BY <1>1, <1>2, <1>3 DEF LimiterIInv, LimiterTypeOK, WindowInv, Bucketed

(***************************************************************************)
(* check(key): the bucket counts the request, and the one the limit on     *)
(* buckets drops takes its client's window with it.                        *)
(***************************************************************************)
LEMMA CheckStep ==
  ASSUME LimiterIInv, NEW c \in Clients, Check(c)
  PROVE  LimiterIInv'
<1> DEFINE counted == MapSet(buckets, c, Counted(c))
           pruned == MapNewest(counted, MaxBuckets)
           w(d) == IF d = c THEN Given(c, Allowed(c, Counted(c).count)) ELSE given[d]
<1>1. /\ MapOf(buckets, Clients, Bucket)
      /\ \A d \in Bucketed : buckets.of[d].left \in 1 .. Span /\ buckets.of[d].count \in Nat
      /\ given \in [Clients -> Granted]
      /\ \A d \in Clients : given[d].left \in 0 .. Span /\ given[d].count \in Nat /\ given[d].moved \in BOOLEAN
      /\ Span \in Nat \ {0} /\ MaxBuckets \in Nat /\ MaxReq[c] \in Nat \ {0}
  BY LimiterAssumption DEF LimiterIInv, LimiterTypeOK, MapOf, Bucketed, Bucket, Granted
<1>2. /\ Counted(c) \in Bucket
      /\ c \in Bucketed =>
           /\ Counted(c).left = buckets.of[c].left
           /\ Counted(c).count = IF buckets.of[c].count > MaxReq[c] THEN buckets.of[c].count
                                 ELSE buckets.of[c].count + 1
      /\ c \notin Bucketed => Counted(c).left = Span /\ Counted(c).count = 1
  BY <1>1 DEF Counted, Bucket
<1>3. /\ MapOf(counted, Clients, Bucket)
      /\ MapKeys(counted) = Bucketed \cup {c}
      /\ counted.of[c] = Counted(c)
      /\ \A d \in Bucketed \ {c} : counted.of[d] = buckets.of[d]
  BY <1>1, <1>2, MapSetOf DEF Bucketed
<1>4. /\ MapOf(pruned, Clients, Bucket)
      /\ MapKeys(pruned) \subseteq MapKeys(counted)
      /\ \A d \in MapKeys(pruned) : pruned.of[d] = counted.of[d]
      /\ Cardinality(MapKeys(pruned)) <= MaxBuckets
  <2> HIDE DEF counted
  <2> QED BY <1>1, <1>3, MapNewestOf
<1>5. /\ buckets' = pruned
      /\ given' = [d \in Clients |->
           [left |-> w(d).left, count |-> w(d).count,
            moved |-> w(d).moved \/ d \in MapKeys(counted) \ MapKeys(pruned)]]
  BY Zenon DEF Check
<1>6. /\ w(c).left = IF given[c].left = 0 THEN Span ELSE given[c].left
      /\ w(c).moved = IF given[c].left = 0 THEN given[c].moved /\ c \in Bucketed ELSE given[c].moved
      /\ LET n == IF given[c].left = 0 THEN 0 ELSE given[c].count
         IN w(c).count = IF Counted(c).count <= MaxReq[c] /\ n <= MaxReq[c] THEN n + 1 ELSE n
  BY DEF Given, Allowed
<1>7. \A d \in Clients : w(d).left \in 0 .. Span /\ w(d).count \in Nat /\ w(d).moved \in BOOLEAN
  <2> HIDE DEF w
  <2>1. w(c).left \in 0 .. Span /\ w(c).count \in Nat
    BY <1>1, <1>6
  <2>2. w(c).moved \in BOOLEAN
    BY <1>1, <1>6, Zenon
  <2>3. \A d \in Clients \ {c} : w(d) = given[d]
    BY DEF w
  <2> QED BY <1>1, <2>1, <2>2, <2>3
<1> HIDE DEF counted, pruned, w
<1>8. LimiterTypeOK'
  <2>1. given' \in [Clients -> Granted]
    BY <1>5, <1>7 DEF Granted
  <2> QED BY <1>4, <1>5, <2>1 DEF LimiterTypeOK
<1>9. ASSUME NEW d \in Clients, ~given'[d].moved
      PROVE  IF given'[d].left = 0 THEN d \notin MapKeys(pruned) /\ given'[d].count = 0
             ELSE /\ d \in MapKeys(pruned)
                  /\ given'[d].left = pruned.of[d].left
                  /\ given'[d].count <= pruned.of[d].count
                  /\ given'[d].count <= MaxReq[d]
  <2>1. /\ given'[d].left = w(d).left /\ given'[d].count = w(d).count
        /\ ~w(d).moved /\ d \notin MapKeys(counted) \ MapKeys(pruned)
    BY <1>5, <1>9
  <2>2. CASE d = c
    <3>1. c \in MapKeys(pruned) /\ pruned.of[c] = Counted(c)
      BY <1>3, <1>4, <2>1, <2>2
    <3>2. CASE given[c].left = 0
      <4>1. c \notin Bucketed
        BY <1>1, <1>6, <2>1, <2>2, <3>2 DEF LimiterIInv, WindowInv
      <4> QED BY <1>1, <1>2, <1>6, <2>1, <2>2, <3>1, <3>2, <4>1
    <3>3. CASE given[c].left # 0
      <4>1. ~given[c].moved
        BY <1>6, <2>1, <2>2, <3>3
      <4>2. /\ c \in Bucketed /\ given[c].left = buckets.of[c].left
            /\ given[c].count <= buckets.of[c].count /\ given[c].count <= MaxReq[c]
        BY <4>1, <3>3 DEF LimiterIInv, WindowInv
      <4> QED BY <1>1, <1>2, <1>6, <2>1, <2>2, <3>1, <3>3, <4>2
    <3> QED BY <3>2, <3>3
  <2>3. CASE d # c
    <3>1. w(d) = given[d]
      BY <2>3 DEF w
    <3>2. d \in MapKeys(pruned) <=> d \in Bucketed
      BY <1>3, <1>4, <2>1, <2>3
    <3>3. d \in MapKeys(pruned) => pruned.of[d] = buckets.of[d]
      BY <1>3, <1>4, <2>3
    <3> QED BY <2>1, <3>1, <3>2, <3>3 DEF LimiterIInv, WindowInv
  <2> QED BY <2>2, <2>3
<1>10. WindowInv'
  BY <1>5, <1>9 DEF WindowInv, Bucketed
<1> QED BY <1>8, <1>10 DEF LimiterIInv

(***************************************************************************)
(* Time passes for the bucket and for the window alike, so both end at the *)
(* same moment: the prune of the next check finds `reset <= now`.          *)
(***************************************************************************)
LEMMA LimiterTickStep ==
  ASSUME LimiterIInv, LimiterTick
  PROVE  LimiterIInv'
<1> DEFINE K == {c \in Bucketed : buckets.of[c].left > 1}
           kept == MapOnly(buckets, K)
           of == [c \in MapKeys(kept) |->
                    [left |-> buckets.of[c].left - 1, count |-> buckets.of[c].count]]
<1>1. /\ MapOf(buckets, Clients, Bucket)
      /\ Cardinality(Bucketed) <= MaxBuckets
      /\ \A d \in Bucketed : buckets.of[d].left \in 1 .. Span /\ buckets.of[d].count \in Nat
      /\ \A d \in Clients : given[d].left \in 0 .. Span /\ given[d].count \in Nat /\ given[d].moved \in BOOLEAN
      /\ Span \in Nat \ {0} /\ MaxBuckets \in Nat
  BY LimiterAssumption DEF LimiterIInv, LimiterTypeOK, MapOf, Bucketed, Bucket, Granted
<1>2. MapOf(kept, Clients, Bucket) /\ MapKeys(kept) = K
  <2>1. MapKeys(buckets) \cap K = K /\ MapOf(buckets, Clients, Bucket)
    BY <1>1 DEF Bucketed
  <2> HIDE DEF K
  <2>2. /\ MapOf(MapOnly(buckets, K), Clients, Bucket)
        /\ MapKeys(MapOnly(buckets, K)) = MapKeys(buckets) \cap K
    BY <2>1, MapOnlyOf
  <2> QED BY <2>1, <2>2
<1>3. buckets' = [kept EXCEPT !.of = of]
  BY DEF LimiterTick
<1>4. /\ given' = [c \in Clients |->
           IF given[c].left <= 1 THEN [left |-> 0, count |-> 0, moved |-> given[c].moved]
           ELSE [left |-> given[c].left - 1, count |-> given[c].count, moved |-> given[c].moved]]
  BY DEF LimiterTick
<1>5. /\ buckets' = [of |-> of, before |-> kept.before]
      /\ buckets'.of = of /\ buckets'.before = kept.before
      /\ MapKeys(buckets') = K
  <2>1. kept = [of |-> kept.of, before |-> kept.before]
    BY <1>2 DEF MapOf
  <2> HIDE DEF kept, K
  <2>2. buckets' = [of |-> of, before |-> kept.before]
    BY <1>3, <2>1
  <2> QED BY <1>2, <2>2 DEF MapKeys
<1>6. of \in [K -> Bucket]
  BY <1>1, <1>2 DEF Bucket
<1>7. MapOf(buckets', Clients, Bucket)
  <2> HIDE DEF kept, K, of
  <2> QED BY <1>2, <1>5, <1>6, MapUpdatedOf
<1>8. Cardinality(K) <= MaxBuckets
  <2>1. /\ K \subseteq Bucketed /\ IsFiniteSet(Bucketed)
    BY <1>1 DEF MapOf, Bucketed
  <2>2. Cardinality(K) <= Cardinality(Bucketed) /\ IsFiniteSet(K)
    BY <2>1, FS_Subset
  <2>3. Cardinality(K) \in Nat /\ Cardinality(Bucketed) \in Nat
    BY <2>1, <2>2, FS_CardinalityType
  <2> QED BY <1>1, <2>2, <2>3
<1>9. LimiterTypeOK'
  <2>1. given' \in [Clients -> Granted]
    BY <1>1, <1>4 DEF Granted
  <2> QED BY <1>5, <1>7, <1>8, <2>1 DEF LimiterTypeOK
<1>10. ASSUME NEW c \in Clients, ~given'[c].moved
       PROVE  IF given'[c].left = 0 THEN c \notin K /\ given'[c].count = 0
              ELSE /\ c \in K
                   /\ given'[c].left = of[c].left
                   /\ given'[c].count <= of[c].count
                   /\ given'[c].count <= MaxReq[c]
  <2>1. ~given[c].moved
    BY <1>4, <1>10
  <2>2. IF given[c].left = 0 THEN c \notin Bucketed /\ given[c].count = 0
        ELSE /\ c \in Bucketed /\ given[c].left = buckets.of[c].left
             /\ given[c].count <= buckets.of[c].count /\ given[c].count <= MaxReq[c]
    BY <2>1 DEF LimiterIInv, WindowInv
  <2>3. CASE given[c].left <= 1
    BY <1>1, <1>4, <2>2, <2>3
  <2>4. CASE given[c].left > 1
    BY <1>1, <1>2, <1>4, <2>2, <2>4
  <2> QED BY <1>1, <2>3, <2>4
<1>11. WindowInv'
  BY <1>5, <1>10 DEF WindowInv, Bucketed
<1> QED BY <1>9, <1>11 DEF LimiterIInv

LEMMA LimiterNextInv == LimiterIInv /\ [LimiterNext]_limiterVars => LimiterIInv'
<1> SUFFICES ASSUME LimiterIInv, [LimiterNext]_limiterVars PROVE LimiterIInv'
  OBVIOUS
<1>1. CASE UNCHANGED limiterVars
  BY <1>1 DEF limiterVars, LimiterIInv, LimiterTypeOK, WindowInv, Bucketed
<1>2. CASE LimiterNext
  BY <1>2, CheckStep, LimiterTickStep DEF LimiterNext
<1> QED BY <1>1, <1>2

(***************************************************************************)
(* The limiter keeps its types, among them the limit on buckets, and the   *)
(* windows of its buckets.                                                 *)
(***************************************************************************)
THEOREM LimiterInvariant == LimiterSpec => []LimiterIInv
BY LimiterInitInv, LimiterNextInv, PTL DEF LimiterSpec

(***************************************************************************)
(* Within one window a client is let through no more often than its        *)
(* maximum (check), unless an eviction made it start another window.       *)
(***************************************************************************)
THEOREM LimiterRateHolds == LimiterSpec => []RateHolds
<1>1. LimiterIInv => RateHolds
  <2> SUFFICES ASSUME LimiterIInv, NEW c \in Clients, ~given[c].moved
               PROVE  ~(given[c].count > MaxReq[c])
    BY DEF RateHolds
  <2> QED BY LimiterAssumption DEF LimiterIInv, LimiterTypeOK, Granted, WindowInv
<1> QED BY <1>1, LimiterInvariant, PTL

-----------------------------------------------------------------------------
(* The write path: only Push and Deliver touch the process; every other    *)
(* step moves one attempt, and AttemptStep deals with what they have in    *)
(* common.                                                                 *)

USE WriteAssumption

\* The write an attempt is for does not change as long as `how` does not.
LEMMA WriteKept ==
  ASSUME UNCHANGED how
  PROVE  \A a : WriteOf(a)' = WriteOf(a)
BY DEF WriteOf

(***************************************************************************)
(* What the invariant says of one attempt, when the gateway stands at g    *)
(* with it, the worker at w, after n pushes, and the caller was told r.    *)
(***************************************************************************)
Stage(a, g, w, n, r) ==
  /\ g \in Gates /\ w \in Works /\ n \in 0 .. Retries /\ r \in Replies
  /\ g \in {"idle", "signing", "calling"} <=> r = "none"
  /\ g \in {"idle", "signing"} => w = "idle"
  /\ r = "refused" => w \in {"idle", "answered"}
  /\ w = "idle" \/ r = "refused" => \A p \in pushed : p.of # a
  /\ w = "idle" => n = 0
  /\ w = "pushing" => n < Retries
  /\ w = "awaiting" => \E p \in pushed : p.of = a /\ p.try = n

\* r is a true answer to the attempt a.
TrueAnswer(a, r) ==
  LET mine == {p \in pushed : WriteOf(p.of) = WriteOf(a)} IN
    /\ r = "done" => mine \cap applied # {}
    /\ r = "accepted" => mine \cap (applied \cup declined) # {}
    /\ r = "declined" => mine \cap applied = {} /\ mine \cap declined # {}
    /\ r = "refused" => \A p \in pushed : p.of # a

\* The invariant holds of every attempt.
LEMMA AttemptHas ==
  ASSUME WriteIInv, NEW a \in Attempts
  PROVE  Stage(a, gate[a], work[a], tries[a], told[a]) /\ TrueAnswer(a, told[a])
BY DEF WriteIInv, WriteTypeOK, StageInv, AnswerIsTrue, Stage, TrueAnswer

(***************************************************************************)
(* A step that moves one attempt, to where the invariant holds of it, and  *)
(* leaves the others and the process alone, keeps the invariant.           *)
(***************************************************************************)
LEMMA AttemptStep ==
  ASSUME WriteIInv, NEW a \in Attempts,
         NEW g, NEW w, NEW r,
         gate' = [gate EXCEPT ![a] = g],
         work' = [work EXCEPT ![a] = w],
         told' = [told EXCEPT ![a] = r],
         UNCHANGED <<how, tries, Process>>,
         Stage(a, g, w, tries[a], r), TrueAnswer(a, r)
  PROVE  WriteIInv'
<1>1. UNCHANGED <<pushed, applied, declined, repeated>>
  BY DEF Process
<1>2. ASSUME NEW b \in Attempts
      PROVE  /\ gate'[b] = IF b = a THEN g ELSE gate[b]
             /\ work'[b] = IF b = a THEN w ELSE work[b]
             /\ told'[b] = IF b = a THEN r ELSE told[b]
  BY DEF WriteIInv, WriteTypeOK
<1>3. ASSUME NEW b \in Attempts
      PROVE  Stage(b, gate'[b], work'[b], tries'[b], told'[b]) /\ TrueAnswer(b, told'[b])
  BY <1>2, AttemptHas
<1>4. WriteTypeOK'
  BY <1>1, <1>3 DEF WriteIInv, WriteTypeOK, Stage
<1>5. StageInv'
  BY <1>1, <1>3 DEF StageInv, Stage
<1>6. ProcessInv' /\ AppliedOnce'
  BY <1>1, WriteKept DEF WriteIInv, ProcessInv, AppliedOnce, Known
<1>7. AnswerIsTrue'
  BY <1>1, <1>3, WriteKept DEF AnswerIsTrue, TrueAnswer
<1> QED BY <1>4, <1>5, <1>6, <1>7 DEF WriteIInv

\* A true answer to refuse with: nothing was pushed for the attempt.
LEMMA RefusalTrue ==
  ASSUME WriteIInv, NEW a \in Attempts, work[a] = "idle"
  PROVE  TrueAnswer(a, "refused")
BY AttemptHas DEF Stage, TrueAnswer

\* Before the worker: what the gateway may do with an attempt.
LEMMA GatewayStep ==
  ASSUME WriteIInv, NEW a \in Attempts,
         GateRefuses(a) \/ Enter(a) \/ SignRefused(a) \/ Signed(a) \/ CallLost(a)
  PROVE  WriteIInv'
<1>1. /\ gate \in [Attempts -> Gates] /\ work = [work EXCEPT ![a] = work[a]]
      /\ told = [told EXCEPT ![a] = told[a]]
  BY DEF WriteIInv, WriteTypeOK
<1>2. Stage(a, gate[a], work[a], tries[a], told[a])
  BY AttemptHas
<1>3. CASE GateRefuses(a) \/ SignRefused(a)
  <2>1. /\ work[a] = "idle"
        /\ gate' = [gate EXCEPT ![a] = "answered"] /\ told' = [told EXCEPT ![a] = "refused"]
        /\ UNCHANGED <<how, work, tries, Process>>
    BY <1>2, <1>3 DEF GateRefuses, SignRefused, Answer, Stage
  <2>2. Stage(a, "answered", work[a], tries[a], "refused")
    BY <1>2, <2>1 DEF Stage, Gates, Replies
  <2> QED BY <1>1, <2>1, <2>2, RefusalTrue, AttemptStep
<1>4. CASE Enter(a) \/ Signed(a)
  <2>1. PICK g \in {"signing", "calling"} :
          /\ gate[a] \in {"idle", "signing"}
          /\ gate' = [gate EXCEPT ![a] = g]
          /\ UNCHANGED <<how, work, tries, told, Process>>
    BY <1>4 DEF Enter, Signed
  <2>2. Stage(a, g, work[a], tries[a], told[a])
    BY <1>2, <2>1 DEF Stage, Gates
  <2> QED BY <1>1, <2>1, <2>2, AttemptHas, AttemptStep
<1>5. CASE CallLost(a)
  <2>1. /\ gate[a] = "calling"
        /\ gate' = [gate EXCEPT ![a] = "answered"] /\ told' = [told EXCEPT ![a] = "unknown"]
        /\ UNCHANGED <<how, work, tries, Process>>
    BY <1>5 DEF CallLost, Answer
  <2>2. Stage(a, "answered", work[a], tries[a], "unknown") /\ TrueAnswer(a, "unknown")
    BY <1>2, <2>1 DEF Stage, Gates, Replies, TrueAnswer
  <2> QED BY <1>1, <2>1, <2>2, AttemptStep
<1> QED BY <1>3, <1>4, <1>5

(***************************************************************************)
(* The worker answers r, which is true, to an attempt it has taken up or   *)
(* is asked to: the invariant holds, whether or not the caller learns it.  *)
(***************************************************************************)
LEMMA AnsweredStep ==
  ASSUME WriteIInv, NEW a \in Attempts, NEW r \in Replies \ {"none"},
         gate[a] = "calling" \/ gate[a] = "answered",
         r = "refused" => work[a] = "idle",
         TrueAnswer(a, r),
         Answered(a, r),
         UNCHANGED <<how, tries, Process>>
  PROVE  WriteIInv'
<1>1. Stage(a, gate[a], work[a], tries[a], told[a]) /\ TrueAnswer(a, told[a])
  BY AttemptHas
<1>2. /\ gate = [gate EXCEPT ![a] = gate[a]] /\ told = [told EXCEPT ![a] = told[a]]
  BY DEF WriteIInv, WriteTypeOK
<1>3. work' = [work EXCEPT ![a] = "answered"]
  BY DEF Answered
<1>4. CASE gate[a] = "calling"
  <2>1. gate' = [gate EXCEPT ![a] = "answered"] /\ told' = [told EXCEPT ![a] = r]
    BY <1>4 DEF Answered, Answer
  <2>2. Stage(a, "answered", "answered", tries[a], r)
    BY <1>1, <1>4 DEF Stage, Gates, Works
  <2> QED BY <1>3, <2>1, <2>2, AttemptStep
<1>5. CASE gate[a] = "answered"
  <2>1. UNCHANGED <<gate, told>>
    BY <1>5 DEF Answered
  <2>2. Stage(a, gate[a], "answered", tries[a], told[a])
    BY <1>1, <1>5 DEF Stage, Works
  <2> QED BY <1>1, <1>2, <1>3, <2>1, <2>2, AttemptStep
<1> QED BY <1>4, <1>5

\* The worker refuses a call that has arrived, or takes it up.
LEMMA RouteStep ==
  ASSUME WriteIInv, NEW a \in Attempts, RouteRefuses(a) \/ RouteAccepts(a)
  PROVE  WriteIInv'
<1>1. Stage(a, gate[a], work[a], tries[a], told[a]) /\ TrueAnswer(a, told[a])
  BY AttemptHas
<1>2. work[a] = "idle" /\ gate[a] \in {"calling", "answered"} /\ told[a] # "refused"
  BY <1>1 DEF RouteRefuses, RouteAccepts, Arrives, Stage, Gates
<1>3. CASE RouteRefuses(a)
  <2>1. Answered(a, "refused") /\ UNCHANGED <<how, tries, Process>>
    BY <1>3 DEF RouteRefuses
  <2>2. "refused" \in Replies \ {"none"}
    BY DEF Replies
  <2> QED BY <1>2, <2>1, <2>2, RefusalTrue, AnsweredStep
<1>4. CASE RouteAccepts(a)
  <2>1. work' = [work EXCEPT ![a] = "pushing"] /\ UNCHANGED <<how, gate, tries, told, Process>>
    BY <1>4 DEF RouteAccepts
  <2>2. gate = [gate EXCEPT ![a] = gate[a]] /\ told = [told EXCEPT ![a] = told[a]]
    BY DEF WriteIInv, WriteTypeOK
  <2>3. Stage(a, gate[a], "pushing", tries[a], told[a])
    BY <1>1, <1>2 DEF Stage, Works
  <2> QED BY <1>1, <2>1, <2>2, <2>3, AttemptStep
<1> QED BY <1>3, <1>4

(***************************************************************************)
(* A push adds its command.  What was pushed before for another attempt    *)
(* stays, and nobody has been told of this one.                            *)
(***************************************************************************)
LEMMA PushStep ==
  ASSUME WriteIInv, NEW a \in Attempts, Push(a)
  PROVE  WriteIInv'
<1> DEFINE p == Command(a)
<1>1. /\ work[a] = "pushing"
      /\ pushed' = pushed \cup {p}
      /\ tries' = [tries EXCEPT ![a] = @ + 1]
      /\ work' = [work EXCEPT ![a] = "awaiting"]
      /\ UNCHANGED <<how, gate, told, applied, declined, repeated>>
  BY DEF Push
<1>2. p.of = a /\ p.id = WriteOf(a) /\ p.try = tries[a] + 1
  BY DEF Command, RequestId
<1> HIDE DEF p
<1>3. Stage(a, gate[a], "pushing", tries[a], told[a])
  BY <1>1, AttemptHas
<1>4. tries[a] \in Nat /\ tries[a] + 1 \in 1 .. Retries /\ told[a] # "refused"
  BY <1>3 DEF Stage
<1>5. /\ gate[a] \in Gates /\ told[a] \in Replies
      /\ gate[a] \in {"idle", "signing", "calling"} <=> told[a] = "none"
      /\ gate[a] \notin {"idle", "signing"}
  BY <1>3 DEF Stage
<1>6. ASSUME NEW b \in Attempts
      PROVE  Stage(b, gate[b], work[b], tries[b], told[b])' /\ TrueAnswer(b, told[b])'
  <2>1. CASE b = a
    <3>1. work'[a] = "awaiting" /\ tries'[a] = tries[a] + 1
      BY <1>1 DEF WriteIInv, WriteTypeOK
    <3>2. \E q \in pushed' : q.of = a /\ q.try = tries[a] + 1
      BY <1>1, <1>2
    <3>3. Stage(b, gate[b], work[b], tries[b], told[b])'
      BY <1>1, <1>4, <1>5, <2>1, <3>1, <3>2 DEF Stage, Works
    <3>4. TrueAnswer(a, told[a])
      BY AttemptHas
    <3>5. TrueAnswer(b, told[b])'
      BY <1>1, <1>4, <2>1, <3>4, WriteKept DEF WriteIInv, WriteTypeOK, TrueAnswer
    <3> QED BY <3>3, <3>5
  <2>2. CASE b # a
    <3>1. Stage(b, gate[b], work[b], tries[b], told[b]) /\ TrueAnswer(b, told[b])
      BY AttemptHas
    <3>2. work'[b] = work[b] /\ tries'[b] = tries[b]
      BY <1>1, <2>2 DEF WriteIInv, WriteTypeOK
    <3>3. Stage(b, gate[b], work[b], tries[b], told[b])'
      BY <1>1, <1>2, <2>2, <3>1, <3>2 DEF Stage
    <3>4. TrueAnswer(b, told[b])'
      BY <1>1, <1>2, <2>2, <3>1, WriteKept DEF WriteIInv, WriteTypeOK, TrueAnswer
    <3> QED BY <3>3, <3>4
  <2> QED BY <2>1, <2>2
<1>7. WriteTypeOK'
  BY <1>1, <1>2, <1>4, <1>6 DEF WriteIInv, WriteTypeOK, Stage
<1>8. StageInv'
  BY <1>1, <1>6 DEF StageInv, Stage
<1>9. ProcessInv' /\ AppliedOnce'
  BY <1>1, <1>2, WriteKept DEF WriteIInv, ProcessInv, AppliedOnce, Known
<1>10. AnswerIsTrue'
  BY <1>1, <1>6 DEF AnswerIsTrue, TrueAnswer
<1> QED BY <1>7, <1>8, <1>9, <1>10 DEF WriteIInv

(***************************************************************************)
(* What a delivered push has come to: its write is applied or declined,    *)
(* and not both.                                                           *)
(***************************************************************************)
LEMMA DeliveredDecided ==
  ASSUME WriteIInv, NEW p \in pushed, Delivered(p)
  PROVE  /\ \E q \in applied \cup declined : WriteOf(q.of) = WriteOf(p.of)
         /\ Known(p.id, applied) => \E q \in applied : WriteOf(q.of) = WriteOf(p.of)
         /\ ~Known(p.id, applied) =>
              /\ \A q \in applied : WriteOf(q.of) # WriteOf(p.of)
              /\ \E q \in declined : WriteOf(q.of) = WriteOf(p.of)
<1>1. /\ applied \subseteq pushed /\ declined \subseteq pushed
      /\ \A q \in pushed : q.id = WriteOf(q.of)
  BY DEF WriteIInv, WriteTypeOK, ProcessInv
<1>2. Known(p.id, applied \cup declined)
  BY DEF Delivered, Known, WriteIInv, ProcessInv
<1> QED BY <1>1, <1>2 DEF Known

\* The worker reads the result of a push, or gives up or repeats it.
LEMMA AwaitStep ==
  ASSUME WriteIInv, NEW a \in Attempts, ResultRead(a) \/ PushFails(a)
  PROVE  WriteIInv'
<1>1. work[a] = "awaiting" /\ UNCHANGED <<how, tries, Process>>
  BY DEF ResultRead, PushFails
<1>2. Stage(a, gate[a], "awaiting", tries[a], told[a]) /\ TrueAnswer(a, told[a])
  BY <1>1, AttemptHas
<1>3. gate[a] = "calling" \/ gate[a] = "answered"
  BY <1>2 DEF Stage, Gates
<1>4. CASE ResultRead(a)
  <2> DEFINE p == Current(a)
  <2>1. p \in pushed /\ p.of = a
    BY <1>2 DEF Stage, Current
  <2>2. PICK r : /\ r \in {"done", "accepted", "declined"}
                 /\ r = "done" => Known(p.id, applied)
                 /\ r = "declined" => ~Known(p.id, applied)
                 /\ Answered(a, r)
                 /\ Delivered(p)
    BY <1>4 DEF ResultRead
  <2> HIDE DEF p
  <2>3. /\ applied \subseteq pushed /\ declined \subseteq pushed
    BY DEF WriteIInv, WriteTypeOK
  <2>4. TrueAnswer(a, r)
    BY <2>1, <2>2, <2>3, DeliveredDecided DEF TrueAnswer
  <2>5. r \in Replies \ {"none"} /\ r # "refused"
    BY <2>2 DEF Replies
  <2> QED BY <1>1, <1>3, <2>2, <2>4, <2>5, AnsweredStep
<1>5. CASE PushFails(a) /\ TriesLeft(a)
  <2>1. work' = [work EXCEPT ![a] = "pushing"] /\ UNCHANGED <<gate, told>>
    BY <1>5 DEF PushFails
  <2>2. gate = [gate EXCEPT ![a] = gate[a]] /\ told = [told EXCEPT ![a] = told[a]]
    BY DEF WriteIInv, WriteTypeOK
  <2>3. Stage(a, gate[a], "pushing", tries[a], told[a])
    BY <1>2, <1>3, <1>5 DEF Stage, Works, TriesLeft
  <2> QED BY <1>1, <1>2, <2>1, <2>2, <2>3, AttemptStep
<1>6. CASE PushFails(a) /\ ~TriesLeft(a)
  <2>1. Answered(a, "failed")
    BY <1>6 DEF PushFails, LastFailure
  <2>2. TrueAnswer(a, "failed") /\ "failed" \in Replies \ {"none"}
    BY DEF TrueAnswer, Replies
  <2> QED BY <1>1, <1>3, <2>1, <2>2, AnsweredStep
<1> QED BY <1>4, <1>5, <1>6

(***************************************************************************)
(* A push reaches the process.  The process knows its id, and changes      *)
(* nothing, or decides it; no write is decided twice, so what callers were *)
(* told of it before stays true.                                           *)
(***************************************************************************)
LEMMA DeliverStep ==
  ASSUME WriteIInv, NEW p \in pushed, Deliver(p)
  PROVE  WriteIInv'
<1>1. UNCHANGED <<how, gate, work, tries, told, pushed>>
  BY DEF Deliver
<1>2. /\ applied \subseteq pushed /\ declined \subseteq pushed /\ repeated \subseteq pushed
      /\ \A q \in pushed : q.id = WriteOf(q.of)
  BY DEF WriteIInv, WriteTypeOK, ProcessInv
<1>3. /\ applied \subseteq applied' /\ declined \subseteq declined'
      /\ repeated \subseteq repeated'
      /\ applied' \cup declined' \cup repeated' \subseteq applied \cup declined \cup repeated \cup {p}
  BY DEF Deliver
<1>4. \/ applied' = applied /\ declined' = declined
      \/ /\ ~Known(p.id, applied \cup declined)
         /\ \/ applied' = applied \cup {p} /\ declined' = declined
            \/ declined' = declined \cup {p} /\ applied' = applied
  BY DEF Deliver
<1>5. WriteTypeOK'
  BY <1>1, <1>2, <1>3 DEF WriteIInv, WriteTypeOK
<1>6. StageInv'
  BY <1>1 DEF WriteIInv, StageInv
<1>7. ProcessInv'
  <2>1. ASSUME NEW q \in repeated' PROVE Known(q.id, applied \cup declined)'
    <3>1. CASE q \in repeated
      BY <1>3, <3>1 DEF WriteIInv, ProcessInv, Known
    <3>2. CASE q \notin repeated
      BY <3>2 DEF Deliver, Known
    <3> QED BY <3>1, <3>2
  <2>2. ASSUME NEW q \in applied', NEW r \in declined' PROVE q.id # r.id
    BY <1>4 DEF WriteIInv, ProcessInv, Known
  <2> QED BY <1>1, <1>2, <2>1, <2>2, WriteKept DEF ProcessInv
<1>8. AppliedOnce'
  <2>1. SUFFICES ASSUME NEW q \in applied', NEW r \in applied', WriteOf(q.of) = WriteOf(r.of)
                 PROVE  q = r
    BY <1>1, WriteKept DEF AppliedOnce
  <2>2. q.id = r.id
    BY <1>2, <1>4, <2>1
  <2> QED BY <1>4, <2>1, <2>2 DEF WriteIInv, AppliedOnce, Known
<1>9. AnswerIsTrue'
  <2>1. SUFFICES ASSUME NEW a \in Attempts PROVE TrueAnswer(a, told[a])'
    BY DEF AnswerIsTrue, TrueAnswer
  <2>2. TrueAnswer(a, told[a])
    BY AttemptHas
  <2>3. told[a] = "declined" => {q \in pushed : WriteOf(q.of) = WriteOf(a)} \cap applied' = {}
    <3>1. SUFFICES ASSUME told[a] = "declined", NEW q \in applied', WriteOf(q.of) = WriteOf(a)
                   PROVE  FALSE
      OBVIOUS
    <3>2. PICK r \in declined : WriteOf(r.of) = WriteOf(a)
      BY <2>2, <3>1 DEF TrueAnswer
    <3>3. q \notin applied
      BY <1>2, <2>2, <3>1 DEF TrueAnswer
    <3>4. q = p /\ p.id = r.id
      BY <1>2, <1>4, <3>1, <3>2, <3>3
    <3> QED BY <1>4, <3>1, <3>3, <3>4 DEF Known
  <2> QED BY <1>1, <1>3, <2>2, <2>3, WriteKept DEF TrueAnswer
<1> QED BY <1>5, <1>6, <1>7, <1>8, <1>9 DEF WriteIInv

\* Nothing has been attempted: the invariant holds.
LEMMA WriteInitInv == WriteInit => WriteIInv
BY DEF WriteInit, WriteIInv, WriteTypeOK, StageInv, ProcessInv, AppliedOnce, AnswerIsTrue,
       Gates, Works, Replies

\* Every step keeps the invariant.
LEMMA WriteNextInv == WriteIInv /\ [WriteNext]_writeVars => WriteIInv'
<1> SUFFICES ASSUME WriteIInv, [WriteNext]_writeVars PROVE WriteIInv'
  OBVIOUS
<1>1. ASSUME NEW a \in Attempts,
             GateRefuses(a) \/ Enter(a) \/ SignRefused(a) \/ Signed(a) \/ CallLost(a)
      PROVE  WriteIInv'
  BY <1>1, GatewayStep
<1>2. ASSUME NEW a \in Attempts, RouteRefuses(a) \/ RouteAccepts(a) PROVE WriteIInv'
  BY <1>2, RouteStep
<1>3. ASSUME NEW a \in Attempts, Push(a) PROVE WriteIInv'
  BY <1>3, PushStep
<1>4. ASSUME NEW a \in Attempts, ResultRead(a) \/ PushFails(a) PROVE WriteIInv'
  BY <1>4, AwaitStep
<1>5. ASSUME NEW p \in pushed, Deliver(p) PROVE WriteIInv'
  BY <1>5, DeliverStep
<1>6. CASE UNCHANGED writeVars
  <2>1. UNCHANGED <<how, gate, work, tries, told, pushed, applied, declined, repeated>>
    BY <1>6 DEF writeVars
  <2> QED BY <2>1, WriteKept
          DEF WriteIInv, WriteTypeOK, StageInv, ProcessInv, AppliedOnce, AnswerIsTrue, Known
<1> QED BY <1>1, <1>2, <1>3, <1>4, <1>5, <1>6 DEF WriteNext

-----------------------------------------------------------------------------
(***************************************************************************)
(* The types, the stages of an attempt, the process and the two properties *)
(* are one inductive invariant.                                            *)
(***************************************************************************)
THEOREM WriteInvariant == WriteSpec => []WriteIInv
<1>1. WriteInit => WriteIInv
  BY WriteInitInv
<1>2. WriteIInv /\ [WriteNext]_writeVars => WriteIInv'
  BY WriteNextInv
<1> QED BY <1>1, <1>2, PTL DEF WriteSpec

(***************************************************************************)
(* However often the caller and the worker repeat a write (callWrite of    *)
(* the worker pushes a command up to GATEWAY_WRITE_RETRIES times), and     *)
(* whenever abandoned pushes arrive, it changes the process once.          *)
(***************************************************************************)
THEOREM WriteAppliedOnce == WriteSpec => []AppliedOnce
<1>1. WriteIInv => AppliedOnce
  BY DEF WriteIInv
<1> QED BY <1>1, WriteInvariant, PTL

(***************************************************************************)
(* What the caller is told of a write is so at the process, and stays so.  *)
(***************************************************************************)
THEOREM WriteAnswerIsTrue == WriteSpec => []AnswerIsTrue
<1>1. WriteIInv => AnswerIsTrue
  BY DEF WriteIInv
<1> QED BY <1>1, WriteInvariant, PTL

-----------------------------------------------------------------------------
(* The components of the gateway side by side.                             *)

(***************************************************************************)
(* Side by side as they run, every component of the gateway, the response  *)
(* cache among them, is in a state of its type: buckets and memories stay  *)
(* within their capacity, a session has one status, a push one stage.      *)
(***************************************************************************)
THEOREM GatewayTypes == GatewaySpec => []GatewayTypeOK
<1> DEFINE Inv == /\ TypeOK /\ FrontIInv /\ LimiterIInv /\ SessionIInv
                  /\ WriteIInv /\ ResolverIInv
           allVars == <<part, vars, frontVars, limiterVars, sessionVars, writeVars, resolverVars>>
<1>1. GatewayInit => Inv
  BY InitType, FrontInitInv, LimiterInitInv, SessionStarts, WriteInitInv, ResolverInitInv
     DEF GatewayInit
<1>2. Inv /\ [GatewayNext]_allVars => Inv'
  <2>1. [GatewayNext]_allVars
          => /\ [Next]_vars /\ [FrontNext]_frontVars /\ [LimiterNext]_limiterVars
             /\ [SessionNext]_sessionVars /\ [WriteNext]_writeVars
             /\ [ResolverNext]_resolverVars
    BY DEF GatewayNext
  <2> HIDE DEF Inv, allVars
  <2> QED BY <2>1, StepType, FrontNextInv, LimiterNextInv, SessionNextInv, WriteNextInv,
             ResolverNextInv DEF Inv
<1>3. Inv => GatewayTypeOK
  BY DEF GatewayTypeOK, FrontIInv, LimiterIInv, SessionIInv, WriteIInv, ResolverIInv
<1> QED BY <1>1, <1>2, <1>3, PTL DEF GatewaySpec
=============================================================================
