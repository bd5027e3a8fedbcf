------------------------- MODULE MCIntegrityPolicy -------------------------
(***************************************************************************)
(* Small instances of IntegrityPolicy, with the cache routes, for TLC.     *)
(* The whole of it at once is too large: a behaviour has one focus, chosen *)
(* at the start, and takes only the steps that bear on it.                 *)
(***************************************************************************)
EXTENDS CacheGate, TLC

CONSTANTS r1, r2, i1, i2, Focuses

VARIABLE focus

MCRequests == {r1, r2}
MCIds == {i1, i2}
MCLimits == {1, Unset, Invalid}

\* Decisions: mutations, the checkpoint file and every limit.  Reports: incident
\* ids.  Freezes: what operators pause and resume, without ids.  Routes: what is
\* put into the cache and erased, while operators pause.  Where AO's own pauses
\* matter, what it publishes next is one.
KindsIn(f) ==
  CASE f = "decisions" -> {"mutate"}
    [] f = "reports"   -> {"report"}
    [] f = "freezes"   -> {"pause", "resume", "mutate"}
    [] f = "routes"    -> {"pause", "mutate"}

InFocus ==
  /\ \A r \in Requests :
       req[r].pc # "idle" => /\ req[r].kind \in KindsIn(focus)
                             /\ focus \in {"freezes", "routes"} => req[r].id = NoId
  /\ focus # "decisions" => /\ maxAge = Unset
                            /\ file.status = "none"
                            /\ IF focus = "routes" THEN now < MaxTime ELSE Len(ledger) = 1
  /\ focus \in {"decisions", "routes"} =>
       \A n \in DOMAIN ledger : ledger[n].paused = (focus = "decisions" /\ n > 1)

MCInit == Init /\ Cache!CInit /\ focus \in Focuses /\ InFocus

MCNext ==
  /\ UNCHANGED focus
  /\ IF focus = "routes" THEN GateNext ELSE Next /\ UNCHANGED gateVars
  /\ InFocus'

MCSpec == MCInit /\ [][MCNext]_<<vars, gateVars, focus>>

MCSymmetry == Permutations(MCRequests) \cup Permutations(MCIds)
=============================================================================
