-------------------------- MODULE RefreshSchedule --------------------------
(***************************************************************************)
(* The scheduled refresh of the async worker                               *)
(* (workers/async-worker/src/index.ts): a cron run refreshes the domains   *)
(* of REFRESH_DOMAINS one after the other, from the first up to            *)
(* REFRESH_BATCH_LIMIT.  A refresh that fails is counted and the next one  *)
(* follows.  A run is evicted wherever it is, and the next one starts from *)
(* the first again; a run does not wait for the one before it.             *)
(***************************************************************************)
EXTENDS Integers, Sequences, SequencesExt

CONSTANTS
  Runs,        \* runs that may overlap
  Listed,      \* REFRESH_DOMAINS, as csvList gives it: without duplicates
  BatchLimit   \* REFRESH_BATCH_LIMIT

ASSUME ScheduleAssumption ==
  BatchLimit \in Nat \ {0} /\ Listed \in Seq(ToSet(Listed)) /\ IsInjective(Listed)

VARIABLES
  at,        \* run |-> which of the selected it is refreshing, 0 when it is idle
  refreshed  \* the domain whose refresh has ended last, well or not, if any

scheduleVars == <<at, refreshed>>

NoDomain == "none"

\* requests.slice(0, limit).
Selected == SubSeq(Listed, 1, IF Len(Listed) < BatchLimit THEN Len(Listed) ELSE BatchLimit)

ScheduleTypeOK ==
  /\ at \in [Runs -> 0 .. Len(Selected)]
  /\ refreshed \in ToSet(Selected) \cup {NoDomain}

ScheduleInit == at = [r \in Runs |-> 0] /\ refreshed = NoDomain

\* The cron trigger.
Cron(r) ==
  /\ at[r] = 0
  /\ Selected # <<>>
  /\ at' = [at EXCEPT ![r] = 1]
  /\ UNCHANGED refreshed

\* Mutant of Ended: a refresh that fails ends the run.
EndedOrAborted(r, ok) ==
  IF ok /\ at[r] < Len(Selected) THEN at[r] + 1 ELSE 0

\* Where the run goes from here: the outcome of the refresh does not matter.
Ended(r, ok) == IF at[r] < Len(Selected) THEN at[r] + 1 ELSE 0

RefreshEnds(r, ok) ==
  /\ at[r] # 0
  /\ at' = [at EXCEPT ![r] = Ended(r, ok)]
  /\ refreshed' = Selected[at[r]]

Evicted(r) ==
  /\ at[r] # 0
  /\ at' = [at EXCEPT ![r] = 0]
  /\ UNCHANGED refreshed

ScheduleNext ==
  \E r \in Runs :
    \/ Cron(r)
    \/ \E ok \in BOOLEAN : RefreshEnds(r, ok)
    \/ Evicted(r)

\* The cron trigger fires again and again.  A refresh ends, since what it awaits
\* times out, and no domain is always the one at which the run is evicted.
\* Nothing says that any refresh succeeds.
ScheduleFairness ==
  \E r \in Runs :
    /\ WF_scheduleVars(Cron(r))
    /\ \A n \in DOMAIN Selected :
         SF_scheduleVars(at[r] = n /\ \E ok \in BOOLEAN : RefreshEnds(r, ok))

ScheduleSpec == ScheduleInit /\ [][ScheduleNext]_scheduleVars /\ ScheduleFairness

-----------------------------------------------------------------------------

(***************************************************************************)
(* Every domain among the first REFRESH_BATCH_LIMIT of the list is         *)
(* refreshed again and again, whichever refreshes fail, wherever runs are  *)
(* evicted and overlap.  The domains after those never are.                *)
(***************************************************************************)
RefreshedForever == \A n \in DOMAIN Selected : []<>(refreshed = Selected[n])
=============================================================================
