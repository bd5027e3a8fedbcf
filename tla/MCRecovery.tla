----------------------------- MODULE MCRecovery -----------------------------
(***************************************************************************)
(* The components that retry, give up, wait and recover, side by side in   *)
(* one run: a behaviour chooses one of them and steps it, under its own    *)
(* fairness, and the others stay as they start.                            *)
(***************************************************************************)
EXTENDS Notify, MailQueue, RefreshSchedule

VARIABLE part

Parts == {"notify", "mail", "schedule"}

\* Three places for four domains.
MCListed == <<"a", "b", "c", "d">>

recoveryVars == <<part, notifyVars, mailVars, scheduleVars>>

RecoveryInit ==
  part \in Parts /\ NotifyInit /\ MailInit /\ ScheduleInit

RecoveryNext ==
  /\ UNCHANGED part
  /\ \/ /\ part = "notify"
        /\ UNCHANGED <<mailVars, scheduleVars>>
        /\ NotifyNext
     \/ /\ part = "mail"
        /\ UNCHANGED <<notifyVars, scheduleVars>>
        /\ MailNext
     \/ /\ part = "schedule"
        /\ UNCHANGED <<notifyVars, mailVars>>
        /\ ScheduleNext

\* Only the schedule has fair steps to take where it starts.
RecoverySpec ==
  /\ RecoveryInit
  /\ [][RecoveryNext]_recoveryVars
  /\ NotifyFairness
  /\ MailFairness
  /\ part = "schedule" => ScheduleFairness

(***************************************************************************)
(* The state of every component has its type: what its code may leave in   *)
(* KV, in the queue and in the requests.                                   *)
(***************************************************************************)
RecoveryTypeOK == NotifyTypeOK /\ MailTypeOK /\ ScheduleTypeOK

(***************************************************************************)
(* The schedule, where it runs, refreshes every domain it selects forever  *)
(* (runRefreshBatch).                                                      *)
(***************************************************************************)
ScheduledForever == part = "schedule" => RefreshedForever
=============================================================================
