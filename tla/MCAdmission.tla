---------------------------- MODULE MCAdmission -----------------------------
(***************************************************************************)
(* What is let in: events of payment providers by the ingress, releases by *)
(* the closeout, new subjects of a client by the secrets worker.  They     *)
(* share no state and stand side by side in one run: a behaviour chooses   *)
(* one of them and steps it, and the others stay as they start.            *)
(***************************************************************************)
EXTENDS MCWebhookIngress, ReleaseDrill, SubjectSpray

CONSTANTS v1, v2   \* releases

VARIABLE part

AdmissionInit ==
  /\ part \in {"ingress", "drill", "spray"}
  /\ MCInit /\ (part # "ingress" => focus = "replay")
  /\ DrillInit /\ (part # "drill" => gate = [state |-> "open", release |-> v1])
  /\ SprayInit

AdmissionNext ==
  /\ UNCHANGED part
  /\ \/ /\ part = "ingress"
        /\ UNCHANGED <<drillVars, sprayVars>>
        /\ MCNext
     \/ /\ part = "drill"
        /\ UNCHANGED <<vars, focus, sprayVars>>
        /\ DrillNext
     \/ /\ part = "spray"
        /\ UNCHANGED <<vars, focus, drillVars>>
        /\ SprayNext

AdmissionSpec == AdmissionInit /\ [][AdmissionNext]_<<part, vars, focus, drillVars, sprayVars>>

(***************************************************************************)
(* The state of each has its type: what their code may leave in the stores *)
(* of event ids, in KV, in the requests in flight and in the directory.    *)
(***************************************************************************)
AdmissionTypeOK == TypeOK /\ DrillTypeOK /\ SprayTypeOK
=============================================================================
