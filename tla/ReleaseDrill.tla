---------------------------- MODULE ReleaseDrill ----------------------------
(***************************************************************************)
(* The evidence of a release (scripts/run-release-drill.js,                *)
(* scripts/bootstrap-prelive-decommission-artifacts.js and the scripts     *)
(* they run): one directory, filled step by step by a live drill or by a   *)
(* prelive bootstrap that any step may end, next to the AO gate that       *)
(* operators edit and the checks they run by hand; and the closeout        *)
(* (scripts/run-decommission-closeout.js), which reads it all meanwhile.   *)
(*                                                                         *)
(* A file is Absent or holds what later steps read of it.  The files one   *)
(* step writes, and those a later step treats alike, are one:  reports     *)
(* stands for the consistency reports and the evidence bundle, legacy for  *)
(* the two legacy checks, maps for the three template maps that enter the  *)
(* pack.  A script reads the directory at once.  MaxRuns bounds the runs,  *)
(* MaxEdits what operators do by hand.                                     *)
(***************************************************************************)
EXTENDS Integers, FiniteSets, Sequences

CONSTANTS
  Absent,                                          \* no such file
  Releases, MaxRuns, MaxEdits

ASSUME AbsentAssumption ==
  Absent \notin {"pass", "own", "warn", "fail"} /\ Absent \notin [release : Releases, ready : BOOLEAN]

VARIABLES
  dir,       \* file -> its content
  gate,      \* the AO dependency gate
  run,       \* the run under way, or the last one if it got through
  closeout,  \* the closeout under way, or its result
  passed,    \* history: releases whose run got through the artifact check
  spent      \* history: runs, edits by hand, whether one was since the run began

drillVars == <<dir, gate, run, closeout, passed, spent>>

-----------------------------------------------------------------------------
(* The files and the steps.                                                *)

DrillSteps ==
  << "reports", "gateText", "legacy", "maps", "variants", "checks", "pack", "checklist",
     "readiness", "manifest", "validation", "check", "ledger" >>

PreliveSteps ==
  << "reports", "variants", "gateText", "pack", "checklist", "readiness", "checks",
     "manifest", "validation", "check", "ledger" >>

Steps == [drill |-> DrillSteps, prelive |-> PreliveSteps]

Files == {DrillSteps[i] : i \in DOMAIN DrillSteps}

\* What the manifest lists, what the artifact check requires, what the
\* decommission check requires, and what its log requires.
ManifestFiles == Files \ {"maps", "manifest", "validation", "check", "ledger"}
CheckedFiles == Files \ {"check", "ledger"}
Required == Files \ {"reports", "gateText", "checklist", "validation"}
LoggedFiles == Files \ {"legacy", "maps", "variants", "checks", "ledger"}

\* What a check of legacy code or of a map writes: all is well, in the form
\* the drill asks for or in another; something is amiss; a strict check fails.
Evidence == {"pass", "own", "warn", "fail"}

\* closed: every required check, each with its evidence; open: one is not;
\* unproven: one has no evidence; lacking: one is missing.
GateStates == {"closed", "open", "unproven", "lacking"}

NoRun == [kind |-> "idle"]

-----------------------------------------------------------------------------
(* The pack and the readiness report: release, and what they complain of.  *)

Section(f) ==
  IF dir[f] = Absent THEN "missing" ELSE IF dir[f] = "own" THEN "pass" ELSE dir[f]

\* The pack takes a gate closed without evidence for closed.
AoComplaint == IF gate.state \in {"closed", "unproven"} THEN {} ELSE {"ao"}

\* A section that is missing is no complaint of the pack.
Amiss(sections) == IF sections \subseteq {"pass", "missing"} THEN {} ELSE {"other"}

\* Mutant of NewPack: the pack takes the release of the gate for its own.
NewPackOfGate ==
  LET sections == {Section("legacy"), Section("maps")}
  IN [release  |-> gate.release,
      sections |-> sections,
      blockers |-> IF run.kind = "drill" THEN AoComplaint ELSE {},
      warnings |-> Amiss(sections) \cup (IF run.kind = "drill" THEN {} ELSE AoComplaint)]

\* buildReleaseEvidencePack.
NewPack ==
  LET sections == {Section("legacy"), Section("maps")}
  IN [release  |-> run.release,
      sections |-> sections,
      blockers |-> IF run.kind = "drill" THEN AoComplaint ELSE {},
      warnings |-> Amiss(sections) \cup (IF run.kind = "drill" THEN {} ELSE AoComplaint)]

\* The readiness report blocks on a section that failed or is missing.
NewReadiness ==
  LET pack == dir["pack"]
      blocking == IF pack.sections \subseteq {"pass", "warn"} THEN {} ELSE {"other"}
  IN [release  |-> pack.release,
      blockers |-> pack.blockers \cup blocking,
      warnings |-> pack.warnings]

Status(doc) ==
  IF doc.blockers # {} THEN "blocked" ELSE IF doc.warnings # {} THEN "warning" ELSE "ready"

NewManifest == [release |-> dir["readiness"].release, status |-> Status(dir["readiness"])]

NewLedger ==
  [release |-> dir["readiness"].release,
   ready   |-> Status(dir["pack"]) = "ready" /\ Status(dir["readiness"]) = "ready"]

\* The values of the checks and the release, in one file.  The drill has them
\* in its memory, where its own checks have all passed; the bootstrap reads
\* them from the directory.
NewChecks ==
  IF run.kind = "drill"
  THEN [release |-> run.release, legacy |-> "pass", maps |-> "pass", variants |-> "pass"]
  ELSE [release  |-> dir["readiness"].release,
        legacy   |-> dir["legacy"],
        maps     |-> dir["maps"],
        variants |-> dir["variants"]]

Embeds(checks) == \A f \in {"legacy", "maps", "variants"} : checks[f] = dir[f]

Present(files) == \A f \in files : dir[f] # Absent

(***************************************************************************)
(* checkReleaseDrillArtifacts, strict: everything is there, names one      *)
(* release, and the checks embed the files they were made of.              *)
(***************************************************************************)
ArtifactsAgree ==
  /\ Present(CheckedFiles)
  /\ Cardinality({dir[f].release : f \in {"pack", "readiness", "manifest", "checks"}}) = 1
  /\ Embeds(dir["checks"])

-----------------------------------------------------------------------------
(* The runs.                                                               *)

Running == run.kind \in DOMAIN Steps
Step == Steps[run.kind][run.pc]

Output(s) ==
  CASE s = "pack"      -> NewPack
    [] s = "readiness" -> NewReadiness
    [] s = "checks"    -> NewChecks
    [] s = "manifest"  -> NewManifest
    [] s = "ledger"    -> NewLedger
    [] s = "variants"  -> IF run.kind = "drill" THEN "pass" ELSE "own"
    [] OTHER           -> "pass"

\* Whether the script of a step exits with 0 and its output can be used.
Accepts(s) ==
  CASE s = "gateText"   -> gate.state \in {"closed", "open"}
    [] s = "checks"     -> run.kind = "prelive" => Present({"legacy", "maps"})
    [] s = "pack"       -> Status(NewPack) # "blocked"
    [] s = "readiness"  -> Status(NewReadiness) \in
                             (IF run.strict THEN {"ready"} ELSE {"ready", "warning"})
    [] s = "manifest"   -> Present(ManifestFiles)
    [] s = "check"      -> ArtifactsAgree
    [] s = "ledger"     -> run.strict => NewLedger.ready
    [] OTHER            -> TRUE

DrillInit ==
  /\ dir = [f \in Files |-> Absent]
  /\ gate \in [state : GateStates, release : Releases]
  /\ run = NoRun
  /\ closeout = NoRun
  /\ passed = {}
  /\ spent = [runs |-> 0, edits |-> 0, touched |-> FALSE]

StartRun(kind, r, strict) ==
  /\ ~Running
  /\ spent.runs < MaxRuns
  /\ kind = "prelive" => ~strict
  /\ run' = [kind |-> kind, pc |-> 1, release |-> r, strict |-> strict]
  /\ spent' = [spent EXCEPT !.runs = @ + 1, !.touched = FALSE]
  /\ UNCHANGED <<dir, gate, closeout, passed>>

\* A step writes its file; the last one ends the run with exit code 0.
TakeStep ==
  /\ Running
  /\ Accepts(Step)
  /\ dir' = [dir EXCEPT ![Step] = Output(Step)]
  /\ run' = IF run.pc < Len(Steps[run.kind])
            THEN [run EXCEPT !.pc = @ + 1]
            ELSE [kind |-> "done", release |-> run.release]
  /\ passed' = IF Step = "check" THEN passed \cup {run.release} ELSE passed
  /\ UNCHANGED <<gate, closeout, spent>>

\* The pack and the ledger are written before their scripts exit with 3.
WriteAndFail ==
  /\ Running
  /\ Step \in {"pack", "ledger"}
  /\ ~Accepts(Step)
  /\ dir' = [dir EXCEPT ![Step] = Output(Step)]
  /\ run' = NoRun
  /\ UNCHANGED <<gate, closeout, passed, spent>>

\* A step that fails, or a run that is killed, leaves what was written.
Stop ==
  /\ Running
  /\ run' = NoRun
  /\ UNCHANGED <<dir, gate, closeout, passed, spent>>

-----------------------------------------------------------------------------
(* What operators do by hand: they edit the gate, and run checks again.    *)

MayEdit == spent.edits < MaxEdits

EditGate ==
  /\ MayEdit
  /\ gate' \in [state : GateStates, release : Releases] \ {gate}
  /\ spent' = [spent EXCEPT !.edits = @ + 1]
  /\ UNCHANGED <<dir, run, closeout, passed>>

\* The maps' checks add to their output when a drill runs them.
CheckByHand(files, found) ==
  /\ MayEdit
  /\ found = "pass" => files = {"legacy"}
  /\ dir' = [f \in Files |-> IF f \in files THEN found ELSE dir[f]]
  /\ spent' = [spent EXCEPT !.edits = @ + 1, !.touched = TRUE]
  /\ UNCHANGED <<gate, run, closeout, passed>>

-----------------------------------------------------------------------------
(* The decommission check (assessDecommissionReadiness): the automation    *)
(* is complete if all is there, of one release, and ready, or short of     *)
(* ready on account of the AO gate only, whatever the gate says now.       *)

\* Mutant of AoOnly: what only warns of the gate does not count.
AoOnlyBlocked(doc) == doc.blockers = {"ao"}

AoOnly(doc) ==
  \/ doc.blockers = {"ao"}
  \/ Status(doc) = "warning" /\ doc.warnings = {"ao"}

\* The AO gate was open when the pack, or the readiness report, was made.
AoPending == AoOnly(dir["pack"]) \/ AoOnly(dir["readiness"])

ReadyOrAoPending ==
  /\ Status(dir["pack"]) = "ready" \/ AoOnly(dir["pack"])
  /\ Status(dir["readiness"]) = "ready" \/ AoPending
  /\ dir["manifest"].status = "ready" \/ AoPending
  /\ dir["ledger"].ready \/ AoPending

ReleasesNamed ==
  {dir[f].release : f \in {"pack", "readiness", "checks", "manifest", "ledger"}}
    \cup {gate.release}

OneRelease == Cardinality(ReleasesNamed) = 1

AutomationComplete ==
  /\ Present(Required)
  /\ ReadyOrAoPending
  /\ dir["legacy"] \in {"pass", "own"}
  /\ dir["maps"] # "fail"
  /\ Embeds(dir["checks"])
  /\ OneRelease

\* collectGateChecks does not ask for evidence.
AoManualComplete == gate.state \in {"closed", "unproven"}

-----------------------------------------------------------------------------
(* The closeout: clean as long as no step had a blocker.  It goes on after *)
(* a step that had one, to report them all.  Steps 3 to 5 and 7 are about  *)
(* the host, the final summary, the signatures and the proofs.             *)

\* check-ao-gate-evidence.
CloseoutGate ==
  /\ closeout.kind \in {"idle", "done"}
  /\ closeout' = [kind |-> "assess", clean |-> gate.state = "closed"]
  /\ UNCHANGED <<dir, gate, run, passed, spent>>

\* check-decommission-readiness.
CloseoutAssess ==
  /\ closeout.kind = "assess"
  /\ LET ready == AutomationComplete /\ AoManualComplete
     IN closeout' =
          IF closeout.clean /\ ready
          THEN [kind |-> "judge", clean |-> TRUE, release |-> dir["pack"].release]
          ELSE [kind |-> "judge", clean |-> FALSE]
  /\ UNCHANGED <<dir, gate, run, passed, spent>>

\* validate-hosting-readiness, -final-migration-summary and -signoff-record.
CloseoutJudge(found) ==
  /\ closeout.kind = "judge"
  /\ closeout' = [closeout EXCEPT !.kind = "log", !.clean = @ /\ found]
  /\ UNCHANGED <<dir, gate, run, passed, spent>>

\* build-decommission-evidence-log asks that the artifacts be there.
CloseoutLog ==
  /\ closeout.kind = "log"
  /\ closeout' = [closeout EXCEPT !.kind = "proofs", !.clean = @ /\ Present(LoggedFiles)]
  /\ UNCHANGED <<dir, gate, run, passed, spent>>

\* check-decommission-manual-proofs, and the result.
CloseoutProofs(found) ==
  /\ closeout.kind = "proofs"
  /\ closeout' = [closeout EXCEPT !.kind = "done", !.clean = @ /\ found]
  /\ UNCHANGED <<dir, gate, run, passed, spent>>

CloseoutStops ==
  /\ closeout.kind \in {"assess", "judge", "log", "proofs"}
  /\ closeout' = NoRun
  /\ UNCHANGED <<dir, gate, run, passed, spent>>

DrillNext ==
  \/ \E kind \in DOMAIN Steps, r \in Releases, strict \in BOOLEAN : StartRun(kind, r, strict)
  \/ TakeStep
  \/ WriteAndFail
  \/ Stop
  \/ EditGate
  \/ \E files \in (SUBSET {"legacy", "maps"}) \ {{}}, found \in Evidence : CheckByHand(files, found)
  \/ CloseoutGate
  \/ CloseoutAssess
  \/ CloseoutLog
  \/ \E found \in BOOLEAN : CloseoutJudge(found) \/ CloseoutProofs(found)
  \/ CloseoutStops

DrillSpec == DrillInit /\ [][DrillNext]_drillVars

-----------------------------------------------------------------------------
(* Properties.                                                             *)

(***************************************************************************)
(* The files hold what their scripts write.                                *)
(***************************************************************************)
DrillTypeOK ==
  /\ DOMAIN dir = Files
  /\ \A f \in {"reports", "gateText", "checklist", "validation", "check"} :
       dir[f] \in {Absent, "pass"}
  /\ \A f \in {"legacy", "maps", "variants"} : dir[f] \in Evidence \cup {Absent}
  /\ \A f \in {"pack", "readiness"} :
       dir[f] # Absent =>
         dir[f].release \in Releases /\ dir[f].blockers \cup dir[f].warnings \subseteq {"ao", "other"}
  /\ dir["manifest"] # Absent => dir["manifest"].status \in {"ready", "warning"}
  /\ dir["ledger"] # Absent => dir["ledger"].ready \in BOOLEAN
  /\ gate \in [state : GateStates, release : Releases]
  /\ passed \subseteq Releases

(***************************************************************************)
(* A closeout that reports ready is about a release that some run got      *)
(* through the strict check of its artifacts (run-decommission-closeout):  *)
(* runs of several releases that fail half way into one directory, by hand *)
(* or by a crash, do not add up to the evidence of a release.              *)
(***************************************************************************)
GoNamesPassedRun ==
  closeout.kind = "done" /\ closeout.clean => closeout.release \in passed

(***************************************************************************)
(* The directory of a run that ended with exit code 0 passes the           *)
(* decommission check, whatever earlier runs left there and whatever has   *)
(* become of the gate, if the gate is of the same release, the pack had    *)
(* nothing else to complain of, and no one ran a check by hand meanwhile.  *)
(***************************************************************************)
CompletedRunPasses ==
  /\ run.kind = "done"
  /\ gate.release = run.release
  /\ "other" \notin dir["pack"].warnings
  /\ ~spent.touched
  => AutomationComplete

(***************************************************************************)
(* What the proofs need besides: what the run under way, or the one that   *)
(* got through, has made of the directory so far.                          *)
(***************************************************************************)
RunTypeOK ==
  /\ run.kind \in {"idle", "done"} \cup DOMAIN Steps
  /\ Running =>
       /\ run \in [kind : DOMAIN Steps, pc : Nat, release : Releases, strict : BOOLEAN]
       /\ run.pc \in DOMAIN Steps[run.kind]
  /\ run.kind = "done" => run.release \in Releases
  /\ spent \in [runs : Nat, edits : Nat, touched : BOOLEAN]

\* A closeout that was clean when the evidence was assessed names a release.
Judged == {"judge", "log", "proofs", "done"}

CloseoutTypeOK ==
  closeout.kind \in Judged =>
    \/ closeout \in [kind : Judged, clean : BOOLEAN, release : Releases]
    \/ closeout \in [kind : Judged, clean : {FALSE}]

\* The run has taken the step s.
Taken(s) ==
  run.kind = "done" \/ (Running /\ \E i \in 1 .. run.pc - 1 : Steps[run.kind][i] = s)

DocumentsInv ==
  /\ Taken("pack") =>
       /\ dir["pack"].release = run.release
       /\ dir["pack"].blockers = {} /\ dir["pack"].warnings \subseteq {"ao", "other"}
  /\ Taken("readiness") =>
       /\ dir["readiness"].release = run.release
       /\ dir["readiness"].blockers = {} /\ dir["readiness"].warnings = dir["pack"].warnings
  /\ Taken("checks") => dir["checks"].release = run.release
  /\ Taken("manifest") => dir["manifest"] = NewManifest
  /\ Taken("ledger") => dir["ledger"] = NewLedger

UntouchedInv ==
  ~spent.touched =>
    /\ Taken("pack") =>
         "other" \in dir["pack"].warnings \/ {Section("legacy"), Section("maps")} \subseteq {"pass", "missing"}
    /\ Taken("check") => Present(CheckedFiles) /\ Embeds(dir["checks"])

PassedInv ==
  /\ Taken("check") => run.release \in passed /\ dir["check"] = "pass"
  /\ dir["ledger"] # Absent => dir["ledger"].release \in passed
  /\ closeout.kind \in Judged /\ closeout.clean => closeout.release \in passed

DrillIInv ==
  DrillTypeOK /\ RunTypeOK /\ CloseoutTypeOK /\ DocumentsInv /\ UntouchedInv /\ PassedInv
=============================================================================
