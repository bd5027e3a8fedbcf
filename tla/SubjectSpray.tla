---------------------------- MODULE SubjectSpray ----------------------------
(***************************************************************************)
(* The limit on how many subjects one client may name                      *)
(* (workers/secrets-worker/src/index.ts, subjectSprayGuard), which POST    *)
(* /inbox and POST /notify ask.  A subject the client has named lately is  *)
(* known by a KV marker; a new one is counted in a KV entry {count, reset} *)
(* of the client.  Both are read, compared and put in four awaited calls,  *)
(* so requests of a client overlap in between.  One client is modelled.    *)
(*                                                                         *)
(* Times are what remains of them, and the age of a request how long ago   *)
(* it took the time; reset may have passed while KV still has the entry.   *)
(***************************************************************************)
EXTENDS Integers, FiniteSets

CONSTANTS
  Namings,   \* requests in flight
  Subjects, NoSubject,
  SprayMax,  \* UNIQUE_SUBJECT_MAX_PER_IP
  SpraySpan, \* UNIQUE_SUBJECT_WINDOW plus 5 seconds
  NamingAge  \* bound on how long a request takes, which the platform sets

ASSUME SprayAssumption ==
  /\ NoSubject \notin Subjects
  /\ SprayMax \in Nat \ {0} /\ SpraySpan \in Nat \ {0} /\ NamingAge \in Nat

VARIABLES
  known,  \* rlsub:...: subject |-> for how long, 0 when absent
  tally,  \* rlsubcount:...: [count, reset, kept], kept = 0 when absent
  naming, \* the requests in flight
  named   \* history: subject |-> what became of it, see Note

sprayVars == <<known, tally, naming, named>>

Resets == -NamingAge .. SpraySpan

NoTally == [count |-> 0, reset |-> 0, kept |-> 0]

(***************************************************************************)
(* What the history has of a subject that a request, overlapped by no      *)
(* other until then, left a marker for: what is left of SpraySpan since    *)
(* that request took the time, whether it was counted (or failed before),  *)
(* and whether the client has been let in with it, by that request or by a *)
(* later one that found the marker.                                        *)
(***************************************************************************)
Note == [left : Resets, counted : BOOLEAN, letIn : BOOLEAN]

Unnamed == [left |-> 0, counted |-> FALSE, letIn |-> FALSE]

Resting == [pc |-> "idle", subject |-> NoSubject, age |-> 0,
            count |-> 0, alone |-> FALSE]

Naming ==
  [pc : {"idle", "looking", "counting", "marking", "charging"},
   subject : Subjects \cup {NoSubject}, age : 0 .. NamingAge,
   count : 0 .. SprayMax, alone : BOOLEAN]

SprayTypeOK ==
  /\ known \in [Subjects -> 0 .. SpraySpan]
  /\ tally \in [count : 0 .. SprayMax, reset : Resets, kept : 0 .. SpraySpan]
  /\ naming \in [Namings -> Naming]
  /\ named \in [Subjects -> Note]

SprayInit ==
  /\ known = [s \in Subjects |-> 0]
  /\ tally = NoTally
  /\ naming = [r \in Namings |-> Resting]
  /\ named = [s \in Subjects |-> Unnamed]

NamingEnds(r) == naming' = [naming EXCEPT ![r] = Resting]

\* The history with what request r leaves of its subject.
Noted(r, counted, letIn) ==
  IF naming[r].alone
  THEN [named EXCEPT ![naming[r].subject] =
          [left |-> SpraySpan - naming[r].age, counted |-> counted, letIn |-> letIn]]
  ELSE named

Name(r, s) ==
  /\ naming[r].pc = "idle"
  /\ LET others == {q \in Namings \ {r} : naming[q].pc # "idle"}
     IN naming' = [q \in Namings |->
          IF q = r THEN [Resting EXCEPT !.pc = "looking", !.subject = s, !.alone = others = {}]
          ELSE [naming[q] EXCEPT !.alone = FALSE]]
  /\ UNCHANGED <<known, tally, named>>

\* A subject named lately is let in, and nothing is written.
NamedBefore(r) ==
  /\ naming[r].pc = "looking"
  /\ known[naming[r].subject] > 0
  /\ NamingEnds(r)
  /\ named' = IF named[naming[r].subject].left > 0
              THEN [named EXCEPT ![naming[r].subject].letIn = TRUE] ELSE named
  /\ UNCHANGED <<known, tally>>

NamedAnew(r) ==
  /\ naming[r].pc = "looking"
  /\ known[naming[r].subject] = 0
  /\ naming' = [naming EXCEPT ![r].pc = "counting"]
  /\ UNCHANGED <<known, tally, named>>

\* The window is compared with the time the request took at its beginning.
Counted(r) ==
  IF tally.kept > 0 /\ tally.reset + naming[r].age > 0 THEN tally.count ELSE 0

TooMany(r) ==
  /\ naming[r].pc = "counting"
  /\ Counted(r) >= SprayMax
  /\ NamingEnds(r)
  /\ UNCHANGED <<known, tally, named>>

\* Mutant of OneMore: a new window begins with none.
OneMoreFromZero(r) == IF tally.kept = 0 THEN 0 ELSE Counted(r) + 1

OneMore(r) == Counted(r) + 1

Count(r) ==
  /\ naming[r].pc = "counting"
  /\ Counted(r) < SprayMax
  /\ naming' = [naming EXCEPT ![r].pc = "marking", ![r].count = OneMore(r)]
  /\ UNCHANGED <<known, tally, named>>

\* The marker is put before the count.  The call may report a failure all the
\* same, and then the subject is known and never counted.
MarkKnown(r) ==
  /\ naming[r].pc = "marking"
  /\ known' = [known EXCEPT ![naming[r].subject] = SpraySpan]
  /\ \/ naming' = [naming EXCEPT ![r].pc = "charging"] /\ UNCHANGED named
     \/ NamingEnds(r) /\ named' = Noted(r, FALSE, FALSE)
  /\ UNCHANGED tally

\* The count is put, and every new subject moves the end of the window.  The
\* request is let in, or fails all the same.
Charge(r) ==
  /\ naming[r].pc = "charging"
  /\ tally' = [count |-> naming[r].count, reset |-> SpraySpan - naming[r].age, kept |-> SpraySpan]
  /\ \E letIn \in BOOLEAN : named' = Noted(r, TRUE, letIn)
  /\ NamingEnds(r)
  /\ UNCHANGED known

\* A call throws without effect, or the worker is evicted: a subject that was
\* marked by then is known and not counted.
NamingFails(r) ==
  /\ naming[r].pc # "idle"
  /\ NamingEnds(r)
  /\ named' = IF naming[r].pc = "charging" THEN Noted(r, FALSE, FALSE) ELSE named
  /\ UNCHANGED <<known, tally>>

Sooner(t) == IF t > 0 THEN t - 1 ELSE 0

SprayTick ==
  /\ \A r \in Namings : naming[r].pc = "idle" \/ naming[r].age < NamingAge
  /\ known' = [s \in Subjects |-> Sooner(known[s])]
  /\ tally' = IF tally.kept <= 1 THEN NoTally
              ELSE [count |-> tally.count, reset |-> tally.reset - 1, kept |-> tally.kept - 1]
  /\ naming' = [r \in Namings |->
       IF naming[r].pc = "idle" THEN Resting ELSE [naming[r] EXCEPT !.age = @ + 1]]
  /\ named' = [s \in Subjects |->
       IF named[s].left <= 1 THEN Unnamed ELSE [named[s] EXCEPT !.left = @ - 1]]

SprayNext ==
  \/ \E r \in Namings, s \in Subjects : Name(r, s)
  \/ \E r \in Namings :
       \/ NamedBefore(r) \/ NamedAnew(r) \/ TooMany(r) \/ Count(r)
       \/ MarkKnown(r) \/ Charge(r) \/ NamingFails(r)
  \/ SprayTick

SpraySpec == SprayInit /\ [][SprayNext]_sprayVars

-----------------------------------------------------------------------------
(* Properties.                                                             *)

\* The subjects of the window the client has been let in with, and those that
\* have their marker from a request that failed before its count.
LetIn == {s \in Subjects : named[s].left > 0 /\ named[s].letIn}

Slipped == {s \in Subjects : named[s].left > 0 /\ ~named[s].counted}

(***************************************************************************)
(* In no window has a client been let in with more new subjects than the   *)
(* maximum (subjectSprayGuard), by the request that named them or by a     *)
(* later one their marker lets in, however late a count is put, but for    *)
(* those in Slipped: of them there is no limit, the code lets a retry in   *)
(* by the marker of the request that failed, and none of them takes the    *)
(* place of another.  It is of subjects whose naming request overlapped no *)
(* other: two that overlap read the same count.                            *)
(***************************************************************************)
SprayHolds == Cardinality(LetIn \ Slipped) <= SprayMax

(***************************************************************************)
(* What the proofs need besides.  The count of the client covers every     *)
(* subject it charged alone, and lasts at least as long as they do; and    *)
(* while a request is in flight none is added to them but its own.         *)
(***************************************************************************)
NamedNow == {s \in Subjects : named[s].left > 0 /\ named[s].counted}

InFlight(r) == naming[r].pc # "idle"

AloneInv ==
  \A r, q \in Namings : InFlight(r) /\ naming[r].alone /\ InFlight(q) => q = r

TallyInv ==
  /\ tally.kept <= tally.reset + NamingAge
  /\ IsFiniteSet(NamedNow) /\ Cardinality(NamedNow) <= tally.count
  /\ \A s \in NamedNow :
       /\ named[s].left <= tally.reset /\ named[s].left <= tally.kept
       /\ \A r \in Namings : InFlight(r) => named[s].left + naming[r].age <= SpraySpan

NextInv ==
  \A r \in Namings :
    naming[r].pc \in {"marking", "charging"} => Cardinality(NamedNow) < naming[r].count

SprayIInv == SprayTypeOK /\ AloneInv /\ TallyInv /\ NextInv
=============================================================================
