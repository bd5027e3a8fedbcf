-------------------------- MODULE Admission_proofs --------------------------
(***************************************************************************)
(* Theorems about what is let in: how many new subjects a client names     *)
(* (SubjectSpray), which releases a closeout calls ready (ReleaseDrill),   *)
(* and which events of payment providers are admitted (WebhookIngress),    *)
(* for any number of requests, of runs and of deliveries.  The last one    *)
(* puts them side by side.                                                 *)
(***************************************************************************)
EXTENDS MCAdmission, OrderedMap_proofs, FiniteSetTheorems, TLAPS

-----------------------------------------------------------------------------
(* The subjects a client names.                                            *)

\* What the types say of the parts, as the steps use them.
LEMMA SprayTypes ==
  ASSUME SprayIInv
  PROVE  /\ SprayMax \in Nat \ {0} /\ SpraySpan \in Nat \ {0} /\ NamingAge \in Nat
         /\ NoTally \in [count : 0 .. SprayMax, reset : Resets, kept : 0 .. SpraySpan]
         /\ Resting \in Naming /\ Resting.pc = "idle"
         /\ tally.count \in 0 .. SprayMax /\ tally.reset \in Resets /\ tally.kept \in 0 .. SpraySpan
         /\ tally.reset \in Int /\ Resets \subseteq Int
         /\ NamedNow \subseteq Subjects /\ Cardinality(NamedNow) \in Nat
         /\ Unnamed \in Note
         /\ \A s \in Subjects : named[s] \in Note /\ named[s].left \in Resets
         /\ \A r \in Namings :
              /\ naming[r] \in Naming /\ naming[r].subject \in Subjects \cup {NoSubject}
              /\ naming[r].age \in 0 .. NamingAge /\ naming[r].count \in 0 .. SprayMax
              /\ naming[r].alone \in BOOLEAN
<1>1. NoTally \in [count : 0 .. SprayMax, reset : Resets, kept : 0 .. SpraySpan]
  BY SprayAssumption DEF NoTally, Resets
<1>2. Resting \in Naming /\ Resting.pc = "idle"
  BY SprayAssumption DEF Resting, Naming
<1>3. Cardinality(NamedNow) \in Nat
  BY FS_CardinalityType DEF SprayIInv, TallyInv
<1>4. Unnamed \in Note
  BY SprayAssumption DEF Unnamed, Note, Resets
<1>5. \A s \in Subjects : named[s] \in Note /\ named[s].left \in Resets
  BY DEF SprayIInv, SprayTypeOK, Note
<1> QED BY <1>1, <1>2, <1>3, <1>4, <1>5, SprayAssumption
           DEF SprayIInv, SprayTypeOK, Naming, NamedNow, Resets

\* The history names no subject as counted that it did not, nor for longer.
NoneCounted ==
  /\ named' \in [Subjects -> Note]
  /\ \A s \in NamedNow' : s \in NamedNow /\ named'[s].left = named[s].left

(***************************************************************************)
(* The count and the subjects named are as they were, and no request that  *)
(* is in flight grew older.                                                *)
(***************************************************************************)
LEMMA QuietStep ==
  ASSUME SprayIInv, UNCHANGED tally, NoneCounted, known' \in [Subjects -> 0 .. SpraySpan],
         naming' \in [Namings -> Naming], AloneInv',
         \A r \in Namings : naming'[r].pc # "idle" =>
           naming'[r].age = 0 \/ (InFlight(r) /\ naming'[r].age = naming[r].age),
         \A r \in Namings :
           naming'[r].pc \in {"marking", "charging"} => Cardinality(NamedNow) < naming'[r].count
  PROVE  SprayIInv'
<1>1. /\ NamedNow' \subseteq NamedNow /\ IsFiniteSet(NamedNow')
      /\ Cardinality(NamedNow') \in Nat /\ Cardinality(NamedNow') <= Cardinality(NamedNow)
  <2>1. NamedNow' \subseteq NamedNow /\ IsFiniteSet(NamedNow)
    BY DEF NoneCounted, SprayIInv, TallyInv
  <2> QED BY <2>1, FS_Subset, FS_CardinalityType
<1>2. SprayTypeOK' /\ NextInv'
  <2>1. SprayTypeOK'
    BY DEF NoneCounted, SprayIInv, SprayTypeOK
  <2>2. ASSUME NEW r \in Namings, naming'[r].pc \in {"marking", "charging"}
        PROVE  Cardinality(NamedNow') < naming'[r].count
    <3>1. naming'[r].count \in 0 .. SprayMax
      BY DEF Naming
    <3> QED BY <1>1, <2>2, <3>1, SprayTypes
  <2> QED BY <2>1, <2>2 DEF NextInv
<1>3. TallyInv'
  <2>1. ASSUME NEW s \in NamedNow, NEW r \in Namings, naming'[r].pc # "idle"
        PROVE  named[s].left + naming'[r].age <= SpraySpan
    <3>1. s \in Subjects /\ named[s].left \in Int /\ named[s].left <= SpraySpan
      BY SprayTypes DEF Resets
    <3>2. InFlight(r) => named[s].left + naming[r].age <= SpraySpan
      BY DEF SprayIInv, TallyInv
    <3> QED BY <2>1, <3>1, <3>2, SprayTypes
  <2>2. ASSUME NEW s \in NamedNow'
        PROVE  /\ s \in NamedNow /\ named'[s].left = named[s].left
               /\ named[s].left <= tally.reset /\ named[s].left <= tally.kept
    BY DEF NoneCounted, SprayIInv, TallyInv
  <2>3. Cardinality(NamedNow') <= tally.count /\ tally.kept <= tally.reset + NamingAge
    BY <1>1, SprayTypes DEF SprayIInv, TallyInv
  <2>4. tally' = tally
    OBVIOUS
  <2> QED BY <1>1, <2>1, <2>2, <2>3, <2>4 DEF TallyInv, InFlight
<1> QED BY <1>2, <1>3 DEF SprayIInv

(***************************************************************************)
(* One request becomes rec, in flight only if it was, and nothing is       *)
(* counted.                                                                *)
(***************************************************************************)
LEMMA NamingStep ==
  ASSUME SprayIInv, NEW r \in Namings, NEW rec \in Naming,
         naming' = [naming EXCEPT ![r] = rec], UNCHANGED tally, NoneCounted,
         known' \in [Subjects -> 0 .. SpraySpan],
         rec.pc # "idle" => InFlight(r) /\ rec.age = naming[r].age /\ rec.alone = naming[r].alone,
         rec.pc \in {"marking", "charging"} => Cardinality(NamedNow) < rec.count
  PROVE  SprayIInv'
<1>1. ASSUME NEW q \in Namings PROVE naming'[q] = IF q = r THEN rec ELSE naming[q]
  BY DEF SprayIInv, SprayTypeOK
<1>2. naming' \in [Namings -> Naming]
  BY DEF SprayIInv, SprayTypeOK
<1>3. AloneInv'
  BY <1>1 DEF SprayIInv, AloneInv, InFlight
<1>4. \A q \in Namings : naming'[q].pc # "idle" =>
        naming'[q].age = 0 \/ (InFlight(q) /\ naming'[q].age = naming[q].age)
  BY <1>1 DEF InFlight
<1>5. \A q \in Namings :
        naming'[q].pc \in {"marking", "charging"} => Cardinality(NamedNow) < naming'[q].count
  BY <1>1 DEF SprayIInv, NextInv
<1> QED BY <1>2, <1>3, <1>4, <1>5, QuietStep

LEMMA NamedStays ==
  ASSUME SprayIInv, UNCHANGED named
  PROVE  NoneCounted
BY DEF SprayIInv, SprayTypeOK, NoneCounted, NamedNow

\* A request that notes its subject as not counted counts none.
LEMMA NotedUncounted ==
  ASSUME SprayIInv, NEW r \in Namings, named' = Noted(r, FALSE, FALSE)
  PROVE  NoneCounted
<1> DEFINE left == SpraySpan - naming[r].age
           note == [left |-> left, counted |-> FALSE, letIn |-> FALSE]
<1>1. note \in Note /\ ~note.counted
  <2>1. left \in Resets
    BY SprayTypes DEF Resets
  <2> HIDE DEF left
  <2> QED BY <2>1 DEF Note
<1>2. CASE naming[r].alone
  <2>1. named' = [named EXCEPT ![naming[r].subject] = note]
    BY <1>2 DEF Noted
  <2> HIDE DEF note
  <2>2. named' \in [Subjects -> Note]
    BY <1>1, <2>1 DEF SprayIInv, SprayTypeOK
  <2>3. \A s \in Subjects : named'[s] = named[s] \/ named'[s] = note
    BY <2>1 DEF SprayIInv, SprayTypeOK
  <2> QED BY <1>1, <2>2, <2>3 DEF NoneCounted, NamedNow
<1>3. CASE ~naming[r].alone
  BY <1>3, NamedStays DEF Noted
<1> QED BY <1>2, <1>3

\* A request comes in: whoever was alone no longer is.
LEMMA NameStep ==
  ASSUME SprayIInv, NEW r \in Namings, NEW s \in Subjects, Name(r, s)
  PROVE  SprayIInv'
<1> DEFINE others == {q \in Namings \ {r} : naming[q].pc # "idle"}
           rec == [Resting EXCEPT !.pc = "looking", !.subject = s, !.alone = others = {}]
<1>1. ASSUME NEW q \in Namings
      PROVE  naming'[q] = IF q = r THEN rec ELSE [naming[q] EXCEPT !.alone = FALSE]
  BY DEF Name
<1>2. (others = {}) \in BOOLEAN
  OBVIOUS
<1>3. /\ rec \in Naming /\ rec.age = 0 /\ rec.pc = "looking"
      /\ rec.alone => \A q \in Namings : q # r => naming[q].pc = "idle"
  BY <1>2, SprayTypes DEF Resting, Naming
<1> HIDE DEF rec
<1>4. ASSUME NEW q \in Namings, q # r
      PROVE  /\ naming'[q] \in Naming /\ ~naming'[q].alone
             /\ naming'[q].pc = naming[q].pc /\ naming'[q].age = naming[q].age
             /\ naming'[q].count = naming[q].count
  <2>1. naming'[q] = [naming[q] EXCEPT !.alone = FALSE] /\ naming[q] \in Naming
    BY <1>1, <1>4, SprayTypes
  <2> QED BY <2>1 DEF Naming
<1>5. naming' \in [Namings -> Naming]
  <2>1. \A q \in Namings : naming'[q] \in Naming
    BY <1>1, <1>3, <1>4
  <2>2. naming' = [q \in Namings |-> naming'[q]]
    BY DEF Name
  <2> QED BY <2>1, <2>2
<1>6. AloneInv'
  <2>1. naming'[r] = rec
    BY <1>1
  <2>2. ASSUME NEW p \in Namings, NEW q \in Namings,
               naming'[p].pc # "idle", naming'[p].alone, naming'[q].pc # "idle"
        PROVE  q = p
    <3>1. p = r
      BY <1>4, <2>2
    <3>2. rec.alone
      BY <2>1, <2>2, <3>1
    <3>3. q = r
      BY <1>3, <1>4, <2>2, <3>2
    <3> QED BY <3>1, <3>3
  <2> QED BY <2>2 DEF AloneInv, InFlight
<1>7. \A q \in Namings : naming'[q].pc # "idle" =>
        naming'[q].age = 0 \/ (InFlight(q) /\ naming'[q].age = naming[q].age)
  BY <1>1, <1>3, <1>4 DEF InFlight
<1>8. \A q \in Namings :
        naming'[q].pc \in {"marking", "charging"} => Cardinality(NamedNow) < naming'[q].count
  BY <1>1, <1>3, <1>4 DEF SprayIInv, NextInv
<1>9. UNCHANGED tally /\ NoneCounted /\ known' \in [Subjects -> 0 .. SpraySpan]
  BY NamedStays DEF Name, SprayIInv, SprayTypeOK
<1> QED BY <1>5, <1>6, <1>7, <1>8, <1>9, QuietStep

\* A request is let in as known, is refused or fails: it is over.
LEMMA NamingEndsStep ==
  ASSUME SprayIInv, NEW r \in Namings, NamingEnds(r), UNCHANGED tally, NoneCounted,
         known' \in [Subjects -> 0 .. SpraySpan]
  PROVE  SprayIInv'
BY NamingStep, SprayTypes DEF NamingEnds

LEMMA NamedAnewStep ==
  ASSUME SprayIInv, NEW r \in Namings, NamedAnew(r)
  PROVE  SprayIInv'
<1>1. PICK rec \in Naming : rec = [naming[r] EXCEPT !.pc = "counting"]
  BY SprayTypes DEF Naming
<1>2. /\ rec.pc = "counting" /\ rec.age = naming[r].age /\ rec.alone = naming[r].alone
      /\ InFlight(r)
  BY <1>1, SprayTypes DEF Naming, NamedAnew, InFlight
<1>3. naming' = [naming EXCEPT ![r] = rec] /\ UNCHANGED tally /\ NoneCounted
      /\ known' \in [Subjects -> 0 .. SpraySpan]
  BY <1>1, NamedStays DEF NamedAnew, SprayIInv, SprayTypeOK
<1> QED BY <1>2, <1>3, NamingStep

(***************************************************************************)
(* A request that counts in a window of its own counts every subject that  *)
(* is named now:  where the tally is gone, there are none.                 *)
(***************************************************************************)
LEMMA CountedCovers ==
  ASSUME SprayIInv, NEW r \in Namings
  PROVE  Counted(r) \in 0 .. SprayMax /\ Cardinality(NamedNow) <= Counted(r)
<1>1. CASE tally.kept > 0 /\ tally.reset + naming[r].age > 0
  BY <1>1, SprayTypes DEF SprayIInv, TallyInv, Counted
<1>2. CASE ~(tally.kept > 0 /\ tally.reset + naming[r].age > 0)
  <2>1. ASSUME NEW s \in NamedNow PROVE FALSE
    <3>1. /\ named[s].left \in Int /\ named[s].left > 0
           /\ named[s].left <= tally.reset /\ named[s].left <= tally.kept
      BY SprayTypes DEF SprayIInv, TallyInv, NamedNow, Resets
    <3> QED BY <1>2, <3>1, SprayTypes
  <2>2. Cardinality(NamedNow) = 0
    BY <2>1, FS_EmptySet
  <2> QED BY <1>2, <2>2, SprayTypes DEF Counted
<1> QED BY <1>1, <1>2

LEMMA CountStep ==
  ASSUME SprayIInv, NEW r \in Namings, Count(r)
  PROVE  SprayIInv'
<1>1. OneMore(r) \in 0 .. SprayMax /\ Cardinality(NamedNow) < OneMore(r)
  BY CountedCovers, SprayTypes DEF Count, OneMore
<1>2. PICK rec \in Naming : rec = [naming[r] EXCEPT !.pc = "marking", !.count = OneMore(r)]
  BY <1>1, SprayTypes DEF Naming
<1>3. /\ rec.pc = "marking" /\ rec.age = naming[r].age /\ rec.alone = naming[r].alone
      /\ rec.count = OneMore(r) /\ InFlight(r)
  BY <1>2, SprayTypes DEF Naming, Count, InFlight
<1>4. naming' = [naming EXCEPT ![r].pc = "marking", ![r].count = OneMore(r)]
  BY DEF Count
<1>5. naming' = [naming EXCEPT ![r] = rec]
  BY <1>2, <1>4 DEF SprayIInv, SprayTypeOK
<1>6. UNCHANGED tally /\ NoneCounted /\ known' \in [Subjects -> 0 .. SpraySpan]
  BY NamedStays DEF Count, SprayIInv, SprayTypeOK
<1> QED BY <1>1, <1>3, <1>5, <1>6, NamingStep

LEMMA MarkKnownStep ==
  ASSUME SprayIInv, NEW r \in Namings, MarkKnown(r)
  PROVE  SprayIInv'
<1>1. UNCHANGED tally /\ known' \in [Subjects -> 0 .. SpraySpan]
  <2>1. known \in [Subjects -> 0 .. SpraySpan] /\ SpraySpan \in 0 .. SpraySpan
    BY SprayTypes DEF SprayIInv, SprayTypeOK
  <2>2. known' = [known EXCEPT ![naming[r].subject] = SpraySpan] /\ UNCHANGED tally
    BY DEF MarkKnown
  <2> QED BY <2>1, <2>2
<1>2. CASE NamingEnds(r) /\ named' = Noted(r, FALSE, FALSE)
  BY <1>1, <1>2, NotedUncounted, NamingEndsStep
<1>3. CASE naming' = [naming EXCEPT ![r].pc = "charging"] /\ UNCHANGED named
  <2>1. PICK rec \in Naming : rec = [naming[r] EXCEPT !.pc = "charging"]
    BY SprayTypes DEF Naming
  <2>2. /\ rec.age = naming[r].age /\ rec.alone = naming[r].alone
        /\ rec.count = naming[r].count /\ InFlight(r)
    BY <2>1, SprayTypes DEF Naming, MarkKnown, InFlight
  <2>3. naming' = [naming EXCEPT ![r] = rec]
    BY <1>3, <2>1 DEF SprayIInv, SprayTypeOK
  <2>4. Cardinality(NamedNow) < rec.count
    BY <2>2 DEF MarkKnown, SprayIInv, NextInv
  <2> QED BY <1>1, <1>3, <2>2, <2>3, <2>4, NamedStays, NamingStep
<1> QED BY <1>2, <1>3 DEF MarkKnown

(***************************************************************************)
(* The put of the count adds at most the subject of a request that no      *)
(* other one overlapped, and the count has room for it.                    *)
(***************************************************************************)
LEMMA ChargeStep ==
  ASSUME SprayIInv, NEW r \in Namings, Charge(r)
  PROVE  SprayIInv'
<1> DEFINE left == SpraySpan - naming[r].age
           n == naming[r].count
<1>1. left \in Resets /\ left \in Int /\ n \in 0 .. SprayMax /\ SpraySpan <= left + NamingAge
  BY SprayTypes DEF Resets
<1>2. /\ tally'.count = n /\ tally'.reset = left /\ tally'.kept = SpraySpan
      /\ tally' \in [count : 0 .. SprayMax, reset : Resets, kept : 0 .. SpraySpan]
  BY <1>1, SprayTypes DEF Charge
<1>3. Cardinality(NamedNow) < n /\ InFlight(r)
  BY DEF Charge, SprayIInv, NextInv, InFlight
<1>4. ASSUME NEW q \in Namings PROVE naming'[q] = IF q = r THEN Resting ELSE naming[q]
  BY DEF Charge, NamingEnds, SprayIInv, SprayTypeOK
<1>5. naming' \in [Namings -> Naming]
  BY SprayTypes DEF Charge, NamingEnds, SprayIInv, SprayTypeOK
<1>6. ASSUME NEW q \in Namings, naming'[q].pc # "idle"
      PROVE  q # r /\ naming'[q] = naming[q] /\ InFlight(q) /\ ~naming[r].alone
  BY <1>3, <1>4, <1>6, SprayTypes DEF SprayIInv, AloneInv, InFlight
<1>7. AloneInv'
  BY <1>6 DEF SprayIInv, AloneInv, InFlight
<1>8. PICK letIn \in BOOLEAN : named' = Noted(r, TRUE, letIn)
  BY DEF Charge
<1> DEFINE note == [left |-> left, counted |-> TRUE, letIn |-> letIn]
<1>16. note \in Note /\ note.left = left
  <2>1. left \in Resets
    BY <1>1
  <2> HIDE DEF left
  <2> QED BY <2>1 DEF Note
<1>17. \/ named' = named
       \/ naming[r].alone /\ named' = [named EXCEPT ![naming[r].subject] = note]
  BY <1>8 DEF Noted
<1> HIDE DEF left, n, note
<1>9. /\ named' \in [Subjects -> Note]
      /\ \A s \in Subjects : named'[s] = named[s]
                             \/ (named'[s] = note /\ s = naming[r].subject)
  BY <1>16, <1>17 DEF SprayIInv, SprayTypeOK
<1>10. NamedNow' \subseteq NamedNow \cup {naming[r].subject}
  BY <1>9 DEF NamedNow
<1>11. IsFiniteSet(NamedNow') /\ Cardinality(NamedNow') <= n /\ Cardinality(NamedNow') \in Nat
  <2>1. IsFiniteSet(NamedNow)
    BY DEF SprayIInv, TallyInv
  <2>2. /\ IsFiniteSet(NamedNow \cup {naming[r].subject})
        /\ Cardinality(NamedNow \cup {naming[r].subject}) \in Nat
        /\ Cardinality(NamedNow \cup {naming[r].subject}) <= Cardinality(NamedNow) + 1
    <3>1. /\ IsFiniteSet(NamedNow \cup {naming[r].subject})
          /\ \/ Cardinality(NamedNow \cup {naming[r].subject}) = Cardinality(NamedNow)
             \/ Cardinality(NamedNow \cup {naming[r].subject}) = Cardinality(NamedNow) + 1
      BY <2>1, FS_AddElement, ZenonT(30)
    <3> QED BY <3>1, SprayTypes
  <2>3. /\ IsFiniteSet(NamedNow')
        /\ Cardinality(NamedNow') <= Cardinality(NamedNow \cup {naming[r].subject})
    BY <1>10, <2>2, FS_Subset
  <2>4. Cardinality(NamedNow') \in Nat
    BY <2>3, FS_CardinalityType
  <2> QED BY <1>1, <1>3, <2>2, <2>3, <2>4, SprayTypes
<1>12. ASSUME NEW s \in NamedNow'
       PROVE  /\ named'[s].left \in Int /\ named'[s].left <= left /\ named'[s].left <= SpraySpan
              /\ \A q \in Namings : naming'[q].pc # "idle" => named'[s].left + naming'[q].age <= SpraySpan
  <2>1. s \in Subjects /\ named'[s].left > 0 /\ named'[s].left \in Resets
    BY <1>9 DEF NamedNow, Note
  <2>2. CASE named'[s] = named[s]
    <3>1. s \in NamedNow
      BY <2>1, <2>2 DEF NamedNow
    <3>2. \A q \in Namings : InFlight(q) => named[s].left + naming[q].age <= SpraySpan
      BY <3>1 DEF SprayIInv, TallyInv
    <3>3. named[s].left <= left
      BY <1>3, <2>1, <2>2, <3>2, SprayTypes DEF left, Resets
    <3> QED BY <1>6, <2>1, <2>2, <3>2, <3>3, SprayTypes DEF Resets
  <2>3. CASE named'[s] # named[s]
    <3>1. named'[s].left = left /\ naming[r].alone
      BY <1>9, <1>16, <1>17, <2>1, <2>3
    <3> QED BY <1>1, <1>6, <2>1, <3>1, SprayTypes DEF Resets
  <2> QED BY <2>2, <2>3
<1>13. TallyInv'
  BY <1>1, <1>2, <1>11, <1>12 DEF TallyInv, InFlight
<1>14. NextInv'
  <2>1. SUFFICES ASSUME NEW q \in Namings, naming'[q].pc \in {"marking", "charging"}
                 PROVE  Cardinality(NamedNow') < naming'[q].count
    BY DEF NextInv
  <2>2. named' = named /\ naming'[q] = naming[q]
    BY <1>6, <1>17, <2>1
  <2>3. NamedNow' = NamedNow
    BY <2>2 DEF NamedNow
  <2> QED BY <2>1, <2>2, <2>3 DEF SprayIInv, NextInv
<1>15. SprayTypeOK'
  BY <1>2, <1>5, <1>9 DEF Charge, SprayIInv, SprayTypeOK
<1> QED BY <1>7, <1>13, <1>14, <1>15 DEF SprayIInv

(***************************************************************************)
(* Time passes: a subject is forgotten no later than the tally that counts *)
(* it, and a request in flight grows older as a subject's time runs out.   *)
(***************************************************************************)
LEMMA SprayTickStep ==
  ASSUME SprayIInv, SprayTick
  PROVE  SprayIInv'
<1>1. ASSUME NEW s \in Subjects
      PROVE  /\ named'[s] \in Note
             /\ named'[s].left > 0 /\ named'[s].counted =>
                  /\ named'[s].left = named[s].left - 1 /\ named[s].left > 1
                  /\ named[s].counted
  <2>1. named'[s] = IF named[s].left <= 1 THEN Unnamed ELSE [named[s] EXCEPT !.left = @ - 1]
    BY DEF SprayTick
  <2>2. CASE named[s].left <= 1
    BY <2>1, <2>2, SprayTypes DEF Unnamed
  <2>3. CASE ~(named[s].left <= 1)
    <3>1. named'[s] = [named[s] EXCEPT !.left = named[s].left - 1]
      BY <2>1, <2>3
    <3>2. named[s].left \in Resets /\ named[s].left \in Int /\ named[s].left > 1
      BY <2>3, SprayTypes
    <3>3. named[s].left - 1 \in Resets
      BY <3>2, SprayTypes DEF Resets
    <3> QED BY <3>1, <3>2, <3>3, SprayTypes DEF Note
  <2> QED BY <2>2, <2>3
<1>2. named' = [s \in Subjects |-> named'[s]]
  BY DEF SprayTick
<1>3. named' \in [Subjects -> Note]
  BY <1>1, <1>2
<1>4. NamedNow' \subseteq NamedNow
  BY <1>1, SprayTypes DEF NamedNow
<1>5. /\ IsFiniteSet(NamedNow') /\ Cardinality(NamedNow') \in Nat
      /\ Cardinality(NamedNow') <= Cardinality(NamedNow)
  BY <1>4, FS_Subset, FS_CardinalityType DEF SprayIInv, TallyInv
<1>6. known' \in [Subjects -> 0 .. SpraySpan]
  <2>1. \A s \in Subjects : Sooner(known[s]) \in 0 .. SpraySpan
    BY SprayTypes DEF SprayIInv, SprayTypeOK, Sooner
  <2> QED BY <2>1 DEF SprayTick
<1>7. ASSUME NEW r \in Namings
      PROVE  /\ naming'[r] \in Naming
             /\ naming'[r].pc # "idle" =>
                  /\ InFlight(r) /\ naming'[r].pc = naming[r].pc
                  /\ naming'[r].age = naming[r].age + 1
                  /\ naming'[r].count = naming[r].count /\ naming'[r].alone = naming[r].alone
  <2>1. naming'[r] = IF naming[r].pc = "idle" THEN Resting ELSE [naming[r] EXCEPT !.age = @ + 1]
    BY DEF SprayTick
  <2>2. CASE naming[r].pc = "idle"
    BY <2>1, <2>2, SprayTypes
  <2>3. CASE naming[r].pc # "idle"
    <3>1. naming[r].age < NamingAge
      BY <2>3 DEF SprayTick
    <3>2. naming'[r] = [naming[r] EXCEPT !.age = naming[r].age + 1]
      BY <2>1, <2>3
    <3>3. naming[r].age + 1 \in 0 .. NamingAge
      BY <3>1, SprayTypes
    <3> QED BY <2>3, <3>2, <3>3, SprayTypes DEF Naming, InFlight
  <2> QED BY <2>2, <2>3
<1>8. naming' \in [Namings -> Naming]
  <2>1. naming' = [r \in Namings |-> naming'[r]]
    BY DEF SprayTick
  <2> QED BY <1>7, <2>1
<1>9. AloneInv'
  BY <1>7 DEF SprayIInv, AloneInv, InFlight
<1>10. NextInv'
  <2>1. SUFFICES ASSUME NEW r \in Namings, naming'[r].pc \in {"marking", "charging"}
                 PROVE  Cardinality(NamedNow') < naming'[r].count
    BY DEF NextInv
  <2>2. Cardinality(NamedNow) < naming[r].count /\ naming'[r].count = naming[r].count
    BY <1>7, <2>1 DEF SprayIInv, NextInv
  <2> QED BY <1>5, <2>2, SprayTypes
<1>11. ASSUME NEW s \in NamedNow'
       PROVE  /\ s \in NamedNow /\ named'[s].left \in Int /\ named[s].left > 1 /\ named'[s].left = named[s].left - 1
              /\ named[s].left <= tally.reset /\ named[s].left <= tally.kept
              /\ \A r \in Namings : naming'[r].pc # "idle" => named'[s].left + naming'[r].age <= SpraySpan
  <2>1. s \in Subjects /\ named'[s].left > 0 /\ named'[s].left = named[s].left - 1
        /\ named[s].left \in Int /\ named[s].left > 1 /\ s \in NamedNow
    BY <1>1, <1>4, SprayTypes DEF NamedNow
  <2>2. /\ named[s].left <= tally.reset /\ named[s].left <= tally.kept
        /\ \A r \in Namings : InFlight(r) => named[s].left + naming[r].age <= SpraySpan
    BY <2>1 DEF SprayIInv, TallyInv
  <2> QED BY <1>7, <2>1, <2>2, SprayTypes
<1>12. CASE tally.kept <= 1
  <2>1. tally' = NoTally /\ NoTally.kept = 0 /\ NoTally.count = 0 /\ NoTally.reset = 0
    BY <1>12 DEF SprayTick, NoTally
  <2>2. NamedNow' = {}
    BY <1>11, <1>12, SprayTypes
  <2>3. Cardinality(NamedNow') = 0
    BY <2>2, FS_EmptySet
  <2>4. TallyInv'
    BY <1>5, <2>1, <2>2, <2>3, SprayTypes DEF TallyInv
  <2>5. SprayTypeOK'
    BY <1>3, <1>6, <1>8, <2>1, SprayTypes DEF SprayTypeOK
  <2> QED BY <1>9, <1>10, <2>4, <2>5 DEF SprayIInv
<1>13. CASE ~(tally.kept <= 1)
  <2>1. tally' = [count |-> tally.count, reset |-> tally.reset - 1, kept |-> tally.kept - 1]
    BY <1>13 DEF SprayTick
  <2>2. tally.kept <= tally.reset + NamingAge /\ Cardinality(NamedNow) <= tally.count
    BY DEF SprayIInv, TallyInv
  <2>3. /\ tally'.count = tally.count
        /\ tally'.reset = tally.reset - 1 /\ tally'.kept = tally.kept - 1
    BY <2>1
  <2>4. tally.reset - 1 \in Resets /\ tally.kept - 1 \in 0 .. SpraySpan
    BY <1>13, <2>2, SprayTypes DEF Resets
  <2>5. TallyInv'
    <3>1. tally'.kept <= tally'.reset + NamingAge /\ Cardinality(NamedNow') <= tally'.count
      BY <1>5, <2>2, <2>3, SprayTypes
    <3>2. ASSUME NEW s \in NamedNow' PROVE named'[s].left <= tally'.reset /\ named'[s].left <= tally'.kept
      BY <1>11, <2>3, SprayTypes
    <3> QED BY <1>5, <1>11, <3>1, <3>2 DEF TallyInv, InFlight
  <2>6. SprayTypeOK'
    BY <1>3, <1>6, <1>8, <2>1, <2>4, SprayTypes DEF SprayTypeOK
  <2> QED BY <1>9, <1>10, <2>5, <2>6 DEF SprayIInv
<1> QED BY <1>12, <1>13

\* Every step keeps the invariant.
LEMMA SprayNextInv == SprayIInv /\ [SprayNext]_sprayVars => SprayIInv'
<1> SUFFICES ASSUME SprayIInv, [SprayNext]_sprayVars PROVE SprayIInv'
  OBVIOUS
<1>1. ASSUME NEW r \in Namings, NamedBefore(r) \/ TooMany(r) \/ NamingFails(r) PROVE SprayIInv'
  <2>1. NamingEnds(r) /\ UNCHANGED <<known, tally>>
    BY <1>1 DEF NamedBefore, TooMany, NamingFails
  <2>2. known' \in [Subjects -> 0 .. SpraySpan]
    BY <2>1 DEF SprayIInv, SprayTypeOK
  <2>3. ASSUME NamedBefore(r), named' # named PROVE NoneCounted
    <3>1. named' = [named EXCEPT ![naming[r].subject].letIn = TRUE]
      BY <2>3 DEF NamedBefore
    <3>2. ASSUME NEW s \in Subjects
          PROVE  /\ named'[s] \in Note /\ named'[s].left = named[s].left
                 /\ named'[s].counted = named[s].counted
      <4>1. named'[s] = named[s] \/ named'[s] = [named[s] EXCEPT !.letIn = TRUE]
        BY <3>1 DEF SprayIInv, SprayTypeOK
      <4> QED BY <4>1, SprayTypes DEF Note
    <3>3. named' = [s \in Subjects |-> named'[s]]
      BY <3>1 DEF SprayIInv, SprayTypeOK
    <3>4. named' \in [Subjects -> Note]
      BY <3>2, <3>3
    <3> QED BY <3>2, <3>4 DEF NoneCounted, NamedNow
  <2>4. ASSUME NamingFails(r), named' # named PROVE NoneCounted
    BY <2>4, NotedUncounted DEF NamingFails
  <2>5. NoneCounted
    BY <1>1, <2>3, <2>4, NamedStays DEF TooMany
  <2> QED BY <2>1, <2>2, <2>5, NamingEndsStep
<1>2. CASE UNCHANGED sprayVars
  BY <1>2 DEF sprayVars, SprayIInv, SprayTypeOK, AloneInv, TallyInv, NextInv, NamedNow, InFlight
<1> QED BY <1>1, <1>2, NameStep, NamedAnewStep, CountStep, MarkKnownStep, ChargeStep, SprayTickStep
           DEF SprayNext

LEMMA SprayStarts == SprayInit => SprayIInv
<1> SUFFICES ASSUME SprayInit PROVE SprayIInv
  OBVIOUS
<1>1. Resting \in Naming /\ Resting.pc = "idle" /\ 0 \in Resets
      /\ NoTally \in [count : 0 .. SprayMax, reset : Resets, kept : 0 .. SpraySpan]
  BY SprayAssumption DEF Resting, Naming, NoTally, Resets
<1>2. SprayTypeOK
  <2>1. Unnamed \in Note
    BY SprayAssumption DEF Unnamed, Note, Resets
  <2> QED BY <1>1, <2>1, SprayAssumption DEF SprayInit, SprayTypeOK
<1>3. AloneInv /\ NextInv
  BY <1>1 DEF SprayInit, AloneInv, NextInv, InFlight
<1>4. NamedNow = {} /\ Cardinality({}) = 0 /\ IsFiniteSet({})
  BY FS_EmptySet DEF SprayInit, NamedNow, Unnamed
<1>5. TallyInv
  BY <1>4, SprayAssumption DEF SprayInit, TallyInv, NoTally
<1> QED BY <1>2, <1>3, <1>5 DEF SprayIInv

(***************************************************************************)
(* The types, what the count covers and who is alone are one inductive     *)
(* invariant of the guard (subjectSprayGuard).                             *)
(***************************************************************************)
THEOREM SprayInvariant == SpraySpec => []SprayIInv
BY SprayStarts, SprayNextInv, PTL DEF SpraySpec

(***************************************************************************)
(* In no window has a client been let in with more new subjects than the   *)
(* maximum, of those whose requests nothing overlapped, but for the ones   *)
(* that have their marker from a request that failed before its count      *)
(* (subjectSprayGuard): these are not counted, and take no other's place.  *)
(***************************************************************************)
THEOREM SprayIsBounded == SpraySpec => []SprayHolds
<1>1. SprayIInv => SprayHolds
  <2> SUFFICES ASSUME SprayIInv PROVE SprayHolds
    OBVIOUS
  <2>1. IsFiniteSet(NamedNow) /\ Cardinality(NamedNow) <= tally.count
    BY DEF SprayIInv, TallyInv
  <2>2. LetIn \ Slipped \subseteq NamedNow
    BY DEF LetIn, Slipped, NamedNow
  <2>3. /\ Cardinality(LetIn \ Slipped) <= Cardinality(NamedNow)
        /\ Cardinality(LetIn \ Slipped) \in Nat
    BY <2>1, <2>2, FS_Subset, FS_CardinalityType
  <2> QED BY <2>1, <2>3, SprayTypes DEF SprayHolds
<1> QED BY <1>1, SprayInvariant, PTL

-----------------------------------------------------------------------------
(* The release drill.                                                      *)

\* The files that hold more than a verdict.
Documents == {"pack", "readiness", "checks", "manifest", "check", "ledger"}

\* What is before what in the two orders of the steps.
LEMMA DrillOrder ==
  /\ DOMAIN Steps = {"drill", "prelive"}
  /\ Steps["drill"] = DrillSteps /\ Steps["prelive"] = PreliveSteps
  /\ DOMAIN DrillSteps = 1 .. 13 /\ Len(DrillSteps) = 13
  /\ DOMAIN PreliveSteps = 1 .. 11 /\ Len(PreliveSteps) = 11
BY DEF Steps, DrillSteps, PreliveSteps

LEMMA DrillPlaces ==
  ASSUME NEW i \in 1 .. 13
  PROVE  /\ DrillSteps[i] = "legacy" <=> i = 3
         /\ DrillSteps[i] = "maps" <=> i = 4
         /\ DrillSteps[i] = "variants" <=> i = 5
         /\ DrillSteps[i] = "checks" <=> i = 6
         /\ DrillSteps[i] = "pack" <=> i = 7
         /\ DrillSteps[i] = "readiness" <=> i = 9
         /\ DrillSteps[i] = "manifest" <=> i = 10
         /\ DrillSteps[i] = "check" <=> i = 12
         /\ DrillSteps[i] = "ledger" <=> i = 13
BY DEF DrillSteps

LEMMA PrelivePlaces ==
  ASSUME NEW i \in 1 .. 11
  PROVE  /\ PreliveSteps[i] # "legacy" /\ PreliveSteps[i] # "maps"
         /\ PreliveSteps[i] = "variants" <=> i = 2
         /\ PreliveSteps[i] = "pack" <=> i = 4
         /\ PreliveSteps[i] = "readiness" <=> i = 6
         /\ PreliveSteps[i] = "checks" <=> i = 7
         /\ PreliveSteps[i] = "manifest" <=> i = 8
         /\ PreliveSteps[i] = "check" <=> i = 10
         /\ PreliveSteps[i] = "ledger" <=> i = 11
BY DEF PreliveSteps

LEMMA FilesNamed ==
  Files = {"reports", "gateText", "legacy", "maps", "variants", "checks", "pack", "checklist",
           "readiness", "manifest", "validation", "check", "ledger"}
<1>1. \A i \in 1 .. 13 :
        DrillSteps[i] \in {"reports", "gateText", "legacy", "maps", "variants", "checks", "pack",
                           "checklist", "readiness", "manifest", "validation", "check", "ledger"}
  BY DEF DrillSteps
<1>2. /\ DrillSteps[1] = "reports" /\ DrillSteps[2] = "gateText" /\ DrillSteps[3] = "legacy"
      /\ DrillSteps[4] = "maps" /\ DrillSteps[5] = "variants" /\ DrillSteps[6] = "checks"
      /\ DrillSteps[7] = "pack" /\ DrillSteps[8] = "checklist" /\ DrillSteps[9] = "readiness"
      /\ DrillSteps[10] = "manifest" /\ DrillSteps[11] = "validation" /\ DrillSteps[12] = "check"
      /\ DrillSteps[13] = "ledger"
  BY DEF DrillSteps
<1> QED BY <1>1, <1>2, DrillOrder DEF Files

LEMMA PreliveFiles ==
  ASSUME NEW i \in 1 .. 11
  PROVE  PreliveSteps[i] \in Files
<1>1. PreliveSteps[i] \in {"reports", "gateText", "variants", "checks", "pack", "checklist",
                           "readiness", "manifest", "validation", "check", "ledger"}
  BY DEF PreliveSteps
<1> QED BY <1>1, FilesNamed

(***************************************************************************)
(* Where a run stands: which documents it has written when it writes the   *)
(* next one, and that what the pack and the check are about is not written *)
(* after them.                                                             *)
(***************************************************************************)
LEMMA StepOrder ==
  ASSUME RunTypeOK, Running
  PROVE  /\ Step \in Files
         /\ \A s \in Documents : Step = s => ~Taken(s)
         /\ Taken("readiness") => Taken("pack")
         /\ Taken("manifest") => Taken("readiness")
         /\ Taken("check") => Taken("manifest") /\ Taken("checks")
         /\ Taken("ledger") => FALSE
         /\ Taken("check") => Step = "ledger"
         /\ Step = "readiness" => Taken("pack")
         /\ Step = "manifest" => Taken("readiness")
         /\ Step = "checks" /\ run.kind # "drill" => Taken("readiness")
         /\ Step = "check" => Taken("manifest") /\ Taken("checks")
         /\ Step = "ledger" => Taken("check")
         /\ Step \in {"legacy", "maps", "variants"} => ~Taken("pack")
         /\ run.pc < Len(Steps[run.kind]) <=> Step # "ledger"
<1>1. CASE run.kind = "drill"
  <2>1. run.pc \in 1 .. 13 /\ Step = DrillSteps[run.pc]
    BY <1>1, DrillOrder DEF RunTypeOK, Step
  <2>2. \A s \in {"legacy"} \cup Documents :
          Taken(s) <=> \E i \in 1 .. run.pc - 1 : DrillSteps[i] = s
    BY <1>1, DrillOrder DEF Taken, Running
  <2>3. /\ Taken("pack") <=> run.pc > 7
        /\ Taken("readiness") <=> run.pc > 9
        /\ Taken("checks") <=> run.pc > 6
        /\ Taken("manifest") <=> run.pc > 10
        /\ Taken("check") <=> run.pc > 12
        /\ Taken("ledger") <=> run.pc > 13
    BY <2>1, <2>2, DrillPlaces DEF Documents
  <2>4. Step \in Files
    BY <2>1, DrillOrder DEF Files
  <2> QED BY <1>1, <2>1, <2>3, <2>4, DrillPlaces, DrillOrder DEF Documents
<1>2. CASE run.kind = "prelive"
  <2>1. run.pc \in 1 .. 11 /\ Step = PreliveSteps[run.pc]
    BY <1>2, DrillOrder DEF RunTypeOK, Step
  <2>2. \A s \in Documents : Taken(s) <=> \E i \in 1 .. run.pc - 1 : PreliveSteps[i] = s
    BY <1>2, DrillOrder DEF Taken, Running
  <2>3. /\ Taken("pack") <=> run.pc > 4
        /\ Taken("readiness") <=> run.pc > 6
        /\ Taken("checks") <=> run.pc > 7
        /\ Taken("manifest") <=> run.pc > 8
        /\ Taken("check") <=> run.pc > 10
        /\ Taken("ledger") <=> run.pc > 11
    BY <2>1, <2>2, PrelivePlaces DEF Documents
  <2>4. Step \in Files
    BY <2>1, PreliveFiles
  <2> QED BY <1>2, <2>1, <2>3, <2>4, PrelivePlaces, DrillOrder DEF Documents
<1> QED BY <1>1, <1>2, DrillOrder DEF Running

\* A step that is taken is taken from then on, and no other one is.
LEMMA TakenNext ==
  ASSUME RunTypeOK, TakeStep
  PROVE  /\ \A s \in Documents : Taken(s)' <=> Taken(s) \/ s = Step
         /\ RunTypeOK'
         /\ run'.release = run.release
<1>1. CASE run.pc < Len(Steps[run.kind])
  <2>1. /\ run' = [run EXCEPT !.pc = run.pc + 1]
        /\ Running /\ Step = Steps[run.kind][run.pc]
    BY <1>1 DEF TakeStep, Step
  <2>2. run.pc \in 1 .. Len(Steps[run.kind]) /\ Len(Steps[run.kind]) \in Nat
        /\ DOMAIN Steps[run.kind] = 1 .. Len(Steps[run.kind])
    BY <2>1, DrillOrder DEF RunTypeOK, Running
  <2>3. run'.kind = run.kind /\ run'.release = run.release /\ run'.strict = run.strict
    BY <2>1
  <2>4. run'.pc = run.pc + 1
        /\ run' \in [kind : DOMAIN Steps, pc : Nat, release : Releases, strict : BOOLEAN]
    BY <2>1, <2>2 DEF RunTypeOK
  <2>5. RunTypeOK'
    BY <1>1, <2>1, <2>2, <2>3, <2>4, DrillOrder DEF RunTypeOK, Running, TakeStep
  <2>6. run.kind # "done"
    BY <2>1, DrillOrder DEF Running
  <2>7. ASSUME NEW s \in Documents PROVE Taken(s)' <=> Taken(s) \/ s = Step
    BY <2>1, <2>2, <2>3, <2>4, <2>6 DEF Taken, Running
  <2> QED BY <2>3, <2>5, <2>7
<1>2. CASE ~(run.pc < Len(Steps[run.kind]))
  <2>1. run' = [kind |-> "done", release |-> run.release]
    BY <1>2 DEF TakeStep
  <2>2. run'.kind = "done" /\ run'.release = run.release /\ run.release \in Releases
    BY <2>1, DrillOrder DEF RunTypeOK, TakeStep, Running
  <2>3. RunTypeOK'
    BY <2>2, DrillOrder DEF RunTypeOK, Running, TakeStep
  <2>4. Running /\ Step = "ledger"
    BY <1>2, StepOrder DEF TakeStep
  <2>5. Taken("check") /\ Taken("manifest") /\ Taken("checks") /\ Taken("readiness") /\ Taken("pack")
    BY <2>4, StepOrder
  <2> QED BY <2>2, <2>3, <2>4, <2>5 DEF Taken, Documents
<1> QED BY <1>1, <1>2

\* What the documents are made of.
LEMMA OutputIs ==
  /\ Output("pack") = NewPack /\ Output("readiness") = NewReadiness
  /\ Output("checks") = NewChecks /\ Output("manifest") = NewManifest
  /\ Output("ledger") = NewLedger
  /\ Output("variants") \in {"pass", "own"}
  /\ \A s \in Files \ {"pack", "readiness", "checks", "manifest", "ledger", "variants"} :
       Output(s) = "pass"
<1>1. Output("pack") = NewPack /\ Output("readiness") = NewReadiness
  BY DEF Output
<1>2. Output("checks") = NewChecks /\ Output("manifest") = NewManifest
  BY DEF Output
<1>3. Output("ledger") = NewLedger /\ Output("variants") \in {"pass", "own"}
  BY DEF Output
<1>4. \A s \in Files \ {"pack", "readiness", "checks", "manifest", "ledger", "variants"} :
        Output(s) = "pass"
  BY FilesNamed DEF Output
<1> QED BY <1>1, <1>2, <1>3, <1>4

\* A step that goes on has found the documents it reads in order.
LEMMA AcceptsIs ==
  /\ Accepts("pack") => Status(NewPack) # "blocked"
  /\ Accepts("readiness") => Status(NewReadiness) \in {"ready", "warning"}
  /\ Accepts("check") => ArtifactsAgree
<1>1. Accepts("pack") => Status(NewPack) # "blocked"
  BY DEF Accepts
<1>2. Accepts("readiness") => Status(NewReadiness) \in {"ready", "warning"}
  BY DEF Accepts
<1>3. Accepts("check") => ArtifactsAgree
  BY DEF Accepts
<1> QED BY <1>1, <1>2, <1>3

\* The pack and the readiness report complain of the gate and of other things.
LEMMA Complaints ==
  ASSUME NEW doc, Status(doc) # "blocked"
  PROVE  doc.blockers = {} /\ Status(doc) = IF doc.warnings = {} THEN "ready" ELSE "warning"
BY DEF Status

LEMMA NewPackIs ==
  /\ NewPack.release = run.release
  /\ NewPack.blockers \cup NewPack.warnings \subseteq {"ao", "other"}
  /\ "other" \in NewPack.warnings \/ {Section("legacy"), Section("maps")} \subseteq {"pass", "missing"}
<1> DEFINE sections == {Section("legacy"), Section("maps")}
           blockers == IF run.kind = "drill" THEN AoComplaint ELSE {}
           warnings == Amiss(sections) \cup (IF run.kind = "drill" THEN {} ELSE AoComplaint)
<1>1. NewPack = [release |-> run.release, sections |-> sections,
                 blockers |-> blockers, warnings |-> warnings]
  BY DEF NewPack
<1>2. AoComplaint \subseteq {"ao"}
  BY DEF AoComplaint
<1>3. Amiss(sections) \subseteq {"other"}
      /\ ("other" \in Amiss(sections) \/ sections \subseteq {"pass", "missing"})
  BY DEF Amiss
<1>4. blockers \subseteq {"ao"} /\ warnings \subseteq {"ao", "other"}
      /\ ("other" \in warnings \/ sections \subseteq {"pass", "missing"})
  BY <1>2, <1>3
<1>5. NewPack.release = run.release /\ NewPack.blockers = blockers /\ NewPack.warnings = warnings
  BY <1>1
<1> QED BY <1>4, <1>5

LEMMA NewReadinessIs ==
  /\ NewReadiness.release = dir["pack"].release
  /\ NewReadiness.warnings = dir["pack"].warnings
  /\ NewReadiness.blockers \subseteq dir["pack"].blockers \cup {"other"}
BY DEF NewReadiness

(***************************************************************************)
(* A step writes its file, and what it writes is of the file's kind.       *)
(***************************************************************************)
LEMMA WriteStep ==
  ASSUME DrillIInv, Running, dir' = [dir EXCEPT ![Step] = Output(Step)],
         UNCHANGED gate, passed' \subseteq Releases
  PROVE  /\ \A f \in Files : dir'[f] = IF f = Step THEN Output(f) ELSE dir[f]
         /\ DrillTypeOK'
<1>1. Step \in Files /\ DOMAIN dir = Files
  BY StepOrder DEF DrillIInv, DrillTypeOK
<1>2. /\ \A f \in Files : dir'[f] = IF f = Step THEN Output(f) ELSE dir[f]
      /\ DOMAIN dir' = Files
  BY <1>1
<1>3. run.release \in Releases
  BY DEF DrillIInv, RunTypeOK
<1>4. \A f \in {"reports", "gateText", "checklist", "validation", "check"} : dir'[f] \in {Absent, "pass"}
  BY <1>2, OutputIs, FilesNamed DEF DrillIInv, DrillTypeOK
<1>5. \A f \in {"legacy", "maps", "variants"} : dir'[f] \in Evidence \cup {Absent}
  BY <1>2, OutputIs, FilesNamed DEF DrillIInv, DrillTypeOK, Evidence
<1>6. dir'["pack"] # Absent =>
        /\ dir'["pack"].release \in Releases
        /\ dir'["pack"].blockers \cup dir'["pack"].warnings \subseteq {"ao", "other"}
  <2>1. CASE Step = "pack"
    BY <1>2, <1>3, <2>1, OutputIs, NewPackIs, FilesNamed
  <2>2. CASE Step # "pack"
    <3>1. dir'["pack"] = dir["pack"]
      BY <1>2, <2>2, FilesNamed
    <3> QED BY <3>1 DEF DrillIInv, DrillTypeOK
  <2> QED BY <2>1, <2>2
<1>7. dir'["readiness"] # Absent =>
        /\ dir'["readiness"].release \in Releases
        /\ dir'["readiness"].blockers \cup dir'["readiness"].warnings \subseteq {"ao", "other"}
  <2>1. CASE Step = "readiness"
    <3>1. Taken("pack")
      BY <2>1, StepOrder DEF DrillIInv
    <3>2. dir'["readiness"] = NewReadiness
      BY <1>2, <2>1, OutputIs, FilesNamed
    <3> QED BY <1>3, <3>1, <3>2, NewReadinessIs DEF DrillIInv, DocumentsInv
  <2>2. CASE Step # "readiness"
    <3>1. dir'["readiness"] = dir["readiness"]
      BY <1>2, <2>2, FilesNamed
    <3> QED BY <3>1 DEF DrillIInv, DrillTypeOK
  <2> QED BY <2>1, <2>2
<1>8. dir'["manifest"] # Absent => dir'["manifest"].status \in {"ready", "warning"}
  <2>1. CASE Step = "manifest"
    <3>1. dir'["manifest"] = NewManifest /\ NewManifest.status = Status(dir["readiness"])
      BY <1>2, <2>1, OutputIs, FilesNamed DEF NewManifest
    <3>2. dir["readiness"].blockers = {}
      BY <2>1, StepOrder DEF DrillIInv, DocumentsInv
    <3> QED BY <3>1, <3>2 DEF Status
  <2>2. CASE Step # "manifest"
    BY <1>2, <2>2, FilesNamed DEF DrillIInv, DrillTypeOK
  <2> QED BY <2>1, <2>2
<1>9. dir'["ledger"] # Absent => dir'["ledger"].ready \in BOOLEAN
  <2>1. CASE Step = "ledger"
    <3>1. dir'["ledger"] = NewLedger
      BY <1>2, <2>1, OutputIs, FilesNamed
    <3>2. NewLedger.ready = (Status(dir["pack"]) = "ready" /\ Status(dir["readiness"]) = "ready")
      BY DEF NewLedger
    <3> QED BY <3>1, <3>2
  <2>2. CASE Step # "ledger"
    BY <1>2, <2>2, FilesNamed DEF DrillIInv, DrillTypeOK
  <2> QED BY <2>1, <2>2
<1>10. gate' \in [state : GateStates, release : Releases]
  BY DEF DrillIInv, DrillTypeOK
<1> QED BY <1>2, <1>4, <1>5, <1>6, <1>7, <1>8, <1>9, <1>10 DEF DrillTypeOK

(***************************************************************************)
(* A run goes on by a step: the documents it has written agree on its      *)
(* release, those that are made of others still are, and what the check    *)
(* found holds.                                                            *)
(***************************************************************************)
LEMMA TakeStepInv ==
  ASSUME DrillIInv, TakeStep
  PROVE  DrillIInv'
<1>1. /\ Running /\ Accepts(Step) /\ dir' = [dir EXCEPT ![Step] = Output(Step)]
      /\ passed' = IF Step = "check" THEN passed \cup {run.release} ELSE passed
      /\ UNCHANGED <<gate, closeout, spent>>
  BY DEF TakeStep
<1>2. RunTypeOK /\ run.release \in Releases /\ passed \subseteq passed' /\ passed' \subseteq Releases
  BY <1>1 DEF DrillIInv, DrillTypeOK, RunTypeOK
<1>3. DrillTypeOK' /\ \A f \in Files : dir'[f] = IF f = Step THEN Output(f) ELSE dir[f]
  BY <1>1, <1>2, WriteStep
<1>4. /\ RunTypeOK' /\ run'.release = run.release
      /\ \A s \in Documents : Taken(s)' <=> Taken(s) \/ s = Step
  BY <1>2, TakenNext
<1>5. ASSUME NEW f \in Documents, Taken(f) PROVE dir'[f] = dir[f]
  BY <1>1, <1>2, <1>3, <1>5, StepOrder, FilesNamed DEF Documents
<1>6. ASSUME Taken("pack")'
      PROVE  /\ dir'["pack"].release = run'.release
             /\ dir'["pack"].blockers = {} /\ dir'["pack"].warnings \subseteq {"ao", "other"}
             /\ "other" \in dir'["pack"].warnings
                  \/ ({Section("legacy"), Section("maps")} \subseteq {"pass", "missing"})'
                  \/ spent.touched
  <2>1. CASE Taken("pack")
    <3>1. dir'["pack"] = dir["pack"]
      BY <1>5, <2>1 DEF Documents
    <3>2. Step \notin {"legacy", "maps"}
      BY <1>1, <1>2, <2>1, StepOrder
    <3>3. dir'["legacy"] = dir["legacy"] /\ dir'["maps"] = dir["maps"]
      BY <1>3, <3>2, FilesNamed
    <3> QED BY <1>4, <2>1, <3>1, <3>3 DEF DrillIInv, DocumentsInv, UntouchedInv, Section
  <2>2. CASE Step = "pack"
    <3>1. dir'["pack"] = NewPack /\ NewPack.blockers = {}
      BY <1>1, <1>3, <2>2, OutputIs, AcceptsIs, Complaints, FilesNamed
    <3>2. dir'["legacy"] = dir["legacy"] /\ dir'["maps"] = dir["maps"]
      BY <1>3, <2>2, FilesNamed
    <3> QED BY <1>4, <3>1, <3>2, NewPackIs DEF Section
  <2> QED BY <1>4, <1>6, <2>1, <2>2 DEF Documents
<1>7. ASSUME Taken("readiness")'
      PROVE  /\ dir'["readiness"].release = run'.release
             /\ dir'["readiness"].blockers = {} /\ dir'["readiness"].warnings = dir'["pack"].warnings
  <2>1. CASE Taken("readiness")
    <3>1. dir'["readiness"] = dir["readiness"] /\ dir'["pack"] = dir["pack"]
      BY <1>1, <1>2, <1>5, <2>1, StepOrder DEF Documents
    <3> QED BY <1>4, <2>1, <3>1 DEF DrillIInv, DocumentsInv
  <2>2. CASE Step = "readiness"
    <3>1. Taken("pack") /\ dir'["pack"] = dir["pack"]
      BY <1>1, <1>2, <1>5, <2>2, StepOrder DEF Documents
    <3>2. dir'["readiness"] = NewReadiness /\ Status(NewReadiness) # "blocked"
      BY <1>1, <1>3, <2>2, OutputIs, AcceptsIs, FilesNamed
    <3>3. NewReadiness.blockers = {}
      BY <3>2, Complaints
    <3> QED BY <1>4, <3>1, <3>2, <3>3, NewReadinessIs DEF DrillIInv, DocumentsInv
  <2> QED BY <1>4, <1>7, <2>1, <2>2 DEF Documents
<1>8. ASSUME Taken("checks")' PROVE dir'["checks"].release = run'.release
  <2>1. CASE Taken("checks")
    BY <1>4, <1>5, <2>1 DEF Documents, DrillIInv, DocumentsInv
  <2>2. CASE Step = "checks"
    <3>1. dir'["checks"] = NewChecks
      BY <1>3, <2>2, OutputIs, FilesNamed
    <3>2. NewChecks.release = IF run.kind = "drill" THEN run.release ELSE dir["readiness"].release
      BY DEF NewChecks
    <3>3. run.kind # "drill" => dir["readiness"].release = run.release
      BY <1>1, <1>2, <2>2, StepOrder DEF DrillIInv, DocumentsInv
    <3> QED BY <1>4, <3>1, <3>2, <3>3
  <2> QED BY <1>4, <1>8, <2>1, <2>2 DEF Documents
<1>9. ASSUME Taken("manifest")' PROVE dir'["manifest"] = NewManifest'
  <2>1. Taken("readiness") /\ dir'["readiness"] = dir["readiness"]
    BY <1>1, <1>2, <1>4, <1>5, <1>9, StepOrder DEF Documents
  <2>2. CASE Taken("manifest")
    BY <1>5, <2>1, <2>2 DEF Documents, DrillIInv, DocumentsInv, NewManifest
  <2>3. CASE Step = "manifest"
    BY <1>3, <2>1, <2>3, OutputIs, FilesNamed DEF NewManifest
  <2> QED BY <1>4, <1>9, <2>2, <2>3 DEF Documents
<1>10. ASSUME Taken("ledger")' PROVE dir'["ledger"] = NewLedger' /\ Step = "ledger"
  <2>1. Step = "ledger"
    BY <1>1, <1>2, <1>4, <1>10, StepOrder DEF Documents
  <2>2. dir'["readiness"] = dir["readiness"] /\ dir'["pack"] = dir["pack"]
    BY <1>3, <2>1, FilesNamed
  <2> QED BY <1>3, <2>1, <2>2, OutputIs, FilesNamed DEF NewLedger
<1>11. DocumentsInv'
  BY <1>6, <1>7, <1>8, <1>9, <1>10 DEF DocumentsInv
<1>12. ASSUME Taken("check")', ~spent.touched PROVE Present(CheckedFiles)' /\ Embeds(dir["checks"])'
  <2>1. Step \in {"check", "ledger"}
    BY <1>1, <1>2, <1>4, <1>12, StepOrder DEF Documents
  <2>2. \A f \in CheckedFiles : dir'[f] = dir[f]
    BY <1>3, <2>1 DEF CheckedFiles
  <2>3. Present(CheckedFiles) /\ Embeds(dir["checks"])
    <3>1. CASE Step = "check"
      BY <1>1, <3>1, AcceptsIs DEF ArtifactsAgree
    <3>2. CASE Step = "ledger"
      BY <1>1, <1>2, <1>12, <3>2, StepOrder DEF DrillIInv, UntouchedInv
    <3> QED BY <2>1, <3>1, <3>2
  <2> QED BY <2>2, <2>3, FilesNamed DEF Present, Embeds, CheckedFiles
<1>13. UntouchedInv'
  BY <1>1, <1>6, <1>12 DEF UntouchedInv
<1>14. ASSUME Taken("check")' PROVE run'.release \in passed' /\ dir'["check"] = "pass"
  <2>1. CASE Taken("check")
    BY <1>2, <1>4, <1>5, <2>1 DEF Documents, DrillIInv, PassedInv
  <2>2. CASE Step = "check"
    <3>1. Output("check") = "pass"
      BY OutputIs, FilesNamed
    <3> QED BY <1>1, <1>3, <1>4, <2>2, <3>1, FilesNamed
  <2> QED BY <1>4, <1>14, <2>1, <2>2 DEF Documents
<1>15. ASSUME dir'["ledger"] # Absent PROVE dir'["ledger"].release \in passed'
  <2>1. CASE Step = "ledger"
    <3>1. dir'["ledger"] = NewLedger /\ NewLedger.release = dir["readiness"].release
      BY <1>3, <2>1, OutputIs, FilesNamed DEF NewLedger
    <3>2. Taken("check") /\ Taken("readiness")
      BY <1>1, <1>2, <2>1, StepOrder
    <3> QED BY <1>2, <3>1, <3>2 DEF DrillIInv, DocumentsInv, PassedInv
  <2>2. CASE Step # "ledger"
    BY <1>2, <1>3, <1>15, <2>2, FilesNamed DEF DrillIInv, PassedInv
  <2> QED BY <2>1, <2>2
<1>16. PassedInv' /\ CloseoutTypeOK'
  BY <1>1, <1>2, <1>14, <1>15 DEF DrillIInv, PassedInv, CloseoutTypeOK
<1> QED BY <1>3, <1>4, <1>11, <1>13, <1>16 DEF DrillIInv

\* A run begins, or is over: none of its steps is taken.
LEMMA NoneTaken ==
  ASSUME DrillIInv, UNCHANGED <<gate, closeout, passed>>, DrillTypeOK', RunTypeOK',
         \A s \in Documents : ~Taken(s)',
         dir'["ledger"] # Absent => dir'["ledger"].release \in passed
  PROVE  DrillIInv'
<1>1. DocumentsInv' /\ UntouchedInv'
  BY DEF DocumentsInv, UntouchedInv, Documents
<1>2. PassedInv' /\ CloseoutTypeOK'
  BY DEF DrillIInv, PassedInv, CloseoutTypeOK, Documents
<1> QED BY <1>1, <1>2 DEF DrillIInv

LEMMA StartRunStep ==
  ASSUME DrillIInv, NEW kind \in DOMAIN Steps, NEW r \in Releases, NEW strict \in BOOLEAN,
         StartRun(kind, r, strict)
  PROVE  DrillIInv'
<1>1. /\ run' = [kind |-> kind, pc |-> 1, release |-> r, strict |-> strict]
      /\ spent' = [spent EXCEPT !.runs = @ + 1, !.touched = FALSE]
      /\ UNCHANGED <<dir, gate, closeout, passed>>
  BY DEF StartRun
<1>2. run'.kind = kind /\ run'.pc = 1 /\ kind \in {"drill", "prelive"}
  BY <1>1, DrillOrder
<1>3. spent' \in [runs : Nat, edits : Nat, touched : BOOLEAN]
  <2>1. spent \in [runs : Nat, edits : Nat, touched : BOOLEAN] /\ spent.runs + 1 \in Nat
    BY DEF DrillIInv, RunTypeOK
  <2>2. spent' = [[spent EXCEPT !.runs = spent.runs + 1] EXCEPT !.touched = FALSE]
    BY <1>1, <2>1
  <2> QED BY <2>1, <2>2
<1>4. RunTypeOK'
  BY <1>1, <1>2, <1>3, DrillOrder DEF RunTypeOK
<1>5. \A s \in Documents : ~Taken(s)'
  BY <1>2 DEF Taken
<1>6. DrillTypeOK'
  BY <1>1 DEF DrillIInv, DrillTypeOK
<1>7. dir'["ledger"] # Absent => dir'["ledger"].release \in passed
  BY <1>1 DEF DrillIInv, PassedInv
<1> QED BY <1>1, <1>4, <1>5, <1>6, <1>7, NoneTaken

LEMMA RunOverStep ==
  ASSUME DrillIInv, WriteAndFail \/ Stop
  PROVE  DrillIInv'
<1>1. run' = NoRun /\ run'.kind = "idle" /\ UNCHANGED <<gate, closeout, passed, spent>>
  BY DEF WriteAndFail, Stop, NoRun
<1>2. RunTypeOK' /\ \A s \in Documents : ~Taken(s)'
  BY <1>1, DrillOrder DEF DrillIInv, RunTypeOK, Taken, Running
<1>3. DrillTypeOK' /\ (dir'["ledger"] # Absent => dir'["ledger"].release \in passed)
  <2>1. CASE Stop
    BY <2>1 DEF Stop, DrillIInv, DrillTypeOK, PassedInv
  <2>2. CASE WriteAndFail
    <3>1. DrillTypeOK' /\ \A f \in Files : dir'[f] = IF f = Step THEN Output(f) ELSE dir[f]
      BY <1>1, <2>2, WriteStep DEF WriteAndFail, DrillIInv, DrillTypeOK
    <3>2. CASE Step = "ledger"
      <4>1. dir'["ledger"] = NewLedger /\ NewLedger.release = dir["readiness"].release
        BY <3>1, <3>2, OutputIs, FilesNamed DEF NewLedger
      <4>2. Taken("check") /\ Taken("readiness")
        BY <2>2, <3>2, StepOrder DEF WriteAndFail, DrillIInv
      <4> QED BY <3>1, <4>1, <4>2 DEF DrillIInv, DocumentsInv, PassedInv
    <3>3. CASE Step # "ledger"
      BY <3>1, <3>3, FilesNamed DEF DrillIInv, PassedInv
    <3> QED BY <3>1, <3>2, <3>3
  <2> QED BY <2>1, <2>2
<1> QED BY <1>1, <1>2, <1>3, NoneTaken

\* Operators edit the gate, which no document is compared with but at the end.
LEMMA EditGateStep ==
  ASSUME DrillIInv, EditGate
  PROVE  DrillIInv'
<1>1. /\ UNCHANGED <<dir, run, closeout, passed>>
      /\ gate' \in [state : GateStates, release : Releases]
      /\ spent' = [spent EXCEPT !.edits = @ + 1]
  BY DEF EditGate
<1>2. spent' \in [runs : Nat, edits : Nat, touched : BOOLEAN] /\ spent'.touched = spent.touched
  BY <1>1 DEF DrillIInv, RunTypeOK
<1>3. DrillTypeOK' /\ RunTypeOK' /\ CloseoutTypeOK'
  BY <1>1, <1>2 DEF DrillIInv, DrillTypeOK, RunTypeOK, Running, CloseoutTypeOK
<1>4. DocumentsInv' /\ PassedInv'
  BY <1>1 DEF DrillIInv, DocumentsInv, PassedInv, Taken, Running, NewManifest, NewLedger
<1>5. UntouchedInv'
  BY <1>1, <1>2 DEF DrillIInv, UntouchedInv, Taken, Running, Section, Present, Embeds
<1> QED BY <1>3, <1>4, <1>5 DEF DrillIInv

\* A check that is run by hand leaves the documents alone.
LEMMA CheckByHandStep ==
  ASSUME DrillIInv, NEW files \in SUBSET {"legacy", "maps"}, NEW found \in Evidence,
         CheckByHand(files, found)
  PROVE  DrillIInv'
<1>1. /\ UNCHANGED <<gate, run, closeout, passed>>
      /\ dir' = [f \in Files |-> IF f \in files THEN found ELSE dir[f]]
      /\ spent' = [spent EXCEPT !.edits = @ + 1, !.touched = TRUE]
  BY DEF CheckByHand
<1>2. spent' \in [runs : Nat, edits : Nat, touched : BOOLEAN] /\ spent'.touched
  <2>1. spent \in [runs : Nat, edits : Nat, touched : BOOLEAN] /\ spent.edits + 1 \in Nat
    BY DEF DrillIInv, RunTypeOK
  <2>2. spent' = [[spent EXCEPT !.edits = spent.edits + 1] EXCEPT !.touched = TRUE]
    BY <1>1, <2>1
  <2> QED BY <2>1, <2>2
<1>3. \A f \in Files \ {"legacy", "maps"} : dir'[f] = dir[f]
  BY <1>1
<1>4. \A f \in {"legacy", "maps"} : dir'[f] \in Evidence \cup {Absent}
  BY <1>1, FilesNamed DEF DrillIInv, DrillTypeOK
<1>5. DrillTypeOK'
  BY <1>1, <1>3, <1>4, FilesNamed DEF DrillIInv, DrillTypeOK
<1>6. RunTypeOK' /\ CloseoutTypeOK'
  BY <1>1, <1>2 DEF DrillIInv, RunTypeOK, Running, CloseoutTypeOK
<1>7. DocumentsInv' /\ PassedInv'
  BY <1>1, <1>3, FilesNamed
     DEF DrillIInv, DocumentsInv, PassedInv, Taken, Running, NewManifest, NewLedger
<1>8. UntouchedInv'
  BY <1>2 DEF UntouchedInv
<1> QED BY <1>5, <1>6, <1>7, <1>8 DEF DrillIInv

\* Where all that is named is of one release, the pack is of the ledger's.
LEMMA OneReleaseIs ==
  ASSUME OneRelease
  PROVE  dir["pack"].release = dir["ledger"].release
<1> DEFINE docs == {dir[f].release : f \in {"pack", "readiness", "checks", "manifest", "ledger"}}
<1>1. docs = {dir["pack"].release, dir["readiness"].release, dir["checks"].release,
              dir["manifest"].release, dir["ledger"].release}
  OBVIOUS
<1>2. ReleasesNamed = (((({dir["pack"].release} \cup {dir["readiness"].release})
                        \cup {dir["checks"].release}) \cup {dir["manifest"].release})
                        \cup {dir["ledger"].release}) \cup {gate.release}
  BY <1>1 DEF ReleasesNamed
<1>3. IsFiniteSet(ReleasesNamed)
  <2> DEFINE three == ({dir["pack"].release} \cup {dir["readiness"].release})
                        \cup {dir["checks"].release}
  <2>1. IsFiniteSet({dir["pack"].release})
    BY FS_Singleton
  <2>2. IsFiniteSet({dir["pack"].release} \cup {dir["readiness"].release})
    BY <2>1, FS_AddElement
  <2>3. IsFiniteSet(three)
    BY <2>2, FS_AddElement
  <2> HIDE DEF three
  <2>4. IsFiniteSet(three \cup {dir["manifest"].release})
    BY <2>3, FS_AddElement
  <2>5. IsFiniteSet((three \cup {dir["manifest"].release}) \cup {dir["ledger"].release})
    BY <2>4, FS_AddElement
  <2>6. IsFiniteSet(((three \cup {dir["manifest"].release}) \cup {dir["ledger"].release})
                      \cup {gate.release})
    BY <2>5, FS_AddElement
  <2> QED BY <1>2, <2>6 DEF three
<1>4. PICK x : ReleasesNamed = {x}
  BY <1>3, FS_Singleton DEF OneRelease
<1> QED BY <1>2, <1>4

(***************************************************************************)
(* The closeout is clean after it has assessed the evidence only if the    *)
(* ledger is there, which a run writes that got through the check.         *)
(***************************************************************************)
LEMMA CloseoutStep ==
  ASSUME DrillIInv, UNCHANGED <<dir, gate, run, passed, spent>>,
         CloseoutGate \/ CloseoutAssess \/ CloseoutLog \/ CloseoutStops
           \/ \E found \in BOOLEAN : CloseoutJudge(found) \/ CloseoutProofs(found)
  PROVE  DrillIInv'
<1>1. DrillTypeOK' /\ RunTypeOK' /\ DocumentsInv' /\ UntouchedInv'
  BY DEF DrillIInv, DrillTypeOK, RunTypeOK, Running, DocumentsInv, UntouchedInv, Taken,
         NewManifest, NewLedger, Section, Present, Embeds
<1>2. CloseoutTypeOK' /\ (closeout'.kind \in Judged /\ closeout'.clean => closeout'.release \in passed)
  <2>1. CASE CloseoutGate \/ CloseoutStops
    <3>1. closeout'.kind \in {"assess", "idle"}
      BY <2>1 DEF CloseoutGate, CloseoutStops, NoRun
    <3>2. closeout'.kind \notin Judged
      BY <3>1 DEF Judged
    <3> QED BY <3>2 DEF CloseoutTypeOK
  <2>2. CASE CloseoutAssess
    <3>1. CASE closeout.clean /\ AutomationComplete /\ AoManualComplete
      <4>1. closeout' = [kind |-> "judge", clean |-> TRUE, release |-> dir["pack"].release]
        BY <2>2, <3>1 DEF CloseoutAssess
      <4>2. dir["ledger"] # Absent
        BY <3>1, FilesNamed DEF AutomationComplete, Present, Required
      <4>3. dir["pack"].release = dir["ledger"].release
        BY <3>1, OneReleaseIs DEF AutomationComplete
      <4>4. dir["pack"].release \in passed /\ passed \subseteq Releases
        BY <4>2, <4>3 DEF DrillIInv, PassedInv, DrillTypeOK
      <4> QED BY <4>1, <4>4 DEF CloseoutTypeOK, Judged
    <3>2. CASE ~(closeout.clean /\ AutomationComplete /\ AoManualComplete)
      <4>1. closeout' = [kind |-> "judge", clean |-> FALSE]
        BY <2>2, <3>2 DEF CloseoutAssess
      <4> QED BY <4>1 DEF CloseoutTypeOK, Judged
    <3> QED BY <3>1, <3>2
  <2>3. ASSUME NEW next \in Judged, NEW found \in BOOLEAN, closeout.kind \in Judged,
               closeout' = [closeout EXCEPT !.kind = next, !.clean = @ /\ found]
        PROVE  /\ CloseoutTypeOK'
               /\ closeout'.kind \in Judged /\ closeout'.clean => closeout'.release \in passed
    <3>1. CASE closeout \in [kind : Judged, clean : BOOLEAN, release : Releases]
      <4>1. /\ (closeout.clean /\ found) \in BOOLEAN
            /\ closeout' = [closeout EXCEPT !.kind = next, !.clean = closeout.clean /\ found]
        BY <2>3, <3>1
      <4>2. /\ closeout' \in [kind : Judged, clean : BOOLEAN, release : Releases]
            /\ closeout'.release = closeout.release /\ closeout'.clean = (closeout.clean /\ found)
        BY <3>1, <4>1
      <4> QED BY <2>3, <4>2 DEF CloseoutTypeOK, DrillIInv, PassedInv
    <3>2. CASE closeout \in [kind : Judged, clean : {FALSE}]
      <4>1. closeout' = [closeout EXCEPT !.kind = next, !.clean = FALSE]
        BY <2>3, <3>2
      <4>2. closeout' \in [kind : Judged, clean : {FALSE}] /\ closeout'.clean = FALSE
        BY <3>2, <4>1
      <4> QED BY <4>2 DEF CloseoutTypeOK
    <3> QED BY <2>3, <3>1, <3>2 DEF DrillIInv, CloseoutTypeOK
  <2>4. CASE CloseoutLog
    <3>1. Present(LoggedFiles) \in BOOLEAN
      BY DEF Present
    <3> QED BY <2>3, <2>4, <3>1 DEF CloseoutLog, Judged
  <2>5. ASSUME NEW found \in BOOLEAN, CloseoutJudge(found) \/ CloseoutProofs(found)
        PROVE  /\ CloseoutTypeOK'
               /\ closeout'.kind \in Judged /\ closeout'.clean => closeout'.release \in passed
    BY <2>3, <2>5 DEF CloseoutJudge, CloseoutProofs, Judged
  <2> QED BY <2>1, <2>2, <2>4, <2>5
<1>3. PassedInv'
  BY <1>2 DEF DrillIInv, PassedInv, Taken, Running
<1> QED BY <1>1, <1>2, <1>3 DEF DrillIInv

\* Every step keeps the invariant.
LEMMA DrillNextInv == DrillIInv /\ [DrillNext]_drillVars => DrillIInv'
<1> SUFFICES ASSUME DrillIInv, [DrillNext]_drillVars PROVE DrillIInv'
  OBVIOUS
<1>1. CASE \E kind \in DOMAIN Steps, r \in Releases, strict \in BOOLEAN : StartRun(kind, r, strict)
  BY <1>1, StartRunStep
<1>2. CASE \E files \in (SUBSET {"legacy", "maps"}) \ {{}}, found \in Evidence : CheckByHand(files, found)
  BY <1>2, CheckByHandStep
<1>3. CASE CloseoutGate \/ CloseoutAssess \/ CloseoutLog \/ CloseoutStops
             \/ \E found \in BOOLEAN : CloseoutJudge(found) \/ CloseoutProofs(found)
  <2>1. UNCHANGED <<dir, gate, run, passed, spent>>
    BY <1>3 DEF CloseoutGate, CloseoutAssess, CloseoutLog, CloseoutStops, CloseoutJudge, CloseoutProofs
  <2> QED BY <1>3, <2>1, CloseoutStep
<1>4. CASE UNCHANGED drillVars
  <2>1. UNCHANGED <<dir, gate, run, closeout, passed, spent>>
    BY <1>4 DEF drillVars
  <2>2. DrillTypeOK' /\ RunTypeOK' /\ CloseoutTypeOK'
    BY <2>1 DEF DrillIInv, DrillTypeOK, RunTypeOK, Running, CloseoutTypeOK
  <2>3. DocumentsInv' /\ PassedInv'
    BY <2>1 DEF DrillIInv, DocumentsInv, PassedInv, Taken, Running, NewManifest, NewLedger
  <2>4. UntouchedInv'
    BY <2>1 DEF DrillIInv, UntouchedInv, Taken, Running, Section, Present, Embeds
  <2> QED BY <2>2, <2>3, <2>4 DEF DrillIInv
<1> QED BY <1>1, <1>2, <1>3, <1>4, TakeStepInv, RunOverStep, EditGateStep DEF DrillNext

LEMMA DrillStarts == DrillInit => DrillIInv
<1> SUFFICES ASSUME DrillInit PROVE DrillIInv
  OBVIOUS
<1>1. run.kind = "idle" /\ closeout.kind = "idle" /\ ~Running
  BY DrillOrder DEF DrillInit, NoRun, Running
<1>2. \A f \in Files : dir[f] = Absent
  BY DEF DrillInit
<1>3. DrillTypeOK
  BY <1>2, FilesNamed DEF DrillInit, DrillTypeOK
<1>4. RunTypeOK /\ CloseoutTypeOK
  BY <1>1 DEF DrillInit, RunTypeOK, CloseoutTypeOK, Judged
<1>5. DocumentsInv /\ UntouchedInv
  BY <1>1 DEF DocumentsInv, UntouchedInv, Taken
<1>6. PassedInv
  BY <1>1, <1>2, FilesNamed DEF PassedInv, Taken, Judged
<1> QED BY <1>3, <1>4, <1>5, <1>6 DEF DrillIInv

(***************************************************************************)
(* What the run under way has made of the directory so far is an inductive *)
(* invariant of the runs, the edits by hand and the closeout together.     *)
(***************************************************************************)
THEOREM DrillInvariant == DrillSpec => []DrillIInv
BY DrillStarts, DrillNextInv, PTL DEF DrillSpec

(***************************************************************************)
(* A closeout that reports ready is about a release that some run got      *)
(* through the strict check of its artifacts (run-decommission-closeout),  *)
(* whatever runs of other releases left half done in the directory.        *)
(***************************************************************************)
THEOREM GoIsOfPassedRun == DrillSpec => []GoNamesPassedRun
<1>1. DrillIInv => GoNamesPassedRun
  BY DEF DrillIInv, PassedInv, GoNamesPassedRun, Judged
<1> QED BY <1>1, DrillInvariant, PTL

(***************************************************************************)
(* The directory of a run that got through passes the decommission check   *)
(* (assessDecommissionReadiness), if the gate is of the same release, the  *)
(* pack complained of nothing but the gate, and no check was run by hand   *)
(* meanwhile, whatever earlier runs left there.                            *)
(***************************************************************************)
THEOREM FinishedRunPasses == DrillSpec => []CompletedRunPasses
<1>1. DrillIInv => CompletedRunPasses
  <2> SUFFICES ASSUME DrillIInv, run.kind = "done", gate.release = run.release,
                      "other" \notin dir["pack"].warnings, ~spent.touched
               PROVE  AutomationComplete
    BY DEF CompletedRunPasses
  <2>1. \A s \in Documents : Taken(s)
    BY DEF Taken
  <2>2. /\ dir["pack"].release = run.release
        /\ dir["pack"].blockers = {} /\ dir["pack"].warnings \subseteq {"ao"}
        /\ dir["readiness"].release = run.release
        /\ dir["readiness"].blockers = {} /\ dir["readiness"].warnings = dir["pack"].warnings
        /\ dir["checks"].release = run.release
        /\ dir["manifest"] = NewManifest /\ dir["ledger"] = NewLedger
    BY <2>1 DEF Documents, DrillIInv, DocumentsInv
  <2>3. /\ dir["manifest"].release = run.release
        /\ dir["manifest"].status = Status(dir["readiness"])
        /\ dir["ledger"].release = run.release
        /\ dir["ledger"].ready = (Status(dir["pack"]) = "ready" /\ Status(dir["readiness"]) = "ready")
    BY <2>2 DEF NewManifest, NewLedger
  <2>4. /\ {Section("legacy"), Section("maps")} \subseteq {"pass", "missing"}
        /\ Present(CheckedFiles) /\ Embeds(dir["checks"])
    BY <2>1 DEF Documents, DrillIInv, UntouchedInv
  <2>5. Present(Required)
    <3>1. dir["check"] # Absent
      BY <2>1, AbsentAssumption DEF Documents, DrillIInv, PassedInv
    <3>2. dir["ledger"] # Absent
      <4>1. run.release \in Releases
        BY DEF DrillIInv, RunTypeOK
      <4>2. dir["ledger"] = [release |-> dir["readiness"].release,
                             ready |-> Status(dir["pack"]) = "ready" /\ Status(dir["readiness"]) = "ready"]
        BY <2>2 DEF NewLedger
      <4>3. (Status(dir["pack"]) = "ready" /\ Status(dir["readiness"]) = "ready") \in BOOLEAN
        OBVIOUS
      <4>4. dir["ledger"] \in [release : Releases, ready : BOOLEAN]
        BY <2>2, <4>1, <4>2, <4>3
      <4> QED BY <4>4, AbsentAssumption
    <3> QED BY <2>4, <3>1, <3>2 DEF Present, Required, CheckedFiles
  <2>6. ReadyOrAoPending
    <3>1. CASE dir["pack"].warnings = {}
      BY <2>2, <2>3, <3>1 DEF ReadyOrAoPending, Status
    <3>2. CASE dir["pack"].warnings = {"ao"}
      BY <2>2, <3>2 DEF ReadyOrAoPending, AoPending, AoOnly, Status
    <3> QED BY <2>2, <3>1, <3>2
  <2>7. dir["legacy"] \in {"pass", "own"} /\ dir["maps"] \in {"pass", "own"}
    BY <2>4, FilesNamed DEF Section, Present, CheckedFiles, DrillIInv, DrillTypeOK, Evidence
  <2>8. OneRelease
    <3>1. ReleasesNamed = {run.release}
      BY <2>2, <2>3 DEF ReleasesNamed
    <3> QED BY <3>1, FS_Singleton DEF OneRelease
  <2> QED BY <2>4, <2>5, <2>6, <2>7, <2>8 DEF AutomationComplete
<1> QED BY <1>1, DrillInvariant, PTL

-----------------------------------------------------------------------------
(* The webhook ingress.  Its two stores are Maps of their own.             *)

\* The operations on the store's Map and on the boundary's.
LEMMA StoreMaps ==
  /\ \A m : Store!MapKeys(m) = MapKeys(m)
  /\ \A m, k : Store!After(m, k) = After(m, k)
  /\ \A m, S : Store!MapOnly(m, S) = MapOnly(m, S)
  /\ \A m, k, v : Store!MapSet(m, k, v) = MapSet(m, k, v)
  /\ \A m, n : Store!MapNewest(m, n) = MapNewest(m, n)
  /\ Store!EmptyMap = EmptyMap
<1>1. \A m : Store!MapKeys(m) = MapKeys(m)
  BY DEF Store!MapKeys, MapKeys
<1>2. \A m, k : Store!After(m, k) = After(m, k)
  BY <1>1 DEF Store!After, After
<1>3. \A m, S : Store!MapOnly(m, S) = MapOnly(m, S)
  BY <1>1 DEF Store!MapOnly, MapOnly
<1>4. \A m, k, v : Store!MapSet(m, k, v) = MapSet(m, k, v)
  BY <1>1 DEF Store!MapSet, MapSet
<1>5. \A m, n : Store!MapNewest(m, n) = MapNewest(m, n)
  <2> TAKE m, n
  <2>1. \A S : Store!Cardinality(S) = Cardinality(S)
    BY DEF Store!Cardinality, Cardinality
  <2>2. {k \in MapKeys(m) : Store!Cardinality(Store!After(m, k)) < n}
          = {k \in MapKeys(m) : Cardinality(After(m, k)) < n}
    BY <1>2, <2>1
  <2> QED BY <1>1, <1>3, <2>2, Zenon DEF Store!MapNewest, MapNewest
<1>6. Store!EmptyMap = EmptyMap
  BY DEF Store!EmptyMap, EmptyMap
<1> QED BY <1>1, <1>2, <1>3, <1>4, <1>5, <1>6

LEMMA BoundaryMaps ==
  /\ \A m : Boundary!MapKeys(m) = MapKeys(m)
  /\ \A m, k : Boundary!After(m, k) = After(m, k)
  /\ \A m, S : Boundary!MapOnly(m, S) = MapOnly(m, S)
  /\ \A m, k, v : Boundary!MapSet(m, k, v) = MapSet(m, k, v)
  /\ Boundary!EmptyMap = EmptyMap
  /\ \A S : Boundary!Cardinality(S) = Cardinality(S)
<1>1. \A m : Boundary!MapKeys(m) = MapKeys(m)
  BY DEF Boundary!MapKeys, MapKeys
<1>2. \A m, k : Boundary!After(m, k) = After(m, k)
  BY <1>1 DEF Boundary!After, After
<1>3. \A m, S : Boundary!MapOnly(m, S) = MapOnly(m, S)
  BY <1>1 DEF Boundary!MapOnly, MapOnly
<1>4. \A m, k, v : Boundary!MapSet(m, k, v) = MapSet(m, k, v)
  BY <1>1 DEF Boundary!MapSet, MapSet
<1>5. Boundary!EmptyMap = EmptyMap
  BY DEF Boundary!EmptyMap, EmptyMap
<1>6. \A S : Boundary!Cardinality(S) = Cardinality(S)
  BY DEF Boundary!Cardinality, Cardinality
<1> QED BY <1>1, <1>2, <1>3, <1>4, <1>5, <1>6

\* Keys of the replay store and ids of the boundary.
SeenKeys == {Key(e) : e \in Events}
EntryIds == {Id[e] : e \in Events}
Entry == [fingerprint : Events, seenAt : Nat]

(***************************************************************************)
(* The sweep of markAndCheck drops what has expired and nothing else.      *)
(***************************************************************************)
LEMMA SweptIs ==
  ASSUME MapOf(seen, SeenKeys, Nat)
  PROVE  LET m == Store!Swept IN
         /\ MapOf(m, SeenKeys, Nat)
         /\ MapKeys(m) \subseteq MapKeys(seen)
         /\ \A k \in MapKeys(seen) : seen.of[k] > now => k \in MapKeys(m)
         /\ \A k \in MapKeys(m) : m.of[k] = seen.of[k] /\ After(m, k) \subseteq After(seen, k)
<1> DEFINE S == {k \in MapKeys(seen) : seen.of[k] > now}
<1>1. CASE Store!SweepDue
  <2>1. Store!Swept = MapOnly(seen, S)
    BY <1>1, StoreMaps DEF Store!Swept
  <2>2. \A k \in MapKeys(seen) : seen.of[k] > now => k \in S
    OBVIOUS
  <2> HIDE DEF S
  <2>3. /\ MapOf(MapOnly(seen, S), SeenKeys, Nat)
        /\ MapKeys(MapOnly(seen, S)) = MapKeys(seen) \cap S
        /\ \A k \in MapKeys(seen) \cap S :
             /\ MapOnly(seen, S).of[k] = seen.of[k]
             /\ After(MapOnly(seen, S), k) = After(seen, k) \cap S
    BY MapOnlyOf
  <2> QED BY <2>1, <2>2, <2>3
<1>2. CASE ~Store!SweepDue
  BY <1>2 DEF Store!Swept
<1> QED BY <1>1, <1>2

(***************************************************************************)
(* A replay renews its key and leaves the order; of the others, only what  *)
(* has expired is dropped.                                                 *)
(***************************************************************************)
LEMMA ReplayMark ==
  ASSUME MapOf(seen, SeenKeys, Nat), Cardinality(MapKeys(seen)) <= MaxKeys, now \in Nat,
         NEW k \in SeenKeys, Store!Live(k)
  PROVE  LET m == Store!MapSet(Store!Swept, k, now + TTL) IN
         /\ MapOf(m, SeenKeys, Nat) /\ Cardinality(MapKeys(m)) <= MaxKeys
         /\ MapKeys(m) \subseteq MapKeys(seen)
         /\ \A j \in MapKeys(seen) :
              seen.of[j] > now
                => /\ j \in MapKeys(m)
                   /\ m.of[j] \in {seen.of[j], now + TTL}
                   /\ After(m, j) \subseteq After(seen, j)
<1> DEFINE s == Store!Swept
           m == Store!MapSet(s, k, now + TTL)
<1>1. /\ MapOf(s, SeenKeys, Nat) /\ MapKeys(s) \subseteq MapKeys(seen)
      /\ \A j \in MapKeys(seen) : seen.of[j] > now => j \in MapKeys(s)
      /\ \A j \in MapKeys(s) : s.of[j] = seen.of[j] /\ After(s, j) \subseteq After(seen, j)
  BY SweptIs
<1> HIDE DEF s
<1>2. k \in MapKeys(s)
  BY <1>1, StoreMaps DEF Store!Live
<1>3. now + TTL \in Nat
  BY IngressAssumption
<1>4. m = MapSet(s, k, now + TTL)
  BY StoreMaps
<1>5. /\ MapOf(m, SeenKeys, Nat) /\ MapKeys(m) = MapKeys(s) \cup {k}
      /\ m.of[k] = now + TTL
      /\ \A j \in MapKeys(s) \ {k} : m.of[j] = s.of[j]
      /\ \A j \in MapKeys(s) : After(m, j) = After(s, j)
  BY <1>1, <1>2, <1>3, <1>4, MapSetOf
<1> HIDE DEF m
<1>6. MapKeys(m) \subseteq MapKeys(seen)
  BY <1>1, <1>2, <1>5
<1>7. Cardinality(MapKeys(m)) <= MaxKeys
  <2>1. IsFiniteSet(MapKeys(seen))
    BY DEF MapOf
  <2>2. Cardinality(MapKeys(m)) <= Cardinality(MapKeys(seen)) /\ IsFiniteSet(MapKeys(m))
    BY <1>6, <2>1, FS_Subset
  <2>3. Cardinality(MapKeys(m)) \in Nat /\ Cardinality(MapKeys(seen)) \in Nat
    BY <2>1, <2>2, FS_CardinalityType
  <2> QED BY <2>2, <2>3, IngressAssumption
<1>8. ASSUME NEW j \in MapKeys(seen), seen.of[j] > now
      PROVE  /\ j \in MapKeys(m)
             /\ m.of[j] \in {seen.of[j], now + TTL}
             /\ After(m, j) \subseteq After(seen, j)
  BY <1>1, <1>2, <1>5, <1>8
<1> QED BY <1>5, <1>6, <1>7, <1>8 DEF m, s

(***************************************************************************)
(* A key that is no replay goes to the end.  Of the others, what has not   *)
(* expired stays, unless a store's worth less one comes after it.          *)
(***************************************************************************)
LEMMA NewMark ==
  ASSUME MapOf(seen, SeenKeys, Nat), now \in Nat, NEW k \in SeenKeys, ~Store!Live(k)
  PROVE  LET m == Store!Added(k) IN
         /\ MapOf(m, SeenKeys, Nat) /\ Cardinality(MapKeys(m)) <= MaxKeys
         /\ MapKeys(m) \subseteq MapKeys(seen) \cup {k} /\ k \in MapKeys(m)
         /\ m.of[k] = now + TTL /\ After(m, k) = {}
         /\ \A j \in MapKeys(seen) \ {k} :
              seen.of[j] > now
                => \/ /\ j \in MapKeys(m)
                      /\ m.of[j] = seen.of[j]
                      /\ After(m, j) \subseteq After(seen, j) \cup {k}
                   \/ \E A \in SUBSET After(seen, j) :
                        k \notin A /\ Cardinality(A) + 1 >= MaxKeys
<1> DEFINE s == Store!Swept
           o == Store!Others(k)
           p == Store!MapNewest(o, MaxKeys - 1)
           m == Store!MapSet(p, k, now + TTL)
<1>1. /\ MapOf(s, SeenKeys, Nat) /\ MapKeys(s) \subseteq MapKeys(seen)
      /\ \A j \in MapKeys(seen) : seen.of[j] > now => j \in MapKeys(s)
      /\ \A j \in MapKeys(s) : s.of[j] = seen.of[j] /\ After(s, j) \subseteq After(seen, j)
  BY SweptIs
<1>2. o = MapOnly(s, MapKeys(s) \ {k})
  BY StoreMaps DEF Store!Others
<1> HIDE DEF s
<1>3. /\ MapOf(o, SeenKeys, Nat) /\ MapKeys(o) = MapKeys(s) \ {k}
      /\ \A j \in MapKeys(s) \ {k} :
           o.of[j] = s.of[j] /\ After(o, j) = After(s, j) \cap (MapKeys(s) \ {k})
  <2> DEFINE S == MapKeys(s) \ {k}
  <2>1. MapKeys(s) \cap S = S
    OBVIOUS
  <2> HIDE DEF S
  <2>2. /\ MapOf(MapOnly(s, S), SeenKeys, Nat) /\ MapKeys(MapOnly(s, S)) = MapKeys(s) \cap S
        /\ \A j \in MapKeys(s) \cap S :
             MapOnly(s, S).of[j] = s.of[j] /\ After(MapOnly(s, S), j) = After(s, j) \cap S
    BY <1>1, MapOnlyOf
  <2> QED BY <1>2, <2>1, <2>2 DEF S
<1> HIDE DEF o
<1>4. MaxKeys - 1 \in Nat /\ now + TTL \in Nat
  BY IngressAssumption
<1>5. /\ p = MapNewest(o, MaxKeys - 1) /\ m = MapSet(p, k, now + TTL)
  BY StoreMaps
<1>6. /\ MapOf(p, SeenKeys, Nat)
      /\ MapKeys(p) = {j \in MapKeys(o) : Cardinality(After(o, j)) < MaxKeys - 1}
      /\ \A j \in MapKeys(p) : p.of[j] = o.of[j]
      /\ \A j \in MapKeys(p) : After(p, j) \subseteq After(o, j)
      /\ Cardinality(MapKeys(p)) <= MaxKeys - 1
  <2> DEFINE n == MaxKeys - 1
  <2>1. n \in Nat
    BY <1>4
  <2>2. p = MapNewest(o, n)
    BY <1>5
  <2> HIDE DEF n, p
  <2>3. /\ MapOf(MapNewest(o, n), SeenKeys, Nat)
        /\ MapKeys(MapNewest(o, n)) = {j \in MapKeys(o) : Cardinality(After(o, j)) < n}
        /\ \A j \in MapKeys(MapNewest(o, n)) : MapNewest(o, n).of[j] = o.of[j]
        /\ \A j \in MapKeys(MapNewest(o, n)) : After(MapNewest(o, n), j) \subseteq After(o, j)
        /\ Cardinality(MapKeys(MapNewest(o, n))) <= n
    BY <1>3, <2>1, MapNewestOf
  <2> QED BY <2>2, <2>3 DEF n
<1> HIDE DEF p
<1>7. k \notin MapKeys(p)
  BY <1>3, <1>6
<1>8. /\ MapOf(m, SeenKeys, Nat) /\ MapKeys(m) = MapKeys(p) \cup {k}
      /\ m.of[k] = now + TTL /\ After(m, k) = {}
      /\ \A j \in MapKeys(p) : m.of[j] = p.of[j] /\ After(m, j) = After(p, j) \cup {k}
  BY <1>4, <1>5, <1>6, <1>7, MapSetOf
<1> HIDE DEF m
<1>9. Cardinality(MapKeys(m)) <= MaxKeys
  <2>1. IsFiniteSet(MapKeys(p))
    BY <1>6 DEF MapOf
  <2>2. Cardinality(MapKeys(m)) = Cardinality(MapKeys(p)) + 1 /\ Cardinality(MapKeys(p)) \in Nat
    BY <1>7, <1>8, <2>1, FS_AddElement, FS_CardinalityType
  <2> QED BY <1>6, <2>2, IngressAssumption
<1>10. ASSUME NEW j \in MapKeys(seen) \ {k}, seen.of[j] > now
       PROVE  \/ /\ j \in MapKeys(m)
                 /\ m.of[j] = seen.of[j]
                 /\ After(m, j) \subseteq After(seen, j) \cup {k}
              \/ \E A \in SUBSET After(seen, j) :
                   k \notin A /\ Cardinality(A) + 1 >= MaxKeys
  <2>1. j \in MapKeys(s) /\ j \in MapKeys(o)
    BY <1>1, <1>3, <1>10
  <2>2. CASE j \in MapKeys(p)
    BY <1>1, <1>3, <1>6, <1>8, <2>1, <2>2
  <2>3. CASE j \notin MapKeys(p)
    <3>1. ~(Cardinality(After(o, j)) < MaxKeys - 1)
      BY <1>6, <2>1, <2>3
    <3>2. After(o, j) \subseteq After(seen, j) /\ k \notin After(o, j)
      BY <1>1, <1>3, <2>1
    <3>3. IsFiniteSet(MapKeys(o)) /\ After(o, j) \subseteq MapKeys(o)
      BY <1>3 DEF MapOf, After
    <3>4. Cardinality(After(o, j)) \in Nat
      BY <3>3, FS_Subset, FS_CardinalityType
    <3>5. Cardinality(After(o, j)) + 1 >= MaxKeys
      BY <3>1, <3>4, IngressAssumption
    <3> QED BY <3>2, <3>5
  <2> QED BY <2>2, <2>3
<1>11. MapKeys(m) \subseteq MapKeys(seen) \cup {k} /\ k \in MapKeys(m)
  BY <1>1, <1>3, <1>6, <1>8
<1>12. Store!Added(k) = m
  BY DEF Store!Added, m, p, o
<1> QED BY <1>8, <1>9, <1>10, <1>11, <1>12


(***************************************************************************)
(* pruneExpired drops what is older than the TTL and nothing else.         *)
(***************************************************************************)
LEMMA UnexpiredIs ==
  ASSUME MapOf(entries, EntryIds, Entry)
  PROVE  LET u == Boundary!Unexpired IN
         /\ MapOf(u, EntryIds, Entry)
         /\ MapKeys(u) \subseteq MapKeys(entries)
         /\ \A i \in MapKeys(entries) : now - entries.of[i].seenAt <= TTL => i \in MapKeys(u)
         /\ \A i \in MapKeys(u) : u.of[i] = entries.of[i] /\ After(u, i) \subseteq After(entries, i)
<1> DEFINE S == {i \in MapKeys(entries) : now - entries.of[i].seenAt <= TTL}
<1>1. Boundary!Unexpired = MapOnly(entries, S)
  BY BoundaryMaps DEF Boundary!Unexpired
<1>2. \A i \in MapKeys(entries) : now - entries.of[i].seenAt <= TTL => i \in S
  OBVIOUS
<1> HIDE DEF S
<1>3. /\ MapOf(MapOnly(entries, S), EntryIds, Entry)
      /\ MapKeys(MapOnly(entries, S)) = MapKeys(entries) \cap S
      /\ \A i \in MapKeys(entries) \cap S :
           /\ MapOnly(entries, S).of[i] = entries.of[i]
           /\ After(MapOnly(entries, S), i) = After(entries, i) \cap S
  BY MapOnlyOf
<1> QED BY <1>1, <1>2, <1>3

\* The entries are in the order of when their ids were first seen.
FirstSeenInOrder ==
  \A i \in MapKeys(entries) :
    \A j \in After(entries, i) : entries.of[i].seenAt <= entries.of[j].seenAt

(***************************************************************************)
(* A full boundary drops one entry, and it is the one that all the others  *)
(* come after.                                                             *)
(***************************************************************************)
LEMMA KeptIs ==
  ASSUME MapOf(entries, EntryIds, Entry), Cardinality(MapKeys(entries)) <= MaxKeys,
         FirstSeenInOrder
  PROVE  LET u == Boundary!Unexpired
             k == Boundary!Kept
         IN
         /\ MapOf(k, EntryIds, Entry) /\ MapKeys(k) \subseteq MapKeys(u)
         /\ Cardinality(MapKeys(k)) + 1 <= MaxKeys
         /\ \A i \in MapKeys(k) : k.of[i] = u.of[i] /\ After(k, i) \subseteq After(u, i)
         /\ \A i \in MapKeys(u) \ MapKeys(k) : Cardinality(After(u, i)) + 1 >= MaxKeys
<1> DEFINE u == Boundary!Unexpired
           k == Boundary!Kept
           Oldest == {i \in MapKeys(u) :
                        \A j \in MapKeys(u) \ {i} :
                          \/ u.of[i].seenAt < u.of[j].seenAt
                          \/ u.of[i].seenAt = u.of[j].seenAt /\ j \in After(u, i)}
<1>1. /\ MapOf(u, EntryIds, Entry)
      /\ MapKeys(u) \subseteq MapKeys(entries)
      /\ \A i \in MapKeys(u) : u.of[i] = entries.of[i] /\ After(u, i) \subseteq After(entries, i)
  BY UnexpiredIs
<1>2. k = IF Cardinality(MapKeys(u)) >= MaxKeys THEN MapOnly(u, MapKeys(u) \ Oldest) ELSE u
  <2>1. Boundary!Oldest = Oldest
    BY BoundaryMaps DEF Boundary!Oldest
  <2> HIDE DEF Oldest, u
  <2> QED BY <2>1, BoundaryMaps DEF Boundary!Kept, u
<1> HIDE DEF u, k
<1>3. \A i, j \in MapKeys(u) : j \in After(u, i) => u.of[i].seenAt <= u.of[j].seenAt
  BY <1>1 DEF FirstSeenInOrder
<1>4. \A i \in MapKeys(u) : u.of[i].seenAt \in Nat
  BY <1>1 DEF MapOf, Entry
<1>5. IsFiniteSet(MapKeys(u)) /\ Cardinality(MapKeys(u)) \in Nat
  BY <1>1, FS_CardinalityType DEF MapOf
<1>6. CASE ~(Cardinality(MapKeys(u)) >= MaxKeys)
  BY <1>1, <1>2, <1>5, <1>6, IngressAssumption DEF k, u
<1>7. CASE Cardinality(MapKeys(u)) >= MaxKeys
  <2>1. Cardinality(MapKeys(u)) = MaxKeys
    <3>1. Cardinality(MapKeys(u)) <= Cardinality(MapKeys(entries))
      BY <1>1, FS_Subset DEF MapOf
    <3>2. Cardinality(MapKeys(entries)) \in Nat
      BY FS_CardinalityType DEF MapOf
    <3> QED BY <1>5, <1>7, <3>1, <3>2, IngressAssumption
  <2>2. MapKeys(u) # {}
    BY <2>1, FS_EmptySet, IngressAssumption
  <2>3. PICK f \in MapKeys(u) : After(u, f) = MapKeys(u) \ {f}
    BY <1>1, <2>2, MapFirst
  <2>4. f \in Oldest
    BY <1>3, <1>4, <2>3
  <2>5. \A i \in Oldest : After(u, i) = MapKeys(u) \ {i}
    <3> SUFFICES ASSUME NEW i \in Oldest PROVE After(u, i) = MapKeys(u) \ {i}
      OBVIOUS
    <3>1. After(u, i) \subseteq MapKeys(u) \ {i}
      BY <1>1 DEF After, MapOf, Ordered
    <3>2. ASSUME NEW j \in MapKeys(u) \ {i}, j \notin After(u, i) PROVE FALSE
      <4>1. i \in After(u, j)
        BY <1>1, <3>2 DEF After, MapOf, Ordered
      <4>2. u.of[j].seenAt <= u.of[i].seenAt
        BY <1>3, <4>1
      <4>3. u.of[i].seenAt < u.of[j].seenAt
        BY <3>2
      <4> QED BY <1>4, <4>2, <4>3
    <3> QED BY <3>1, <3>2
  <2>6. \A i \in Oldest : i \in MapKeys(u)
    OBVIOUS
  <2> DEFINE S == MapKeys(u) \ Oldest
  <2>7. k = MapOnly(u, S) /\ MapKeys(u) \cap S = S /\ S \subseteq MapKeys(u) \ {f}
        /\ \A i \in MapKeys(u) \ S : i \in Oldest
    BY <1>2, <1>7, <2>4
  <2> HIDE DEF Oldest, S
  <2>8. /\ MapOf(k, EntryIds, Entry) /\ MapKeys(k) = S
        /\ \A i \in S : k.of[i] = u.of[i] /\ After(k, i) = After(u, i) \cap S
    <3>1. /\ MapOf(MapOnly(u, S), EntryIds, Entry) /\ MapKeys(MapOnly(u, S)) = MapKeys(u) \cap S
          /\ \A i \in MapKeys(u) \cap S :
               MapOnly(u, S).of[i] = u.of[i] /\ After(MapOnly(u, S), i) = After(u, i) \cap S
      BY <1>1, MapOnlyOf
    <3> QED BY <2>7, <3>1
  <2>9. Cardinality(S) + 1 <= MaxKeys
    <3>1. IsFiniteSet(MapKeys(u) \ {f}) /\ Cardinality(MapKeys(u) \ {f}) = MaxKeys - 1
      BY <1>5, <2>1, <2>3, FS_RemoveElement
    <3>2. Cardinality(S) <= MaxKeys - 1 /\ IsFiniteSet(S)
      BY <2>7, <3>1, FS_Subset
    <3> QED BY <3>2, FS_CardinalityType, IngressAssumption
  <2>10. ASSUME NEW i \in MapKeys(u) \ MapKeys(k) PROVE Cardinality(After(u, i)) + 1 >= MaxKeys
    <3>1. i \in Oldest /\ After(u, i) = MapKeys(u) \ {i}
      BY <2>5, <2>7, <2>8
    <3>2. Cardinality(MapKeys(u) \ {i}) = MaxKeys - 1
      BY <1>5, <2>1, FS_RemoveElement
    <3> QED BY <3>1, <3>2, IngressAssumption
  <2>11. \A i \in MapKeys(k) : k.of[i] = u.of[i] /\ After(k, i) \subseteq After(u, i)
    BY <2>8
  <2>12. MapKeys(k) \subseteq MapKeys(u)
    BY <2>7, <2>8
  <2> QED BY <2>8, <2>9, <2>10, <2>11, <2>12 DEF k, u
<1> QED BY <1>6, <1>7

(***************************************************************************)
(* A new id goes to the end.  Of the others, what has not expired stays,   *)
(* unless a boundary's worth less one comes after it.                      *)
(***************************************************************************)
LEMMA NewEntry ==
  ASSUME MapOf(entries, EntryIds, Entry), Cardinality(MapKeys(entries)) <= MaxKeys,
         FirstSeenInOrder, now \in Nat,
         NEW id \in EntryIds, NEW f \in Events, id \notin MapKeys(Boundary!Unexpired)
  PROVE  LET m == Boundary!MapSet(Boundary!Kept, id, [fingerprint |-> f, seenAt |-> now]) IN
         /\ MapOf(m, EntryIds, Entry) /\ Cardinality(MapKeys(m)) <= MaxKeys
         /\ MapKeys(m) \subseteq MapKeys(entries) \cup {id} /\ id \in MapKeys(m)
         /\ m.of[id] = [fingerprint |-> f, seenAt |-> now] /\ After(m, id) = {}
         /\ \A j \in MapKeys(m) \ {id} :
              m.of[j] = entries.of[j] /\ After(m, j) \subseteq After(entries, j) \cup {id}
         /\ \A j \in MapKeys(entries) :
              now - entries.of[j].seenAt <= TTL
                => \/ j \in MapKeys(m) \ {id}
                   \/ \E A \in SUBSET After(entries, j) :
                        id \notin A /\ Cardinality(A) + 1 >= MaxKeys
<1> DEFINE u == Boundary!Unexpired
           k == Boundary!Kept
           v == [fingerprint |-> f, seenAt |-> now]
           m == Boundary!MapSet(k, id, v)
<1>1. /\ MapOf(u, EntryIds, Entry)
      /\ MapKeys(u) \subseteq MapKeys(entries)
      /\ \A i \in MapKeys(entries) : now - entries.of[i].seenAt <= TTL => i \in MapKeys(u)
      /\ \A i \in MapKeys(u) : u.of[i] = entries.of[i] /\ After(u, i) \subseteq After(entries, i)
  BY UnexpiredIs
<1>2. /\ MapOf(k, EntryIds, Entry) /\ MapKeys(k) \subseteq MapKeys(u)
      /\ Cardinality(MapKeys(k)) + 1 <= MaxKeys
      /\ \A i \in MapKeys(k) : k.of[i] = u.of[i] /\ After(k, i) \subseteq After(u, i)
      /\ \A i \in MapKeys(u) \ MapKeys(k) : Cardinality(After(u, i)) + 1 >= MaxKeys
  BY KeptIs
<1>3. v \in Entry /\ id \notin MapKeys(u)
  BY DEF Entry
<1>4. m = MapSet(k, id, v)
  BY BoundaryMaps
<1>5. v = [fingerprint |-> f, seenAt |-> now]
  OBVIOUS
<1> HIDE DEF u, k, v
<1>6. /\ MapOf(m, EntryIds, Entry) /\ MapKeys(m) = MapKeys(k) \cup {id}
      /\ m.of[id] = v /\ After(m, id) = {}
      /\ \A j \in MapKeys(k) : m.of[j] = k.of[j] /\ After(m, j) = After(k, j) \cup {id}
  BY <1>2, <1>3, <1>4, MapSetOf
<1> HIDE DEF m
<1>7. Cardinality(MapKeys(m)) <= MaxKeys
  <2>1. IsFiniteSet(MapKeys(k)) /\ id \notin MapKeys(k)
    BY <1>2, <1>3 DEF MapOf
  <2> QED BY <1>2, <1>6, <2>1, FS_AddElement
<1>8. ASSUME NEW j \in MapKeys(entries), now - entries.of[j].seenAt <= TTL
      PROVE  \/ j \in MapKeys(m) \ {id}
             \/ \E A \in SUBSET After(entries, j) :
                  id \notin A /\ Cardinality(A) + 1 >= MaxKeys
  <2>1. j \in MapKeys(u) /\ j # id
    BY <1>1, <1>3, <1>8
  <2>2. CASE j \in MapKeys(k)
    BY <1>6, <2>1, <2>2
  <2>3. CASE j \notin MapKeys(k)
    <3>1. Cardinality(After(u, j)) + 1 >= MaxKeys
      BY <1>2, <2>1, <2>3
    <3>2. After(u, j) \subseteq After(entries, j) /\ id \notin After(u, j)
      BY <1>1, <1>3, <2>1 DEF After
    <3> QED BY <3>1, <3>2
  <2> QED BY <2>2, <2>3
<1>9. \A j \in MapKeys(m) \ {id} :
        m.of[j] = entries.of[j] /\ After(m, j) \subseteq After(entries, j) \cup {id}
  BY <1>1, <1>2, <1>6
<1>10. MapKeys(m) \subseteq MapKeys(entries) \cup {id} /\ id \in MapKeys(m)
  BY <1>1, <1>2, <1>6
<1> QED BY <1>5, <1>6, <1>7, <1>8, <1>9, <1>10 DEF m, k


-----------------------------------------------------------------------------
(* What has been admitted.                                                 *)

Admission == [event : Events, at : Nat]

\* The log stays, or grows by the event f.
Logged(f) == log' = Append(log, [event |-> f, at |-> now])

LEMMA LogHas ==
  ASSUME log \in Seq(Admission)
  PROVE  /\ Len(log) \in Nat /\ DOMAIN log = 1 .. Len(log)
         /\ \A n \in 1 .. Len(log) : log[n].event \in Events /\ log[n].at \in Nat
<1>1. Len(log) \in Nat /\ DOMAIN log = 1 .. Len(log)
  OBVIOUS
<1>2. ASSUME NEW n \in 1 .. Len(log) PROVE log[n].event \in Events /\ log[n].at \in Nat
  <2>1. log[n] \in Admission
    <3> HIDE DEF Admission
    <3> QED BY <1>1
  <2> QED BY <2>1 DEF Admission
<1> QED BY <1>1, <1>2

LEMMA LogGrows ==
  ASSUME log \in Seq(Admission), now \in Nat, NEW f \in Events, Logged(f)
  PROVE  /\ log' \in Seq(Admission)
         /\ Len(log) \in Nat /\ Len(log') = Len(log) + 1
         /\ DOMAIN log = 1 .. Len(log) /\ DOMAIN log' = 1 .. Len(log) + 1
         /\ log'[Len(log) + 1].event = f /\ log'[Len(log) + 1].at = now
         /\ \A n \in 1 .. Len(log) : log'[n] = log[n]
<1> DEFINE new == [event |-> f, at |-> now]
<1>1. new \in Admission /\ new.event = f /\ new.at = now
  BY DEF Admission
<1>2. log' = Append(log, new)
  BY DEF Logged
<1> HIDE DEF new, Admission
<1>3. /\ log' \in Seq(Admission) /\ Len(log) \in Nat /\ Len(log') = Len(log) + 1
      /\ log'[Len(log) + 1] = new
      /\ \A n \in 1 .. Len(log) : log'[n] = log[n]
  BY <1>1, <1>2
<1> QED BY <1>1, <1>3

\* No more ids were admitted between two events than there are numbers between.
LEMMA BetweenFinite ==
  ASSUME NEW i \in Int, NEW j \in Int, NEW e
  PROVE  IsFiniteSet(Between(i, j, e)) /\ Cardinality(Between(i, j, e)) \in Nat
<1> DEFINE S == {n \in (i + 1) .. (j - 1) : Apart(e, log[n].event)}
           T == {Key(log[m].event) : m \in S}
           key == [m \in S |-> Key(log[m].event)]
<1>1. Between(i, j, e) = T
  BY DEF Between
<1>2. IsFiniteSet(S)
  <2>1. IsFiniteSet((i + 1) .. (j - 1))
    BY FS_Interval
  <2>2. S \subseteq (i + 1) .. (j - 1)
    OBVIOUS
  <2> HIDE DEF S
  <2> QED BY <2>1, <2>2, FS_Subset
<1> HIDE DEF S
<1>3. key \in Surjection(S, T)
  BY Zenon DEF Surjection
<1> HIDE DEF key, T
<1>4. IsFiniteSet(T)
  BY <1>2, <1>3, FS_Surjection
<1> QED BY <1>1, <1>4, FS_CardinalityType

\* What was admitted before does not change, and what is admitted adds to what
\* came since.
LEMMA SinceGrows ==
  ASSUME log \in Seq(Admission), now \in Nat, NEW f \in Events, Logged(f),
         NEW i \in 1 .. Len(log)
  PROVE  /\ \A j \in 1 .. Len(log) + 1 :
              Between(i, j, log[i].event)' = Between(i, j, log[i].event)
         /\ Since(i) \subseteq Since(i)'
         /\ Apart(log[i].event, f) => Key(f) \in Since(i)'
         /\ Cardinality(Since(i)) >= MaxKeys => Cardinality(Since(i)') >= MaxKeys
         /\ IsFiniteSet(Since(i)')
<1>1. /\ log' \in Seq(Admission)
      /\ Len(log) \in Nat /\ Len(log') = Len(log) + 1
      /\ log'[Len(log) + 1].event = f
      /\ \A n \in 1 .. Len(log) : log'[n] = log[n]
  BY LogGrows
<1> DEFINE e == log[i].event
<1>2. /\ log'[i].event = e
      /\ i \in Int /\ Len(log) + 1 \in Int /\ Len(log') + 1 \in Int
  BY <1>1
<1> HIDE DEF e
<1>4. ASSUME NEW j \in 1 .. Len(log) + 1
      PROVE  {Key(log'[m].event) : m \in {n \in (i + 1) .. (j - 1) : Apart(e, log'[n].event)}}
               = Between(i, j, e)
  <2>1. \A n \in (i + 1) .. (j - 1) : log'[n] = log[n]
    BY <1>1
  <2> QED BY <2>1 DEF Between
<1>5. \A j \in 1 .. Len(log) + 1 : Between(i, j, log[i].event)' = Between(i, j, log[i].event)
  BY <1>2, <1>4 DEF Between, Apart, SameStore, SameEvent, Key, e
<1> DEFINE N == {Key(log'[m].event) : m \in {n \in (i + 1) .. (Len(log') + 1 - 1) : Apart(e, log'[n].event)}}
<1>6. Since(i)' = N
  BY <1>2 DEF Since, Between, Apart, SameStore, SameEvent, Key, e
<1>7. Since(i) \subseteq N
  <2> SUFFICES ASSUME NEW m \in (i + 1) .. (Len(log) + 1 - 1), Apart(e, log[m].event)
               PROVE  Key(log[m].event) \in N
    BY DEF Since, Between, e
  <2>1. m \in (i + 1) .. (Len(log') + 1 - 1) /\ log'[m] = log[m]
    BY <1>1
  <2> QED BY <2>1
<1>8. Apart(e, f) => Key(f) \in N
  <2>1. Len(log) + 1 \in (i + 1) .. (Len(log') + 1 - 1)
    BY <1>1
  <2> QED BY <1>1, <2>1
<1>9. /\ Cardinality(Since(i)) >= MaxKeys => Cardinality(N) >= MaxKeys
      /\ IsFiniteSet(N)
  <2>1. IsFiniteSet(Since(i)) /\ Cardinality(Since(i)) \in Nat
    BY <1>2, BetweenFinite DEF Since
  <2>2. IsFiniteSet(N)
    <3>1. N \subseteq Since(i) \cup {Key(f)}
      <4> SUFFICES ASSUME NEW m \in (i + 1) .. (Len(log') + 1 - 1), Apart(e, log'[m].event)
                   PROVE  Key(log'[m].event) \in Since(i) \cup {Key(f)}
        OBVIOUS
      <4>1. CASE m = Len(log) + 1
        BY <1>1, <4>1
      <4>2. CASE m # Len(log) + 1
        <5>1. m \in (i + 1) .. (Len(log) + 1 - 1) /\ log'[m] = log[m]
          BY <1>1, <4>2
        <5> QED BY <5>1 DEF Since, Between, e
      <4> QED BY <4>1, <4>2
    <3>2. IsFiniteSet(Since(i) \cup {Key(f)})
      BY <2>1, FS_AddElement
    <3> HIDE DEF N
    <3> QED BY <3>1, <3>2, FS_Subset
  <2> HIDE DEF N
  <2>3. Cardinality(Since(i)) <= Cardinality(N) /\ Cardinality(N) \in Nat
    BY <1>7, <2>2, FS_Subset, FS_CardinalityType
  <2> QED BY <2>1, <2>2, <2>3, IngressAssumption
<1> QED BY <1>5, <1>6, <1>7, <1>8, <1>9 DEF e


\* An event is one of its store's keys, and events that count as one share it.
LEMMA Keys ==
  /\ \A e \in Events :
       /\ Key(e) \in SeenKeys /\ Id[e] \in EntryIds
       /\ Key(e) = <<Provider[e], Id[e]>>
       /\ Provider[e] \in {"stripe", "paypal", "gopay"}
  /\ \A e, f \in Events : SameEvent(e, f) <=> Key(e) = Key(f)
BY IngressAssumption DEF SeenKeys, EntryIds, Key, SameEvent

\* The parts of the invariant, as the steps use them.
LEMMA IngressHas ==
  ASSUME IngressIInv
  PROVE  /\ now \in Nat /\ log \in Seq(Admission) /\ call \in [Calls -> Webhook]
         /\ MapOf(seen, SeenKeys, Nat) /\ Cardinality(MapKeys(seen)) <= MaxKeys
         /\ MapOf(entries, EntryIds, Entry) /\ Cardinality(MapKeys(entries)) <= MaxKeys
         /\ FirstSeenInOrder
         /\ TTL \in Nat \ {0} /\ MaxKeys \in Nat \ {0}
  BY IngressAssumption DEF IngressIInv, TypeOK, Admission, SeenKeys, EntryIds, Entry,
       AdmittedInv, FirstSeenInOrder

\* An event that counts as e was admitted; for GoPay, e itself.
WasAdmitted(e) ==
  \E n \in DOMAIN log :
    /\ SameEvent(log[n].event, e)
    /\ Provider[e] = "gopay" => log[n].event = e

(***************************************************************************)
(* One request moves, and answers a replay only of what was admitted.      *)
(***************************************************************************)
LEMMA CallStep ==
  ASSUME IngressIInv, NEW c \in Calls, NEW rec \in Webhook,
         call' = [call EXCEPT ![c] = rec], UNCHANGED now,
         rec.event = NoEvent => rec.pc = "idle" /\ rec.reply = "none",
         rec.reply = "replay" /\ Id[rec.event] \notin LongIds => WasAdmitted(rec.event),
         log' = log \/ \E f \in Events : Logged(f)
  PROVE  call' \in [Calls -> Webhook] /\ RequestInv' /\ ReplayWasAdmitted'
<1>1. /\ call' \in [Calls -> Webhook]
      /\ \A d \in Calls : call'[d] = IF d = c THEN rec ELSE call[d]
  BY IngressHas
<1>2. /\ \A n \in DOMAIN log : n \in DOMAIN log' /\ log'[n] = log[n]
      /\ \A n \in DOMAIN log' : log'[n].at <= now
  <2>1. CASE log' = log
    BY <2>1 DEF IngressIInv, RequestInv
  <2>2. ASSUME NEW f \in Events, Logged(f)
        PROVE  /\ \A n \in DOMAIN log : n \in DOMAIN log' /\ log'[n] = log[n]
               /\ \A n \in DOMAIN log' : log'[n].at <= now
    <3>1. /\ Len(log) \in Nat /\ DOMAIN log = 1 .. Len(log) /\ DOMAIN log' = 1 .. Len(log) + 1
          /\ log'[Len(log) + 1].at = now
          /\ \A n \in 1 .. Len(log) : log'[n] = log[n]
      BY <2>2, IngressHas, LogGrows
    <3>2. \A n \in 1 .. Len(log) : log'[n].at <= now
      BY <3>1 DEF IngressIInv, RequestInv
    <3>3. \A n \in 1 .. Len(log) + 1 : n \in 1 .. Len(log) \/ n = Len(log) + 1
      BY <3>1
    <3> QED BY <3>1, <3>2, <3>3, IngressHas
  <2> QED BY <2>1, <2>2
<1>3. RequestInv'
  BY <1>1, <1>2 DEF IngressIInv, RequestInv
<1>4. \A d \in Calls :
        call'[d].reply = "replay" /\ Id[call'[d].event] \notin LongIds => WasAdmitted(call'[d].event)
  BY <1>1 DEF IngressIInv, ReplayWasAdmitted, WasAdmitted
<1>5. ReplayWasAdmitted'
  BY <1>2, <1>4 DEF ReplayWasAdmitted, WasAdmitted, SameEvent
<1> QED BY <1>1, <1>3, <1>5

(***************************************************************************)
(* An event with an id is admitted only when a store's worth of others has *)
(* been since it last was, or a TTL has passed.                            *)
(***************************************************************************)
LEMMA OnceStep ==
  ASSUME IngressIInv, NEW f \in Events, Logged(f),
         \A i \in 1 .. Len(log) :
           SameEvent(log[i].event, f) /\ Id[f] # NoId /\ now < log[i].at + TTL
             => Cardinality(Since(i)) >= MaxKeys
  PROVE  AdmittedOncePerTTL'
<1>1. /\ Len(log) \in Nat /\ DOMAIN log = 1 .. Len(log) /\ DOMAIN log' = 1 .. Len(log) + 1
      /\ log'[Len(log) + 1].event = f /\ log'[Len(log) + 1].at = now
      /\ \A n \in 1 .. Len(log) : log'[n] = log[n]
  BY IngressHas, LogGrows
<1>2. ASSUME NEW i \in DOMAIN log', NEW j \in DOMAIN log', i < j,
             SameEvent(log'[i].event, log'[j].event), Id[log'[i].event] # NoId,
             log'[j].at < log'[i].at + TTL
      PROVE  Cardinality(Between(i, j, log[i].event)') >= MaxKeys
  <2>1. i \in 1 .. Len(log) /\ j \in 1 .. Len(log) + 1 /\ log'[i] = log[i]
    BY <1>1, <1>2
  <2>2. Between(i, j, log[i].event)' = Between(i, j, log[i].event)
    BY <2>1, IngressHas, SinceGrows
  <2>3. CASE j = Len(log) + 1
    <3>1. SameEvent(log[i].event, f) /\ Id[f] # NoId /\ now < log[i].at + TTL
      BY <1>1, <1>2, <2>1, <2>3 DEF SameEvent
    <3>2. Between(i, j, log[i].event) = Since(i)
      BY <2>3 DEF Since
    <3> QED BY <2>1, <2>2, <3>1, <3>2
  <2>4. CASE j # Len(log) + 1
    <3>1. j \in 1 .. Len(log) /\ log'[j] = log[j]
      BY <1>1, <2>1, <2>4
    <3>2. Cardinality(Between(i, j, log[i].event)) >= MaxKeys
      BY <1>1, <1>2, <2>1, <3>1 DEF IngressIInv, AdmittedOncePerTTL
    <3> QED BY <2>2, <3>2
  <2> QED BY <2>3, <2>4
<1> QED BY <1>2 DEF AdmittedOncePerTTL, SameEvent


\* Nothing is admitted.
LEMMA SinceSame ==
  ASSUME log' = log
  PROVE  /\ \A i : Since(i)' = Since(i)
         /\ AdmittedOncePerTTL => AdmittedOncePerTTL'
BY DEF Since, Between, Apart, SameStore, SameEvent, Key, AdmittedOncePerTTL

(***************************************************************************)
(* The steps of a request that leave the stores alone and admit nothing.   *)
(***************************************************************************)
LEMMA QuietCallStep ==
  ASSUME IngressIInv, NEW c \in Calls, NEW rec \in Webhook,
         call' = [call EXCEPT ![c] = rec],
         UNCHANGED <<now, seen, lastSweepAt, entries, log>>,
         sent' \in Nat, received' \subseteq Events,
         rec.event = NoEvent => rec.pc = "idle" /\ rec.reply = "none",
         rec.reply = "replay" /\ Id[rec.event] \notin LongIds => WasAdmitted(rec.event)
  PROVE  IngressIInv'
<1>1. call' \in [Calls -> Webhook] /\ RequestInv' /\ ReplayWasAdmitted'
  BY CallStep
<1>2. TypeOK'
  BY <1>1 DEF IngressIInv, TypeOK
<1>3. AdmittedInv'
  BY DEF IngressIInv, AdmittedInv
<1>4. RecallInv'
  BY SinceSame DEF IngressIInv, RecallInv, Recalled
<1>5. AdmittedOncePerTTL'
  BY SinceSame DEF IngressIInv
<1> QED BY <1>1, <1>2, <1>3, <1>4, <1>5 DEF IngressIInv

(***************************************************************************)
(* The store answers a replay: what it holds was admitted, and what has    *)
(* been within a TTL stays.                                                *)
(***************************************************************************)
LEMMA ReplayStep ==
  ASSUME IngressIInv, NEW k \in SeenKeys, Store!Live(k),
         seen' = Store!MapSet(Store!Swept, k, now + TTL),
         UNCHANGED <<now, entries, log>>
  PROVE  /\ MapOf(seen', SeenKeys, Nat) /\ Cardinality(MapKeys(seen')) <= MaxKeys
         /\ AdmittedInv' /\ RecallInv' /\ AdmittedOncePerTTL'
         /\ \E n \in DOMAIN log : Key(log[n].event) = k
<1>1. /\ MapOf(seen', SeenKeys, Nat) /\ Cardinality(MapKeys(seen')) <= MaxKeys
      /\ MapKeys(seen') \subseteq MapKeys(seen)
      /\ \A j \in MapKeys(seen) :
           seen.of[j] > now
             => /\ j \in MapKeys(seen')
                /\ seen'.of[j] \in {seen.of[j], now + TTL}
                /\ After(seen', j) \subseteq After(seen, j)
  BY ReplayMark, IngressHas
<1>2. AdmittedInv'
  BY <1>1 DEF IngressIInv, AdmittedInv, Key
<1>3. ASSUME NEW i \in DOMAIN log, Id[log[i].event] # NoId, now < log[i].at + TTL
      PROVE  Cardinality(Since(i)) >= MaxKeys \/ Recalled(i)'
  <2>1. CASE Cardinality(Since(i)) >= MaxKeys
    BY <2>1
  <2>2. CASE Recalled(i) /\ Provider[log[i].event] = "gopay"
    BY <2>2, SinceSame DEF Recalled
  <2>3. CASE Recalled(i) /\ Provider[log[i].event] # "gopay"
    <3> DEFINE j == Key(log[i].event)
    <3>1. /\ j \in MapKeys(seen) /\ seen.of[j] >= log[i].at + TTL
          /\ After(seen, j) \subseteq Since(i)
      BY <2>3 DEF Recalled
    <3>2. now \in Nat /\ seen.of[j] \in Nat /\ log[i].at \in Nat /\ TTL \in Nat
      BY <3>1, IngressHas, LogHas DEF MapOf
    <3>3. /\ j \in MapKeys(seen') /\ seen'.of[j] \in {seen.of[j], now + TTL}
          /\ After(seen', j) \subseteq After(seen, j)
      BY <1>1, <1>3, <3>1, <3>2
    <3>4. seen'.of[j] >= log[i].at + TTL
      <4>1. log[i].at <= now
        BY DEF IngressIInv, RequestInv
      <4> QED BY <3>1, <3>2, <3>3, <4>1
    <3>5. Key(log[i].event)' = j
      BY DEF Key
    <3> QED BY <2>3, <3>1, <3>3, <3>4, <3>5, SinceSame DEF Recalled
  <2> QED BY <1>3, <2>1, <2>2, <2>3 DEF IngressIInv, RecallInv
<1>4. RecallInv'
  BY <1>3, SinceSame DEF RecallInv
<1>5. AdmittedOncePerTTL'
  BY SinceSame DEF IngressIInv
<1>6. \E n \in DOMAIN log : Key(log[n].event) = k
  BY StoreMaps DEF IngressIInv, AdmittedInv, Store!Live
<1> QED BY <1>1, <1>2, <1>4, <1>5, <1>6

\* Two events with different ids in one store are apart.
LEMMA AreApart ==
  ASSUME NEW e \in Events, NEW f \in Events, Key(e) # Key(f), Id[f] # NoId,
         Provider[e] = "gopay" <=> Provider[f] = "gopay"
  PROVE  Apart(e, f)
BY Keys DEF Apart, SameStore

(***************************************************************************)
(* A Stripe or PayPal event is admitted and marked.  Each other one that   *)
(* was marked within a TTL stays marked, and this one has come since; or   *)
(* the prune drops it, and then a store's worth has come since.            *)
(***************************************************************************)
LEMMA MarkedStep ==
  ASSUME IngressIInv, NEW f \in Events, Provider[f] # "gopay", Id[f] # NoId,
         ~Store!Live(Key(f)), seen' = Store!Added(Key(f)),
         UNCHANGED <<now, entries>>, Logged(f)
  PROVE  /\ MapOf(seen', SeenKeys, Nat) /\ Cardinality(MapKeys(seen')) <= MaxKeys
         /\ AdmittedInv' /\ RecallInv' /\ AdmittedOncePerTTL'
<1> DEFINE k == Key(f)
<1>1. /\ MapOf(seen', SeenKeys, Nat) /\ Cardinality(MapKeys(seen')) <= MaxKeys
      /\ MapKeys(seen') \subseteq MapKeys(seen) \cup {k} /\ k \in MapKeys(seen')
      /\ seen'.of[k] = now + TTL /\ After(seen', k) = {}
      /\ \A j \in MapKeys(seen) \ {k} :
           seen.of[j] > now
             => \/ /\ j \in MapKeys(seen')
                   /\ seen'.of[j] = seen.of[j]
                   /\ After(seen', j) \subseteq After(seen, j) \cup {k}
                \/ \E A \in SUBSET After(seen, j) :
                     k \notin A /\ Cardinality(A) + 1 >= MaxKeys
  BY NewMark, IngressHas, Keys
<1>2. /\ Len(log) \in Nat /\ DOMAIN log = 1 .. Len(log) /\ DOMAIN log' = 1 .. Len(log) + 1
      /\ log'[Len(log) + 1].event = f /\ log'[Len(log) + 1].at = now
      /\ \A n \in 1 .. Len(log) : log'[n] = log[n]
  BY IngressHas, LogGrows
<1>3. /\ now \in Nat /\ TTL \in Nat \ {0} /\ MaxKeys \in Nat \ {0}
      /\ log \in Seq(Admission)
      /\ \A n \in 1 .. Len(log) : log[n].event \in Events /\ log[n].at \in Nat
  BY IngressHas, LogHas
<1>4. AdmittedInv'
  <2>1. \A n \in DOMAIN log : n \in DOMAIN log' /\ log'[n] = log[n]
    BY <1>2
  <2>2. \A j \in MapKeys(seen') : \E n \in DOMAIN log' : Key(log'[n].event) = j
    <3> TAKE j \in MapKeys(seen')
    <3>1. CASE j = k
      BY <1>2, <3>1
    <3>2. CASE j # k
      <4>1. \E n \in DOMAIN log : Key(log[n].event) = j
        BY <1>1, <3>2 DEF IngressIInv, AdmittedInv
      <4> QED BY <2>1, <4>1
    <3> QED BY <3>1, <3>2
  <2>3. \A j \in MapKeys(entries) :
          \E n \in DOMAIN log' :
            Key(log'[n].event) = <<"gopay", j>> /\ log'[n].event = entries.of[j].fingerprint
    BY <2>1 DEF IngressIInv, AdmittedInv
  <2> QED BY <2>2, <2>3 DEF IngressIInv, AdmittedInv, Key
<1>5. ASSUME NEW i \in 1 .. Len(log), Id[log[i].event] # NoId, now < log[i].at + TTL
      PROVE  /\ Cardinality(Since(i)') >= MaxKeys \/ Recalled(i)'
             /\ SameEvent(log[i].event, f) => Cardinality(Since(i)) >= MaxKeys
  <2> DEFINE e == log[i].event
             j == Key(e)
  <2>1. /\ Since(i) \subseteq Since(i)'
        /\ Apart(e, f) => k \in Since(i)'
        /\ Cardinality(Since(i)) >= MaxKeys => Cardinality(Since(i)') >= MaxKeys
        /\ IsFiniteSet(Since(i)')
    BY <1>3, SinceGrows
  <2>2. e \in Events /\ log'[i] = log[i] /\ Key(log[i].event)' = j
    BY <1>2, <1>3 DEF Key
  <2>3. CASE Cardinality(Since(i)) >= MaxKeys
    BY <2>1, <2>3
  <2>4. CASE Recalled(i) /\ Provider[e] = "gopay"
    <3>1. ~SameEvent(e, f)
      BY <2>4 DEF SameEvent
    <3> QED BY <2>1, <2>2, <2>4, <3>1 DEF Recalled
  <2>5. CASE Recalled(i) /\ Provider[e] # "gopay"
    <3>1. /\ j \in MapKeys(seen) /\ seen.of[j] >= log[i].at + TTL
          /\ After(seen, j) \subseteq Since(i)
      BY <2>5 DEF Recalled
    <3>2. seen.of[j] > now
      <4>1. seen.of[j] \in Nat /\ log[i].at \in Nat
        BY <1>3, <3>1, IngressHas DEF MapOf
      <4> QED BY <1>3, <1>5, <3>1, <4>1
    <3>3. j # k
      BY <3>1, <3>2, StoreMaps DEF Store!Live
    <3>4. Apart(e, f) /\ ~SameEvent(e, f)
      BY <2>2, <2>5, <3>3, AreApart, Keys
    <3>5. \/ /\ j \in MapKeys(seen')
             /\ seen'.of[j] = seen.of[j]
             /\ After(seen', j) \subseteq After(seen, j) \cup {k}
          \/ \E A \in SUBSET After(seen, j) :
               k \notin A /\ Cardinality(A) + 1 >= MaxKeys
      BY <1>1, <3>1, <3>2, <3>3
    <3>6. CASE /\ j \in MapKeys(seen')
               /\ seen'.of[j] = seen.of[j]
               /\ After(seen', j) \subseteq After(seen, j) \cup {k}
      <4>1. After(seen', j) \subseteq Since(i)'
        BY <2>1, <3>1, <3>4, <3>6
      <4>2. Recalled(i)'
        BY <2>2, <2>5, <3>1, <3>6, <4>1 DEF Recalled
      <4> QED BY <3>4, <4>2
    <3>7. ASSUME NEW A \in SUBSET After(seen, j), k \notin A, Cardinality(A) + 1 >= MaxKeys
          PROVE  Cardinality(Since(i)') >= MaxKeys
      <4>1. A \cup {k} \subseteq Since(i)'
        BY <2>1, <3>1, <3>4, <3>7
      <4>2. IsFiniteSet(Since(i)') /\ Cardinality(Since(i)') \in Nat
        BY <2>1, FS_CardinalityType
      <4>3. IsFiniteSet(A)
        BY <4>1, <4>2, FS_Subset
      <4>4. Cardinality(A \cup {k}) = Cardinality(A) + 1 /\ Cardinality(A) \in Nat
        BY <3>7, <4>3, FS_AddElement, FS_CardinalityType
      <4>5. Cardinality(A \cup {k}) <= Cardinality(Since(i)')
        BY <4>1, <4>2, FS_Subset
      <4> QED BY <1>3, <3>7, <4>2, <4>4, <4>5
    <3> QED BY <3>4, <3>5, <3>6, <3>7
  <2> QED BY <1>2, <1>5, <2>3, <2>4, <2>5 DEF IngressIInv, RecallInv
<1>6. RecallInv'
  <2>1. ASSUME NEW i \in DOMAIN log', i = Len(log) + 1 PROVE Recalled(i)'
    <3>1. log'[i].event = f /\ log'[i].at = now
      BY <1>2, <2>1
    <3> QED BY <1>1, <1>3, <3>1 DEF Recalled, Key
  <2>2. ASSUME NEW i \in DOMAIN log', i # Len(log) + 1, Id[log'[i].event] # NoId,
               now < log'[i].at + TTL
        PROVE  Cardinality(Since(i)') >= MaxKeys \/ Recalled(i)'
    <3>1. i \in 1 .. Len(log) /\ log'[i] = log[i]
      BY <1>2, <2>2
    <3> QED BY <1>5, <2>2, <3>1
  <2> QED BY <2>1, <2>2 DEF RecallInv
<1>7. AdmittedOncePerTTL'
  <2>1. \A i \in 1 .. Len(log) :
          SameEvent(log[i].event, f) /\ Id[f] # NoId /\ now < log[i].at + TTL
            => Cardinality(Since(i)) >= MaxKeys
    BY <1>5 DEF SameEvent
  <2> QED BY <2>1, OnceStep
<1> QED BY <1>1, <1>4, <1>6, <1>7


(***************************************************************************)
(* An event without an id is admitted: it is marked nowhere and displaces  *)
(* nothing.                                                                *)
(***************************************************************************)
LEMMA UnmarkedStep ==
  ASSUME IngressIInv, NEW f \in Events, Id[f] = NoId,
         UNCHANGED <<now, seen, entries>>, Logged(f)
  PROVE  AdmittedInv' /\ RecallInv' /\ AdmittedOncePerTTL'
<1>1. /\ Len(log) \in Nat /\ DOMAIN log = 1 .. Len(log) /\ DOMAIN log' = 1 .. Len(log) + 1
      /\ log'[Len(log) + 1].event = f
      /\ \A n \in 1 .. Len(log) : log'[n] = log[n]
      /\ now \in Nat /\ log \in Seq(Admission)
  BY IngressHas, LogGrows
<1>2. \A n \in DOMAIN log : n \in DOMAIN log' /\ log'[n] = log[n]
  BY <1>1
<1>3. AdmittedInv'
  BY <1>2 DEF IngressIInv, AdmittedInv, Key
<1>4. ASSUME NEW i \in DOMAIN log', Id[log'[i].event] # NoId, now < log'[i].at + TTL
      PROVE  Cardinality(Since(i)') >= MaxKeys \/ Recalled(i)'
  <2>1. i \in 1 .. Len(log) /\ log'[i] = log[i]
    BY <1>1, <1>4
  <2>2. /\ Since(i) \subseteq Since(i)'
        /\ Cardinality(Since(i)) >= MaxKeys => Cardinality(Since(i)') >= MaxKeys
    BY <1>1, <2>1, SinceGrows
  <2>3. Cardinality(Since(i)) >= MaxKeys \/ Recalled(i)
    BY <1>1, <1>4, <2>1 DEF IngressIInv, RecallInv
  <2> QED BY <2>1, <2>2, <2>3 DEF Recalled, Key
<1>5. RecallInv'
  BY <1>4 DEF RecallInv
<1>6. AdmittedOncePerTTL'
  BY OnceStep
<1> QED BY <1>3, <1>5, <1>6

(***************************************************************************)
(* GoPay delivers under a known id: what has not expired stays, and what   *)
(* the boundary holds was admitted.                                        *)
(***************************************************************************)
LEMMA KnownStep ==
  ASSUME IngressIInv, entries' = Boundary!Unexpired, UNCHANGED <<now, seen, log>>
  PROVE  /\ MapOf(entries', EntryIds, Entry) /\ Cardinality(MapKeys(entries')) <= MaxKeys
         /\ AdmittedInv' /\ RecallInv' /\ AdmittedOncePerTTL'
<1>1. /\ MapOf(entries', EntryIds, Entry)
      /\ MapKeys(entries') \subseteq MapKeys(entries)
      /\ \A i \in MapKeys(entries) : now - entries.of[i].seenAt <= TTL => i \in MapKeys(entries')
      /\ \A i \in MapKeys(entries') :
           entries'.of[i] = entries.of[i] /\ After(entries', i) \subseteq After(entries, i)
  BY UnexpiredIs, IngressHas
<1>2. Cardinality(MapKeys(entries')) <= MaxKeys
  <2>1. /\ IsFiniteSet(MapKeys(entries)) /\ IsFiniteSet(MapKeys(entries'))
        /\ Cardinality(MapKeys(entries')) <= Cardinality(MapKeys(entries))
    BY <1>1, IngressHas, FS_Subset DEF MapOf
  <2> QED BY <2>1, IngressHas, FS_CardinalityType
<1>3. AdmittedInv'
  <2>1. \A k \in MapKeys(seen) : \E n \in DOMAIN log : Key(log[n].event) = k
    BY DEF IngressIInv, AdmittedInv
  <2>2. ASSUME NEW i \in MapKeys(entries')
        PROVE  /\ entries'.of[i].seenAt <= now
               /\ \A j \in After(entries', i) : entries'.of[i].seenAt <= entries'.of[j].seenAt
               /\ \E n \in DOMAIN log :
                    Key(log[n].event) = <<"gopay", i>> /\ log[n].event = entries'.of[i].fingerprint
    <3>1. i \in MapKeys(entries) /\ entries'.of[i] = entries.of[i]
      BY <1>1
    <3>2. \A j \in After(entries', i) : j \in After(entries, i) /\ entries'.of[j] = entries.of[j]
      BY <1>1 DEF After
    <3> QED BY <3>1, <3>2 DEF IngressIInv, AdmittedInv
  <2> QED BY <2>1, <2>2 DEF AdmittedInv, Key
<1>4. ASSUME NEW i \in DOMAIN log, Id[log[i].event] # NoId, now < log[i].at + TTL
      PROVE  Cardinality(Since(i)) >= MaxKeys \/ Recalled(i)'
  <2>1. CASE Cardinality(Since(i)) >= MaxKeys
    BY <2>1
  <2>2. CASE Recalled(i) /\ Provider[log[i].event] # "gopay"
    BY <2>2, SinceSame DEF Recalled, Key
  <2>3. CASE Recalled(i) /\ Provider[log[i].event] = "gopay"
    <3> DEFINE id == Id[log[i].event]
    <3>1. /\ id \in MapKeys(entries) /\ entries.of[id].seenAt >= log[i].at
          /\ \A j \in After(entries, id) : <<"gopay", j>> \in Since(i)
      BY <2>3 DEF Recalled
    <3>2. entries.of[id].seenAt \in Nat /\ log[i].at \in Nat /\ now \in Nat /\ TTL \in Nat
      BY <3>1, IngressHas, LogHas DEF MapOf, Entry
    <3>3. id \in MapKeys(entries')
      <4>1. now - entries.of[id].seenAt <= TTL
        BY <1>4, <3>1, <3>2
      <4> QED BY <1>1, <3>1, <4>1
    <3> QED BY <1>1, <2>3, <3>1, <3>3, SinceSame DEF Recalled
  <2> QED BY <1>4, <2>1, <2>2, <2>3 DEF IngressIInv, RecallInv
<1>5. RecallInv'
  BY <1>4, SinceSame DEF RecallInv
<1>6. AdmittedOncePerTTL'
  BY SinceSame DEF IngressIInv
<1> QED BY <1>1, <1>2, <1>3, <1>5, <1>6

(***************************************************************************)
(* A GoPay event is admitted under a new id: as MarkedStep, of the         *)
(* boundary.                                                               *)
(***************************************************************************)
LEMMA EntryStep ==
  ASSUME IngressIInv, NEW f \in Events, Provider[f] = "gopay", Id[f] # NoId,
         Id[f] \notin MapKeys(Boundary!Unexpired),
         entries' = Boundary!MapSet(Boundary!Kept, Id[f], [fingerprint |-> f, seenAt |-> now]),
         UNCHANGED <<now, seen>>, Logged(f)
  PROVE  /\ MapOf(entries', EntryIds, Entry) /\ Cardinality(MapKeys(entries')) <= MaxKeys
         /\ AdmittedInv' /\ RecallInv' /\ AdmittedOncePerTTL'
<1> DEFINE id == Id[f]
<1>1. /\ MapOf(entries', EntryIds, Entry) /\ Cardinality(MapKeys(entries')) <= MaxKeys
      /\ MapKeys(entries') \subseteq MapKeys(entries) \cup {id} /\ id \in MapKeys(entries')
      /\ entries'.of[id] = [fingerprint |-> f, seenAt |-> now] /\ After(entries', id) = {}
      /\ \A j \in MapKeys(entries') \ {id} :
           /\ entries'.of[j] = entries.of[j]
           /\ After(entries', j) \subseteq After(entries, j) \cup {id}
      /\ \A j \in MapKeys(entries) :
           now - entries.of[j].seenAt <= TTL
             => \/ j \in MapKeys(entries') \ {id}
                \/ \E A \in SUBSET After(entries, j) :
                     id \notin A /\ Cardinality(A) + 1 >= MaxKeys
  <2> DEFINE m == Boundary!MapSet(Boundary!Kept, id, [fingerprint |-> f, seenAt |-> now])
  <2>1. id \in EntryIds /\ id \notin MapKeys(Boundary!Unexpired) /\ entries' = m
    BY Keys
  <2> HIDE DEF id
  <2>2. /\ MapOf(m, EntryIds, Entry) /\ Cardinality(MapKeys(m)) <= MaxKeys
        /\ MapKeys(m) \subseteq MapKeys(entries) \cup {id} /\ id \in MapKeys(m)
        /\ m.of[id] = [fingerprint |-> f, seenAt |-> now] /\ After(m, id) = {}
        /\ \A j \in MapKeys(m) \ {id} :
             m.of[j] = entries.of[j] /\ After(m, j) \subseteq After(entries, j) \cup {id}
        /\ \A j \in MapKeys(entries) :
             now - entries.of[j].seenAt <= TTL
               => \/ j \in MapKeys(m) \ {id}
                  \/ \E A \in SUBSET After(entries, j) :
                       id \notin A /\ Cardinality(A) + 1 >= MaxKeys
    BY <2>1, NewEntry, IngressHas
  <2> HIDE DEF m
  <2> QED BY <2>1, <2>2
<1>2. /\ Len(log) \in Nat /\ DOMAIN log = 1 .. Len(log) /\ DOMAIN log' = 1 .. Len(log) + 1
      /\ log'[Len(log) + 1].event = f /\ log'[Len(log) + 1].at = now
      /\ \A n \in 1 .. Len(log) : log'[n] = log[n]
  BY IngressHas, LogGrows
<1>3. /\ now \in Nat /\ TTL \in Nat \ {0} /\ MaxKeys \in Nat \ {0}
      /\ log \in Seq(Admission)
      /\ \A n \in 1 .. Len(log) : log[n].event \in Events /\ log[n].at \in Nat
      /\ Key(f) = <<"gopay", id>>
  BY IngressHas, LogHas, Keys
<1>4. AdmittedInv'
  <2>1. \A n \in DOMAIN log : n \in DOMAIN log' /\ log'[n] = log[n]
    BY <1>2
  <2>2. \A k \in MapKeys(seen) : \E n \in DOMAIN log' : Key(log'[n].event) = k
    BY <2>1 DEF IngressIInv, AdmittedInv
  <2>3. ASSUME NEW i \in MapKeys(entries')
        PROVE  /\ entries'.of[i].seenAt <= now
               /\ \A j \in After(entries', i) : entries'.of[i].seenAt <= entries'.of[j].seenAt
               /\ \E n \in DOMAIN log' :
                    Key(log'[n].event) = <<"gopay", i>> /\ log'[n].event = entries'.of[i].fingerprint
    <3>1. CASE i = id
      <4>1. Len(log) + 1 \in DOMAIN log'
        BY <1>2
      <4> QED BY <1>1, <1>2, <1>3, <3>1, <4>1
    <3>2. CASE i # id
      <4>1. /\ i \in MapKeys(entries) /\ entries'.of[i] = entries.of[i]
            /\ After(entries', i) \subseteq After(entries, i) \cup {id}
        BY <1>1, <3>2
      <4>2. /\ entries.of[i].seenAt <= now
            /\ \A j \in After(entries, i) : entries.of[i].seenAt <= entries.of[j].seenAt
            /\ \E n \in DOMAIN log :
                 Key(log[n].event) = <<"gopay", i>> /\ log[n].event = entries.of[i].fingerprint
        BY <4>1 DEF IngressIInv, AdmittedInv
      <4>3. ASSUME NEW j \in After(entries', i)
            PROVE  entries'.of[i].seenAt <= entries'.of[j].seenAt
        <5>1. CASE j = id
          BY <1>1, <4>1, <4>2, <5>1
        <5>2. CASE j # id
          <6>1. j \in After(entries, i) /\ j \in MapKeys(entries') \ {id}
            BY <4>1, <5>2 DEF After
          <6> QED BY <1>1, <4>1, <4>2, <6>1
        <5> QED BY <5>1, <5>2
      <4> QED BY <2>1, <4>1, <4>2, <4>3
    <3> QED BY <3>1, <3>2
  <2> QED BY <2>2, <2>3 DEF AdmittedInv, Key
<1>5. ASSUME NEW i \in 1 .. Len(log), Id[log[i].event] # NoId, now < log[i].at + TTL
      PROVE  /\ Cardinality(Since(i)') >= MaxKeys \/ Recalled(i)'
             /\ SameEvent(log[i].event, f) => Cardinality(Since(i)) >= MaxKeys
  <2> DEFINE e == log[i].event
             j == Id[e]
  <2>1. /\ Since(i) \subseteq Since(i)'
        /\ Apart(e, f) => Key(f) \in Since(i)'
        /\ Cardinality(Since(i)) >= MaxKeys => Cardinality(Since(i)') >= MaxKeys
        /\ IsFiniteSet(Since(i)')
    BY <1>3, SinceGrows
  <2>2. e \in Events /\ log'[i] = log[i] /\ Key(e) = <<Provider[e], j>>
    BY <1>2, <1>3 DEF Key
  <2>3. CASE Cardinality(Since(i)) >= MaxKeys
    BY <2>1, <2>3
  <2>4. CASE Recalled(i) /\ Provider[e] # "gopay"
    <3>1. ~SameEvent(e, f)
      BY <2>4 DEF SameEvent
    <3> QED BY <2>1, <2>2, <2>4, <3>1 DEF Recalled, Key
  <2>5. CASE Recalled(i) /\ Provider[e] = "gopay"
    <3>1. /\ j \in MapKeys(entries) /\ entries.of[j].seenAt >= log[i].at
          /\ \A x \in After(entries, j) : <<"gopay", x>> \in Since(i)
      BY <2>5 DEF Recalled
    <3>2. now - entries.of[j].seenAt <= TTL
      <4>1. entries.of[j].seenAt \in Nat /\ log[i].at \in Nat
        BY <1>3, <3>1, IngressHas DEF MapOf, Entry
      <4> QED BY <1>3, <1>5, <3>1, <4>1
    <3>3. j # id
      BY <3>1, <3>2, UnexpiredIs, IngressHas
    <3>4. ~SameEvent(e, f) /\ Apart(e, f) /\ <<"gopay", id>> \in Since(i)'
      <4>1. Key(e) # Key(f)
        BY <1>3, <2>2, <3>3
      <4> QED BY <1>3, <2>1, <2>2, <2>5, <4>1, AreApart, Keys
    <3>5. CASE j \in MapKeys(entries') \ {id}
      <4>1. /\ entries'.of[j] = entries.of[j]
            /\ After(entries', j) \subseteq After(entries, j) \cup {id}
        BY <1>1, <3>5
      <4>2. \A x \in After(entries', j) : <<"gopay", x>> \in Since(i)'
        BY <2>1, <3>1, <3>4, <4>1
      <4>3. Recalled(i)'
        BY <2>2, <2>5, <3>1, <3>5, <4>1, <4>2 DEF Recalled
      <4> QED BY <3>4, <4>3
    <3>6. ASSUME NEW A \in SUBSET After(entries, j), id \notin A, Cardinality(A) + 1 >= MaxKeys
          PROVE  Cardinality(Since(i)') >= MaxKeys
      <4> DEFINE name == [x \in A \cup {id} |-> <<"gopay", x>>]
                 N == Since(i)'
      <4>1. \A x \in A \cup {id} : <<"gopay", x>> \in N
        BY <2>1, <3>1, <3>4, <3>6
      <4>2. IsFiniteSet(N)
        BY <2>1
      <4> HIDE DEF N
      <4>3. name \in Injection(A \cup {id}, N)
        BY <4>1 DEF Injection, IsInjective
      <4> HIDE DEF name
      <4>4. /\ IsFiniteSet(A \cup {id})
            /\ Cardinality(A \cup {id}) <= Cardinality(N)
        BY <4>2, <4>3, FS_Injection
      <4>5. IsFiniteSet(A)
        BY <4>4, FS_Subset
      <4>6. /\ Cardinality(A \cup {id}) = Cardinality(A) + 1
            /\ Cardinality(A) \in Nat /\ Cardinality(N) \in Nat
        BY <3>6, <4>2, <4>5, FS_AddElement, FS_CardinalityType
      <4>7. Cardinality(N) >= MaxKeys
        BY <1>3, <3>6, <4>4, <4>6
      <4> QED BY <4>7 DEF N
    <3> QED BY <1>1, <3>1, <3>2, <3>4, <3>5, <3>6
  <2> QED BY <1>2, <1>5, <2>3, <2>4, <2>5 DEF IngressIInv, RecallInv
<1>6. RecallInv'
  <2>1. ASSUME NEW i \in DOMAIN log', i = Len(log) + 1 PROVE Recalled(i)'
    <3>1. log'[i].event = f /\ log'[i].at = now
      BY <1>2, <2>1
    <3> QED BY <1>1, <1>3, <3>1 DEF Recalled, Key
  <2>2. ASSUME NEW i \in DOMAIN log', i # Len(log) + 1, Id[log'[i].event] # NoId,
               now < log'[i].at + TTL
        PROVE  Cardinality(Since(i)') >= MaxKeys \/ Recalled(i)'
    <3>1. i \in 1 .. Len(log) /\ log'[i] = log[i]
      BY <1>2, <2>2
    <3> QED BY <1>5, <2>2, <3>1
  <2> QED BY <2>1, <2>2 DEF RecallInv
<1>7. AdmittedOncePerTTL'
  <2>1. \A i \in 1 .. Len(log) :
          SameEvent(log[i].event, f) /\ Id[f] # NoId /\ now < log[i].at + TTL
            => Cardinality(Since(i)) >= MaxKeys
    BY <1>5 DEF SameEvent
  <2> QED BY <2>1, OnceStep
<1> QED BY <1>1, <1>4, <1>6, <1>7


-----------------------------------------------------------------------------
(* The steps of the ingress.                                               *)

\* A request that is not a free slot is for an event.
LEMMA CallHas ==
  ASSUME IngressIInv, NEW c \in Calls
  PROVE  /\ call[c] \in Webhook
         /\ call[c] = [pc |-> call[c].pc, event |-> call[c].event, reply |-> call[c].reply]
         /\ call[c].pc # "idle" => call[c].event \in Events
         /\ call[c].reply = "replay" /\ Id[call[c].event] \notin LongIds
              => WasAdmitted(call[c].event)
BY IngressHas DEF IngressIInv, RequestInv, ReplayWasAdmitted, WasAdmitted, Webhook

\* A request moves on to pc with an answer.
MovedCall(c, pc, reply) == [pc |-> pc, event |-> call[c].event, reply |-> reply]

LEMMA MovedCallIs ==
  ASSUME IngressIInv, NEW c \in Calls, call[c].pc # "idle",
         NEW pc \in {"verifying", "forwarding", "reached", "done"}, NEW reply \in Replies
  PROVE  LET rec == MovedCall(c, pc, reply) IN
         /\ rec \in Webhook
         /\ rec.event = call[c].event /\ rec.event # NoEvent /\ rec.reply = reply
<1>1. call[c].event \in Events /\ call[c].event # NoEvent
  BY CallHas, IngressAssumption
<1> QED BY <1>1 DEF MovedCall, Webhook

LEMMA AnswerIs ==
  ASSUME IngressIInv, NEW c \in Calls, NEW reply, Answer(c, reply)
  PROVE  call' = [call EXCEPT ![c] = MovedCall(c, "done", reply)]
<1>1. call[c] \in Webhook /\ call \in [Calls -> Webhook]
  BY IngressHas
<1>2. [[call[c] EXCEPT !.pc = "done"] EXCEPT !.reply = reply] = MovedCall(c, "done", reply)
  <2>1. [call[c] EXCEPT !.pc = "done"] = [pc |-> "done", event |-> call[c].event, reply |-> call[c].reply]
    BY <1>1 DEF Webhook
  <2> DEFINE q == [call[c] EXCEPT !.pc = "done"]
  <2>2. q = [pc |-> q.pc, event |-> q.event, reply |-> q.reply]
        /\ q.pc = "done" /\ q.event = call[c].event
    BY <2>1
  <2> HIDE DEF q
  <2>3. [q EXCEPT !.reply = reply] = [pc |-> q.pc, event |-> q.event, reply |-> reply]
    BY <2>2
  <2> QED BY <2>2, <2>3 DEF q, MovedCall
<1>3. call' = [call EXCEPT ![c] = [[call[c] EXCEPT !.pc = "done"] EXCEPT !.reply = reply]]
  <2> HIDE DEF Webhook
  <2> QED BY <1>1 DEF Answer
<1> QED BY <1>2, <1>3

LEMMA PcIs ==
  ASSUME IngressIInv, NEW c \in Calls, NEW pc, call' = [call EXCEPT ![c].pc = pc]
  PROVE  call' = [call EXCEPT ![c] = MovedCall(c, pc, call[c].reply)]
<1>1. call[c] \in Webhook /\ call \in [Calls -> Webhook]
  BY IngressHas
<1>2. [call[c] EXCEPT !.pc = pc] = MovedCall(c, pc, call[c].reply)
  BY <1>1 DEF Webhook, MovedCall
<1>3. call' = [call EXCEPT ![c] = [call[c] EXCEPT !.pc = pc]]
  OBVIOUS
<1> QED BY <1>2, <1>3

(***************************************************************************)
(* A request is answered or moves on, with nothing else changed.           *)
(***************************************************************************)
LEMMA MovedCallStep ==
  ASSUME IngressIInv, NEW c \in Calls, call[c].pc # "idle",
         NEW pc \in {"verifying", "forwarding", "reached", "done"}, NEW reply \in Replies,
         reply \in {call[c].reply} \cup (Replies \ {"replay"})
           \/ Id[call[c].event] \in LongIds \/ WasAdmitted(call[c].event),
         call' = [call EXCEPT ![c] = MovedCall(c, pc, reply)],
         UNCHANGED <<now, seen, lastSweepAt, entries, log>>,
         sent' \in Nat, received' \subseteq Events
  PROVE  IngressIInv'
<1> DEFINE rec == MovedCall(c, pc, reply)
<1>1. /\ rec \in Webhook
      /\ rec.event = call[c].event /\ rec.event # NoEvent /\ rec.reply = reply
  BY MovedCallIs
<1> HIDE DEF rec
<1>2. rec.reply = "replay" /\ Id[rec.event] \notin LongIds => WasAdmitted(rec.event)
  BY <1>1, CallHas
<1>3. PICK new \in Webhook : new = rec
  BY <1>1
<1>4. call' = [call EXCEPT ![c] = new]
  BY <1>3 DEF rec
<1> QED BY <1>1, <1>2, <1>3, <1>4, QuietCallStep

\* An event is delivered.
LEMMA ReceiveStep ==
  ASSUME IngressIInv, NEW c \in Calls, NEW e \in Events, Receive(c, e)
  PROVE  IngressIInv'
<1> DEFINE rec == [pc |-> "verifying", event |-> e, reply |-> "none"]
<1>1. /\ rec \in Webhook /\ rec.event = e /\ rec.reply = "none"
      /\ call' = [call EXCEPT ![c] = rec]
      /\ UNCHANGED <<now, seen, lastSweepAt, entries, log, received>>
  BY DEF Receive, Webhook, Replies
<1>2. sent' \in Nat /\ received' \subseteq Events /\ e # NoEvent
  BY IngressAssumption DEF Receive, IngressIInv, TypeOK
<1> HIDE DEF rec
<1>3. PICK new \in Webhook : new = rec
  BY <1>1
<1> QED BY <1>1, <1>2, <1>3, QuietCallStep

\* A request is refused, forwarded, or answered for what the worker said.
LEMMA ForwardSteps ==
  ASSUME IngressIInv, NEW c \in Calls,
         Refuse(c) \/ ForwardArrives(c) \/ ForwardOk(c) \/ ForwardFails(c)
  PROVE  IngressIInv'
<1>1. /\ sent \in Nat /\ received \subseteq Events
      /\ call[c].reply \in Replies /\ {"refused", "forwarded", "failed"} \subseteq Replies \ {"replay"}
  BY CallHas DEF IngressIInv, TypeOK, Webhook, Replies
<1>2. CASE Refuse(c)
  <2>1. call' = [call EXCEPT ![c] = MovedCall(c, "done", "refused")]
    BY <1>2, AnswerIs DEF Refuse
  <2>2. /\ call[c].pc # "idle"
        /\ UNCHANGED <<now, seen, lastSweepAt, entries, sent, received, log>>
    BY <1>2 DEF Refuse
  <2> QED BY <1>1, <2>1, <2>2, MovedCallStep
<1>3. CASE ForwardArrives(c)
  <2>1. call' = [call EXCEPT ![c] = MovedCall(c, "reached", call[c].reply)]
    BY <1>3, PcIs DEF ForwardArrives
  <2>2. /\ call[c].pc # "idle"
        /\ UNCHANGED <<now, seen, lastSweepAt, entries, sent, log>>
        /\ received' \subseteq Events
    BY <1>1, <1>3, CallHas DEF ForwardArrives
  <2> QED BY <1>1, <2>1, <2>2, MovedCallStep
<1>4. CASE ForwardOk(c)
  <2>1. call' = [call EXCEPT ![c] = MovedCall(c, "done", "forwarded")]
    BY <1>4, AnswerIs DEF ForwardOk
  <2>2. /\ call[c].pc # "idle"
        /\ UNCHANGED <<now, seen, lastSweepAt, entries, sent, received, log>>
    BY <1>4 DEF ForwardOk
  <2> QED BY <1>1, <2>1, <2>2, MovedCallStep
<1>5. CASE ForwardFails(c)
  <2>1. call' = [call EXCEPT ![c] = MovedCall(c, "done", "failed")]
    BY <1>5, AnswerIs DEF ForwardFails
  <2>2. /\ call[c].pc # "idle"
        /\ UNCHANGED <<now, seen, lastSweepAt, entries, sent, received, log>>
    BY <1>5 DEF ForwardFails
  <2> QED BY <1>1, <2>1, <2>2, MovedCallStep
<1> QED BY <1>2, <1>3, <1>4, <1>5

\* A slot is freed.
LEMMA FinishStep ==
  ASSUME IngressIInv, NEW c \in Calls, Finish(c)
  PROVE  IngressIInv'
<1>1. Idle \in Webhook /\ Idle.pc = "idle" /\ Idle.reply = "none"
  BY DEF Idle, Webhook, Replies
<1>2. /\ call' = [call EXCEPT ![c] = Idle]
      /\ UNCHANGED <<now, seen, lastSweepAt, entries, sent, received, log>>
      /\ sent' \in Nat /\ received' \subseteq Events
  BY DEF Finish, IngressIInv, TypeOK
<1>3. PICK new \in Webhook : new = Idle
  BY <1>1
<1> QED BY <1>1, <1>2, <1>3, QuietCallStep

(***************************************************************************)
(* An admission logs the event, and does not answer it as a replay.        *)
(***************************************************************************)
LEMMA AdmitIs ==
  ASSUME IngressIInv, NEW c \in Calls, call[c].pc # "idle", Admit(c), UNCHANGED now
  PROVE  /\ call[c].event \in Events /\ Logged(call[c].event)
         /\ log' \in Seq(Admission)
         /\ call' \in [Calls -> Webhook] /\ RequestInv' /\ ReplayWasAdmitted'
<1>1. call[c].event \in Events /\ Logged(call[c].event)
  BY CallHas DEF Admit, Logged
<1>2. log' \in Seq(Admission)
  BY <1>1, IngressHas, LogGrows
<1>3. \E pc \in {"forwarding", "done"}, reply \in {call[c].reply, "ok"} :
        call' = [call EXCEPT ![c] = MovedCall(c, pc, reply)]
  BY AnswerIs, PcIs DEF Admit
<1>4. PICK pc \in {"forwarding", "done"}, reply \in {call[c].reply, "ok"} :
        call' = [call EXCEPT ![c] = MovedCall(c, pc, reply)]
  BY <1>3
<1> DEFINE rec == MovedCall(c, pc, reply)
<1>5. /\ rec \in Webhook
      /\ rec.event = call[c].event /\ rec.event # NoEvent /\ rec.reply = reply
  <2>1. reply \in Replies
    BY CallHas DEF Webhook, Replies
  <2> QED BY <2>1, MovedCallIs
<1> HIDE DEF rec
<1>6. rec.reply = "replay" /\ Id[rec.event] \notin LongIds => WasAdmitted(rec.event)
  BY <1>5, CallHas
<1>7. PICK new \in Webhook : new = rec
  BY <1>5
<1>8. call' = [call EXCEPT ![c] = new]
  BY <1>4, <1>7 DEF rec
<1>9. call' \in [Calls -> Webhook] /\ RequestInv' /\ ReplayWasAdmitted'
  BY <1>1, <1>5, <1>6, <1>7, <1>8, CallStep
<1> QED BY <1>1, <1>2, <1>9

(***************************************************************************)
(* A replay is answered of what was admitted, while the store changes.     *)
(***************************************************************************)
LEMMA RepliedIs ==
  ASSUME IngressIInv, NEW c \in Calls, call[c].pc # "idle", NEW reply \in Replies,
         Answer(c, reply), UNCHANGED <<now, log>>,
         reply = "replay" /\ Id[call[c].event] \notin LongIds => WasAdmitted(call[c].event)
  PROVE  call' \in [Calls -> Webhook] /\ RequestInv' /\ ReplayWasAdmitted'
<1> DEFINE rec == MovedCall(c, "done", reply)
<1>1. /\ rec \in Webhook
      /\ rec.event = call[c].event /\ rec.event # NoEvent /\ rec.reply = reply
  BY MovedCallIs
<1>2. call' = [call EXCEPT ![c] = rec]
  BY AnswerIs
<1> HIDE DEF rec
<1>3. PICK new \in Webhook : new = rec
  BY <1>1
<1> QED BY <1>1, <1>2, <1>3, CallStep

(***************************************************************************)
(* The parts of the invariant together.                                    *)
(***************************************************************************)
LEMMA Together ==
  ASSUME IngressIInv, UNCHANGED <<now, sent, received>>, lastSweepAt' \in Nat,
         log' \in Seq(Admission), call' \in [Calls -> Webhook],
         MapOf(seen', SeenKeys, Nat), Cardinality(MapKeys(seen')) <= MaxKeys,
         MapOf(entries', EntryIds, Entry), Cardinality(MapKeys(entries')) <= MaxKeys,
         RequestInv', AdmittedInv', RecallInv', AdmittedOncePerTTL', ReplayWasAdmitted'
  PROVE  IngressIInv'
<1>1. MapOf(seen', {Key(e) : e \in Events}, Nat)
  BY DEF SeenKeys
<1>2. MapOf(seen, {Key(e) : e \in Events}, Nat)'
  BY <1>1 DEF Key
<1>3. MapOf(entries, {Id[e] : e \in Events}, [fingerprint : Events, seenAt : Nat])'
  BY DEF EntryIds, Entry
<1>4. TypeOK'
  BY <1>2, <1>3 DEF IngressIInv, TypeOK, Admission
<1> QED BY <1>4 DEF IngressIInv


\* Stripe and PayPal: markAndCheck and what it answers.
LEMMA AdmitMarkedStep ==
  ASSUME IngressIInv, NEW c \in Calls, AdmitMarked(c)
  PROVE  IngressIInv'
<1> DEFINE e == call[c].event
           k == Key(e)
<1>1. /\ call[c].pc # "idle" /\ e \in Events /\ Provider[e] # "gopay" /\ Id[e] # NoId
      /\ UNCHANGED <<now, entries, sent, received>>
  BY CallHas DEF AdmitMarked
<1>2. /\ Store!MarkAndCheck(k)
      /\ IF Store!IsReplay(k) THEN Answer(c, "replay") /\ UNCHANGED log ELSE Admit(c)
  BY DEF AdmitMarked
<1>3. k \in SeenKeys /\ k = <<Provider[e], Id[e]>>
  BY <1>1, Keys
<1>4. now \in Nat /\ lastSweepAt \in Nat /\ "replay" \in Replies
  BY DEF IngressIInv, TypeOK, Replies
<1>5. /\ MapOf(seen, SeenKeys, Nat) /\ Cardinality(MapKeys(seen)) <= MaxKeys
      /\ MapOf(entries, EntryIds, Entry) /\ Cardinality(MapKeys(entries)) <= MaxKeys
      /\ log \in Seq(Admission)
      /\ AdmittedInv /\ RecallInv /\ AdmittedOncePerTTL
  BY IngressHas DEF IngressIInv
<1>6. lastSweepAt' \in Nat
  BY <1>2, <1>4 DEF Store!MarkAndCheck
<1>7. CASE k \in {"stripe", "paypal"} \X LongIds
  <2>1. Answer(c, "replay") /\ log' = log /\ UNCHANGED <<seen, lastSweepAt>>
    BY <1>2, <1>7 DEF Store!IsReplay, Store!MarkAndCheck
  <2>2. Id[e] \in LongIds
    BY <1>3, <1>7
  <2>3. call' = [call EXCEPT ![c] = MovedCall(c, "done", "replay")]
    BY <2>1, AnswerIs
  <2>4. sent' \in Nat /\ received' \subseteq Events
    BY <1>1 DEF IngressIInv, TypeOK
  <2> QED BY <1>1, <1>4, <2>1, <2>2, <2>3, <2>4, MovedCallStep
<1>8. CASE k \notin {"stripe", "paypal"} \X LongIds /\ Store!Live(k)
  <2>1. /\ Answer(c, "replay") /\ log' = log
        /\ seen' = Store!MapSet(Store!Swept, k, now + TTL)
    BY <1>2, <1>8 DEF Store!IsReplay, Store!MarkAndCheck
  <2>2. /\ MapOf(seen', SeenKeys, Nat) /\ Cardinality(MapKeys(seen')) <= MaxKeys
        /\ AdmittedInv' /\ RecallInv' /\ AdmittedOncePerTTL'
        /\ \E n \in DOMAIN log : Key(log[n].event) = k
    <3> HIDE DEF k
    <3> QED BY <1>1, <1>3, <1>8, <2>1, ReplayStep
  <2>3. WasAdmitted(e)
    <3>1. \A n \in DOMAIN log : log[n].event \in Events
      BY IngressHas, LogHas
    <3> QED BY <1>1, <2>2, <3>1, Keys DEF WasAdmitted
  <2>4. call' \in [Calls -> Webhook] /\ RequestInv' /\ ReplayWasAdmitted'
    BY <1>1, <1>4, <2>1, <2>3, RepliedIs
  <2> QED BY <1>1, <1>5, <1>6, <2>1, <2>2, <2>4, Together
<1>9. CASE k \notin {"stripe", "paypal"} \X LongIds /\ ~Store!Live(k)
  <2>1. Admit(c) /\ seen' = Store!Added(k)
    BY <1>2, <1>9 DEF Store!IsReplay, Store!MarkAndCheck
  <2>2. /\ Logged(e) /\ log' \in Seq(Admission)
        /\ call' \in [Calls -> Webhook] /\ RequestInv' /\ ReplayWasAdmitted'
    BY <1>1, <2>1, AdmitIs
  <2>3. /\ MapOf(seen', SeenKeys, Nat) /\ Cardinality(MapKeys(seen')) <= MaxKeys
        /\ AdmittedInv' /\ RecallInv' /\ AdmittedOncePerTTL'
    BY <1>1, <1>9, <2>1, <2>2, MarkedStep
  <2> QED BY <1>1, <1>5, <1>6, <2>2, <2>3, Together
<1> QED BY <1>7, <1>8, <1>9

\* Stripe and PayPal events without an id.
LEMMA AdmitUnmarkedStep ==
  ASSUME IngressIInv, NEW c \in Calls, AdmitUnmarked(c)
  PROVE  IngressIInv'
<1> DEFINE e == call[c].event
<1>1. /\ call[c].pc # "idle" /\ e \in Events /\ Id[e] = NoId /\ Admit(c)
      /\ UNCHANGED <<now, seen, lastSweepAt, entries, sent, received>>
  BY CallHas DEF AdmitUnmarked
<1>2. /\ Logged(e) /\ log' \in Seq(Admission)
      /\ call' \in [Calls -> Webhook] /\ RequestInv' /\ ReplayWasAdmitted'
  BY <1>1, AdmitIs
<1>3. AdmittedInv' /\ RecallInv' /\ AdmittedOncePerTTL'
  BY <1>1, <1>2, UnmarkedStep
<1>4. lastSweepAt \in Nat
  BY DEF IngressIInv, TypeOK
<1> QED BY <1>1, <1>2, <1>3, <1>4, IngressHas, Together

\* GoPay: classify and what it answers.
LEMMA AdmitGoPayStep ==
  ASSUME IngressIInv, NEW c \in Calls, AdmitGoPay(c)
  PROVE  IngressIInv'
<1> DEFINE e == call[c].event
           decision == Boundary!Decision(Id[e], e)
<1>1. /\ call[c].pc # "idle" /\ e \in Events /\ Provider[e] = "gopay"
      /\ UNCHANGED <<now, seen, lastSweepAt, sent, received>>
  BY CallHas DEF AdmitGoPay
<1>2. /\ Boundary!Classify(Id[e], e)
      /\ CASE decision = "accepted" -> Admit(c)
           [] decision = "duplicate" ->
                Answer(c, IF Policy = "reject" THEN "duplicate" ELSE "replay") /\ UNCHANGED log
           [] OTHER -> Answer(c, decision) /\ UNCHANGED log
  BY DEF AdmitGoPay
<1>3. lastSweepAt' \in Nat /\ {"replay", "duplicate", "conflict", "missing-id"} \subseteq Replies
  BY <1>1 DEF IngressIInv, TypeOK, Replies
<1>4. CASE Id[e] \in LongIds \cup {NoId}
  <2>1. decision = "missing-id" /\ entries' = entries
    BY <1>2, <1>4 DEF Boundary!Decision, Boundary!Classify
  <2>2. Answer(c, "missing-id") /\ log' = log
    BY <1>2, <2>1
  <2>3. call' = [call EXCEPT ![c] = MovedCall(c, "done", "missing-id")]
    BY <2>2, AnswerIs
  <2>4. sent' \in Nat /\ received' \subseteq Events
    BY <1>1 DEF IngressIInv, TypeOK
  <2> QED BY <1>1, <1>3, <2>1, <2>2, <2>3, <2>4, MovedCallStep
<1>5. CASE Id[e] \notin LongIds \cup {NoId} /\ Id[e] \in MapKeys(Boundary!Unexpired)
  <2>1. entries' = Boundary!Unexpired
    BY <1>2, <1>5, BoundaryMaps DEF Boundary!Classify
  <2>2. decision = IF Boundary!Unexpired.of[Id[e]].fingerprint = e THEN "duplicate" ELSE "conflict"
    BY <1>5, BoundaryMaps DEF Boundary!Decision
  <2>3. PICK reply \in {"replay", "duplicate", "conflict"} :
          /\ Answer(c, reply) /\ log' = log
          /\ reply = "replay" => decision = "duplicate"
    BY <1>2, <2>2
  <2>4. decision = "duplicate" => WasAdmitted(e)
    <3>1. SUFFICES ASSUME Boundary!Unexpired.of[Id[e]].fingerprint = e PROVE WasAdmitted(e)
      BY <2>2
    <3>2. Id[e] \in MapKeys(entries) /\ entries.of[Id[e]].fingerprint = e
      BY <1>5, <3>1, UnexpiredIs, IngressHas
    <3>3. \E n \in DOMAIN log :
            Key(log[n].event) = <<"gopay", Id[e]>> /\ log[n].event = entries.of[Id[e]].fingerprint
      BY <3>2 DEF IngressIInv, AdmittedInv
    <3> QED BY <3>2, <3>3 DEF WasAdmitted, SameEvent
  <2>5. /\ MapOf(entries', EntryIds, Entry) /\ Cardinality(MapKeys(entries')) <= MaxKeys
        /\ AdmittedInv' /\ RecallInv' /\ AdmittedOncePerTTL'
    BY <1>1, <2>1, <2>3, KnownStep
  <2>6. call' \in [Calls -> Webhook] /\ RequestInv' /\ ReplayWasAdmitted'
    <3>1. reply \in Replies
      BY <1>3
    <3> HIDE DEF decision
    <3> QED BY <1>1, <2>3, <2>4, <3>1, RepliedIs
  <2> QED BY <1>1, <1>3, <2>3, <2>5, <2>6, IngressHas, Together
<1>6. CASE Id[e] \notin LongIds \cup {NoId} /\ Id[e] \notin MapKeys(Boundary!Unexpired)
  <2>1. entries' = Boundary!MapSet(Boundary!Kept, Id[e], [fingerprint |-> e, seenAt |-> now])
    BY <1>2, <1>6, BoundaryMaps DEF Boundary!Classify
  <2>2. decision = "accepted"
    BY <1>6, BoundaryMaps DEF Boundary!Decision
  <2>3. Admit(c)
    BY <1>2, <2>2
  <2>4. /\ Logged(e) /\ log' \in Seq(Admission)
        /\ call' \in [Calls -> Webhook] /\ RequestInv' /\ ReplayWasAdmitted'
    BY <1>1, <2>3, AdmitIs
  <2>5. /\ MapOf(entries', EntryIds, Entry) /\ Cardinality(MapKeys(entries')) <= MaxKeys
        /\ AdmittedInv' /\ RecallInv' /\ AdmittedOncePerTTL'
    BY <1>1, <1>6, <2>1, <2>4, EntryStep
  <2> QED BY <1>1, <1>3, <2>4, <2>5, IngressHas, Together
<1> QED BY <1>4, <1>5, <1>6

\* What holds of empty stores and a free slot.
LEMMA Nothing ==
  /\ MapOf(EmptyMap, {Key(e) : e \in Events}, Nat)
  /\ MapOf(EmptyMap, {Id[e] : e \in Events}, [fingerprint : Events, seenAt : Nat])
  /\ MapKeys(EmptyMap) = {} /\ Cardinality(MapKeys(EmptyMap)) <= MaxKeys
  /\ Idle \in Webhook /\ Idle.event = NoEvent /\ Idle.pc = "idle" /\ Idle.reply = "none"
  /\ <<>> \in Seq([event : Events, at : Nat])
<1>1. MapOf(EmptyMap, {Key(e) : e \in Events}, Nat) /\ MapKeys(EmptyMap) = {}
  BY EmptyMapOf
<1>2. MapOf(EmptyMap, {Id[e] : e \in Events}, [fingerprint : Events, seenAt : Nat])
  BY EmptyMapOf
<1>3. Cardinality(MapKeys(EmptyMap)) <= MaxKeys
  BY <1>1, FS_EmptySet, IngressAssumption
<1>4. Idle \in Webhook /\ Idle.event = NoEvent /\ Idle.pc = "idle" /\ Idle.reply = "none"
  BY DEF Idle, Webhook, Replies
<1> QED BY <1>1, <1>2, <1>3, <1>4

\* A process starts with nothing remembered, nothing in flight, nothing logged.
LEMMA IngressInit == Init => IngressIInv
<1> SUFFICES ASSUME Init PROVE IngressIInv
  OBVIOUS
<1>1. /\ now = 0 /\ lastSweepAt = 0 /\ sent = 0 /\ received = {} /\ log = <<>>
      /\ call = [c \in Calls |-> Idle]
  BY DEF Init, Store!InitStore
<1>2. seen = EmptyMap
  BY StoreMaps DEF Init, Store!InitStore
<1>3. entries = EmptyMap
  BY BoundaryMaps DEF Init, Boundary!InitBoundary
<1>4. TypeOK
  BY <1>1, <1>2, <1>3, Nothing DEF TypeOK
<1>5. RequestInv /\ AdmittedInv /\ RecallInv /\ AdmittedOncePerTTL /\ ReplayWasAdmitted
  BY <1>1, <1>2, <1>3, Nothing DEF RequestInv, AdmittedInv, RecallInv, AdmittedOncePerTTL,
     ReplayWasAdmitted
<1> QED BY <1>4, <1>5 DEF IngressIInv

LEMMA IngressRestart ==
  ASSUME IngressIInv, Restart
  PROVE  IngressIInv'
<1>1. /\ now' = now /\ lastSweepAt' = 0 /\ sent' = sent /\ received' = received /\ log' = <<>>
      /\ seen' = EmptyMap /\ entries' = EmptyMap /\ call' = [c \in Calls |-> Idle]
      /\ now \in Nat /\ sent \in Nat /\ received \subseteq Events
  BY DEF Restart, IngressIInv, TypeOK
<1>2. TypeOK'
  BY <1>1, Nothing DEF TypeOK, Key
<1>3. RequestInv' /\ AdmittedInv' /\ RecallInv' /\ AdmittedOncePerTTL' /\ ReplayWasAdmitted'
  BY <1>1, Nothing DEF RequestInv, AdmittedInv, RecallInv, AdmittedOncePerTTL,
     ReplayWasAdmitted
<1> QED BY <1>2, <1>3 DEF IngressIInv

\* Time passes: less has been admitted within a TTL.
LEMMA IngressTick ==
  ASSUME IngressIInv, Tick
  PROVE  IngressIInv'
<1>1. /\ now' = now + 1 /\ log' = log
      /\ UNCHANGED <<seen, lastSweepAt, entries, call, sent, received>>
      /\ now \in Nat /\ TTL \in Nat
      /\ \A n \in DOMAIN log : log[n].at \in Nat
  BY IngressHas, LogHas DEF Tick
<1>2. TypeOK'
  BY <1>1 DEF IngressIInv, TypeOK, Key
<1>3. RequestInv'
  BY <1>1 DEF IngressIInv, RequestInv
<1>4. AdmittedInv'
  <2>1. \A i \in MapKeys(entries) : entries.of[i].seenAt \in Nat /\ entries.of[i].seenAt <= now
    BY IngressHas DEF IngressIInv, AdmittedInv, MapOf, Entry
  <2>2. \A i \in MapKeys(entries) : entries.of[i].seenAt <= now + 1
    BY <1>1, <2>1
  <2> QED BY <1>1, <2>2 DEF IngressIInv, AdmittedInv, Key
<1>5. RecallInv'
  <2>1. \A i : Recalled(i) => Recalled(i)'
    BY <1>1, SinceSame DEF Recalled, Key
  <2>2. \A i \in DOMAIN log : now + 1 < log[i].at + TTL => now < log[i].at + TTL
    BY <1>1
  <2> QED BY <1>1, <2>1, <2>2, SinceSame DEF IngressIInv, RecallInv
<1>6. AdmittedOncePerTTL' /\ ReplayWasAdmitted'
  BY <1>1, SinceSame DEF IngressIInv, ReplayWasAdmitted, SameEvent
<1> QED BY <1>2, <1>3, <1>4, <1>5, <1>6 DEF IngressIInv

LEMMA IngressNext == IngressIInv /\ [Next]_vars => IngressIInv'
<1> SUFFICES ASSUME IngressIInv, [Next]_vars PROVE IngressIInv'
  OBVIOUS
<1>1. ASSUME NEW c \in Calls, NEW e \in Events, Receive(c, e) PROVE IngressIInv'
  BY <1>1, ReceiveStep
<1>2. ASSUME NEW c \in Calls, Handle(c) PROVE IngressIInv'
  BY <1>2, ForwardSteps, AdmitMarkedStep, AdmitUnmarkedStep, AdmitGoPayStep, FinishStep
     DEF Handle
<1>3. CASE Restart
  BY <1>3, IngressRestart
<1>4. CASE Tick
  BY <1>4, IngressTick
<1>5. CASE UNCHANGED vars
  <2>1. UNCHANGED <<now, seen, lastSweepAt, entries, call, sent, received, log>>
    BY <1>5 DEF vars
  <2>2. TypeOK'
    BY <2>1 DEF IngressIInv, TypeOK, Key
  <2>3. RequestInv' /\ AdmittedInv' /\ ReplayWasAdmitted'
    BY <2>1 DEF IngressIInv, RequestInv, AdmittedInv, ReplayWasAdmitted, SameEvent, Key
  <2>4. RecallInv'
    BY <2>1, SinceSame DEF IngressIInv, RecallInv, Recalled, Key
  <2>5. AdmittedOncePerTTL'
    BY <2>1, SinceSame DEF IngressIInv
  <2> QED BY <2>2, <2>3, <2>4, <2>5 DEF IngressIInv
<1> QED BY <1>1, <1>2, <1>3, <1>4, <1>5 DEF Next

(***************************************************************************)
(* The inductive invariant of the ingress: what was admitted within a TTL  *)
(* is in its store and only what came since is after it there, or a        *)
(* store's worth has come since.                                           *)
(***************************************************************************)
THEOREM IngressInvariant == Spec => []IngressIInv
<1>1. Init => IngressIInv
  BY IngressInit
<1> QED BY <1>1, IngressNext, PTL DEF Spec

(***************************************************************************)
(* A process admits an event with an id once in a replay TTL, unless a     *)
(* full store's worth of other events came between, for every TTL, store   *)
(* size, sweep interval and number of overlapping deliveries (AdmitMarked, *)
(* AdmitGoPay).                                                            *)
(***************************************************************************)
THEOREM EventsAdmittedOnce == Spec => []AdmittedOncePerTTL
<1>1. IngressIInv => AdmittedOncePerTTL
  BY DEF IngressIInv
<1> QED BY <1>1, IngressInvariant, PTL

(***************************************************************************)
(* Only what the process admitted is dropped as a replay: no provider's    *)
(* event for another's, and no GoPay body for another under its id.        *)
(***************************************************************************)
THEOREM ReplaysWereAdmitted == Spec => []ReplayWasAdmitted
<1>1. IngressIInv => ReplayWasAdmitted
  BY DEF IngressIInv
<1> QED BY <1>1, IngressInvariant, PTL

(***************************************************************************)
(* The stores of event ids never grow past MaxKeys, and every request in   *)
(* flight and every log entry has its type.                                *)
(***************************************************************************)
THEOREM IngressTypes == Spec => []TypeOK
<1>1. IngressIInv => TypeOK
  BY DEF IngressIInv
<1> QED BY <1>1, IngressInvariant, PTL

-----------------------------------------------------------------------------
(* The three side by side.                                                 *)

(***************************************************************************)
(* Side by side as they run, the stores of event ids never grow past       *)
(* MaxKeys, the count of subjects never past its maximum, and every file   *)
(* of the drill is what a tool may leave there.                            *)
(***************************************************************************)
THEOREM AdmissionTypes == AdmissionSpec => []AdmissionTypeOK
<1> DEFINE Inv == IngressIInv /\ DrillIInv /\ SprayIInv
<1>1. AdmissionInit => Inv
  BY IngressInit, DrillStarts, SprayStarts DEF AdmissionInit, MCInit
<1>2. Inv /\ [AdmissionNext]_<<part, vars, focus, drillVars, sprayVars>> => Inv'
  <2>1. [AdmissionNext]_<<part, vars, focus, drillVars, sprayVars>>
          => [Next]_vars /\ [DrillNext]_drillVars /\ [SprayNext]_sprayVars
    BY DEF AdmissionNext, MCNext
  <2> HIDE DEF Inv
  <2> QED BY <2>1, IngressNext, DrillNextInv, SprayNextInv DEF Inv
<1>3. Inv => AdmissionTypeOK
  BY DEF AdmissionTypeOK, IngressIInv, DrillIInv, SprayIInv
<1> QED BY <1>1, <1>2, <1>3, PTL DEF AdmissionSpec
=============================================================================
