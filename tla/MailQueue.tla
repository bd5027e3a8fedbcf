----------------------------- MODULE MailQueue -----------------------------
(***************************************************************************)
(* The gateway's mail queue and its delivery (src/runtime/mailing): a      *)
(* bounded queue in memory, of which a delivery takes the first mail,      *)
(* awaits the transport and puts the mail back at the end if the failure   *)
(* is transient.  Nothing in the source drives the deliveries; whoever     *)
(* does may run several at a time.  nextAttemptAt is written, and no one   *)
(* waits for it.                                                           *)
(***************************************************************************)
EXTENDS Integers, Sequences, SequencesExt

CONSTANTS
  Deliveries, \* deliveries that may be in progress
  MaxItems,   \* maxItems of the queue
  MaxMails    \* bound of the exploration: mails enqueued

ASSUME MailAssumption == MaxItems \in Nat \ {0} /\ MaxMails \in Nat

\* Mails are numbered as they come.
Mails == 1 .. MaxMails

NoMail == 0

VARIABLES
  queue,   \* the mails that wait
  sending, \* the mail of each delivery
  fate,    \* mail |-> what became of it
  tried    \* the mails that were attempted

mailVars == <<queue, sending, fate, tried>>

\* "kept" covers the queue and the deliveries.
Fates == {"new", "kept", "delivered", "refused", "pushed out", "lost"}

MailTypeOK ==
  /\ queue \in Seq(Mails) /\ Len(queue) <= MaxItems
  /\ sending \in [Deliveries -> Mails \cup {NoMail}]
  /\ fate \in [Mails -> Fates]
  /\ tried \subseteq Mails

MailInit ==
  /\ queue = <<>>
  /\ sending = [d \in Deliveries |-> NoMail]
  /\ fate = [m \in Mails |-> "new"]
  /\ tried = {}

\* Mutant of Enqueue: maxItems is not looked at.
EnqueueUnbounded(m, fates) == queue' = Append(queue, m) /\ fate' = fates

\* enqueueMail: the mail goes to the end, and a full queue loses its first.
Enqueue(m, fates) ==
  IF Len(queue) < MaxItems
  THEN queue' = Append(queue, m) /\ fate' = fates
  ELSE /\ queue' = Append(Tail(queue), m)
       /\ fate' = [fates EXCEPT ![Head(queue)] = "pushed out"]

Accept(m) ==
  /\ fate[m] = "new"
  /\ \A n \in 1 .. (m - 1) : fate[n] # "new"
  /\ Enqueue(m, [fate EXCEPT ![m] = "kept"])
  /\ UNCHANGED <<sending, tried>>

\* Mutant of Take: the last mail is taken.
TakeLast(d) ==
  /\ sending[d] = NoMail
  /\ queue # <<>>
  /\ sending' = [sending EXCEPT ![d] = Last(queue)]
  /\ queue' = Front(queue)
  /\ tried' = tried \cup {Last(queue)}
  /\ UNCHANGED fate

\* deliverNextMail up to the transport: the mail is off the queue.
Take(d) ==
  /\ sending[d] = NoMail
  /\ queue # <<>>
  /\ sending' = [sending EXCEPT ![d] = Head(queue)]
  /\ queue' = Tail(queue)
  /\ tried' = tried \cup {Head(queue)}
  /\ UNCHANGED fate

\* A 2xx, or a status that is not transient.
Done(d) ==
  /\ sending[d] # NoMail
  /\ \E result \in {"delivered", "refused"} : fate' = [fate EXCEPT ![sending[d]] = result]
  /\ sending' = [sending EXCEPT ![d] = NoMail]
  /\ UNCHANGED <<queue, tried>>

\* A transient status, no answer in time, no connection: back to the end.
Requeue(d) ==
  /\ sending[d] # NoMail
  /\ Enqueue(sending[d], fate)
  /\ sending' = [sending EXCEPT ![d] = NoMail]
  /\ UNCHANGED tried

\* A transport of the caller's own throws: the mail was off the queue.
TransportThrows(d) ==
  /\ sending[d] # NoMail
  /\ fate' = [fate EXCEPT ![sending[d]] = "lost"]
  /\ sending' = [sending EXCEPT ![d] = NoMail]
  /\ UNCHANGED <<queue, tried>>

\* The process restarts: the queue was in memory.
MailRestart ==
  /\ queue' = <<>>
  /\ sending' = [d \in Deliveries |-> NoMail]
  /\ fate' = [m \in Mails |-> IF fate[m] = "kept" THEN "lost" ELSE fate[m]]
  /\ UNCHANGED tried

Deliver(d) == Take(d) \/ Done(d) \/ Requeue(d) \/ TransportThrows(d)

MailNext ==
  \/ \E m \in Mails : Accept(m)
  \/ \E d \in Deliveries : Deliver(d)
  \/ MailRestart

\* Deliveries are run again and again, and the transport times out.
MailFairness == \A d \in Deliveries : WF_mailVars(Deliver(d))

MailSpec == MailInit /\ [][MailNext]_mailVars /\ MailFairness

-----------------------------------------------------------------------------
(* Properties.                                                             *)

\* The mails that wait or are with a delivery.
Held == (ToSet(queue) \cup {sending[d] : d \in Deliveries}) \ {NoMail}

(***************************************************************************)
(* However deliveries overlap and put mails back, a mail that is to be     *)
(* delivered is in one place: it waits once or is with one delivery, so    *)
(* that no two deliveries send it at a time and none is left behind, and   *)
(* what is delivered, refused, pushed out or lost is nowhere.              *)
(***************************************************************************)
KeptInOnePlace ==
  /\ Held = {m \in Mails : fate[m] = "kept"}
  /\ IsInjective(queue)
  /\ \A d, e \in Deliveries :
       sending[d] # NoMail
         => sending[d] \notin ToSet(queue) /\ (sending[e] = sending[d] => e = d)

(***************************************************************************)
(* Retries starve no one: while deliveries go on, a mail that was accepted *)
(* is attempted, unless a full queue pushes it out or the process restarts,*)
(* however often the mails before it fail and are put back.                *)
(***************************************************************************)
MailAttempted ==
  \A m \in Mails : fate[m] = "kept" ~> m \in tried \/ fate[m] \in {"pushed out", "lost"}
=============================================================================
