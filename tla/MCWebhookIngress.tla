-------------------------- MODULE MCWebhookIngress --------------------------
(***************************************************************************)
(* Small instances of WebhookIngress for TLC.  A behaviour has one focus,  *)
(* chosen at the start: which events its providers deliver, and how often. *)
(***************************************************************************)
EXTENDS WebhookIngress, TLC

CONSTANTS c1, c2, e1, e2, e3, e4, e5, g1, g2, g3, g4, g5, idA, idB, idC, idL

VARIABLE focus

MCCalls == {c1, c2}
MCLongIds == {idL}

\* A Stripe, a PayPal and a GoPay event under one id, Stripe events without an
\* id, with an id that is too long and with one of its own, two GoPay bodies
\* under another id, and GoPay events without an id and with an id of its own.
MCEvents == {e1, e2, e3, e4, e5, g1, g2, g3, g4, g5}
MCProvider == e1 :> "stripe" @@ e2 :> "paypal" @@ e3 :> "stripe" @@ e4 :> "stripe"
              @@ e5 :> "stripe"
              @@ g1 :> "gopay" @@ g2 :> "gopay" @@ g3 :> "gopay" @@ g4 :> "gopay"
              @@ g5 :> "gopay"
MCId == e1 :> idA @@ e2 :> idA @@ e3 :> NoId @@ e4 :> idL @@ e5 :> idB
        @@ g1 :> idB @@ g2 :> idB @@ g3 :> idA @@ g4 :> NoId @@ g5 :> idC

\* Events of every kind, within a TTL; or enough of one store's to fill it and
\* evict, all verified, on their way to the worker or not reaching it.
Delivered(f) ==
  CASE f = "providers" -> MCEvents \ {e5, g5}
    [] f = "replay"    -> {e1, e2, e5}
    [] f = "boundary"  -> {g1, g3, g5}

Deliveries(f) == IF f = "providers" THEN 3 ELSE MaxDeliveries

InFocus ==
  /\ sent <= Deliveries(focus)
  /\ \A c \in Calls : call[c].event \in Delivered(focus) \cup {NoEvent}
  /\ IF focus = "providers" THEN now <= 1
     ELSE received = {} /\ \A c \in Calls : call[c].reply # "refused"

MCInit == Init /\ focus \in {"providers", "replay", "boundary"}

MCNext == UNCHANGED focus /\ Next /\ InFocus'

MCSpec == MCInit /\ [][MCNext]_<<vars, focus>>

MCSymmetry == Permutations(MCCalls)
=============================================================================
