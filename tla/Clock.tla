------------------------------- MODULE Clock -------------------------------
(* The clock that the timed components read: Date.now(), in whole units. *)
EXTENDS Integers

CONSTANT MaxTime   \* bound of the exploration: the last clock value

ASSUME ClockAssumption == MaxTime \in Nat

VARIABLE now

InitClock == now = 0

Advance == now < MaxTime /\ now' = now + 1
=============================================================================
