----------------------------- MODULE TrialBook -----------------------------
(***************************************************************************)
(* What the trial ledger promises one installation: a module's trial       *)
(* starts once, at a time on the service's clock, and keeps that start     *)
(* until an operator resets it.  Reinstalling the application, another     *)
(* device token, a license key or a concurrent request does not start it   *)
(* again.                                                                  *)
(***************************************************************************)
EXTENDS Naturals

CONSTANTS
  Modules,        \* the modules that can be tried
  MaxClock,       \* bound of the clock
  NoRow           \* "no trial of this module has started"

VARIABLES
  ledger,         \* start of each module's trial, or NoRow
  clock           \* the service's clock

vars == <<ledger, clock>>

Init == ledger = [m \in Modules |-> NoRow] /\ clock = 0

\* The start is a time the clock has shown: before the row became visible.
Start(m, s) ==
  /\ ledger[m] = NoRow
  /\ s <= clock
  /\ ledger' = [ledger EXCEPT ![m] = s]
  /\ UNCHANGED clock

Reset(m) ==
  /\ ledger' = [ledger EXCEPT ![m] = NoRow]
  /\ UNCHANGED clock

Tick == clock < MaxClock /\ clock' = clock + 1 /\ UNCHANGED ledger

Next ==
  \/ \E m \in Modules, s \in 0 .. MaxClock : Start(m, s)
  \/ \E m \in Modules : Reset(m)
  \/ Tick

Spec == Init /\ [][Next]_vars

=============================================================================
