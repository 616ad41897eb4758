------------------------------- MODULE Quota -------------------------------
(***************************************************************************)
(* What the rate limiter promises: a target is let through at most Max     *)
(* times per window, and no window outlives Window ticks, however often    *)
(* the target is refused meanwhile.                                        *)
(***************************************************************************)
EXTENDS Naturals

CONSTANTS
  Targets,        \* what is counted: "<identity>:<device_token>"
  Max,            \* rate_limit.max
  Window          \* rate_limit.window, in ticks

VARIABLES
  used,           \* requests let through in the current window
  age             \* ticks since the window opened; Window when none is open

vars == <<used, age>>

Init == used = [t \in Targets |-> 0] /\ age = [t \in Targets |-> Window]

\* The first request after a window opens the next one.
Open(t) == age' = [age EXCEPT ![t] = IF @ = Window THEN 0 ELSE @]

Admit(t) ==
  /\ used[t] < Max
  /\ used' = [used EXCEPT ![t] = @ + 1]
  /\ Open(t)

Pass(t) == Open(t) /\ UNCHANGED used

Ending(t) == age[t] + 1 >= Window

Tick ==
  /\ age' = [t \in Targets |-> IF Ending(t) THEN Window ELSE age[t] + 1]
  /\ used' = [t \in Targets |-> IF Ending(t) THEN 0 ELSE used[t]]

Next == Tick \/ \E t \in Targets : Admit(t) \/ Pass(t)

Spec == Init /\ [][Next]_vars

=============================================================================
