------------------------------ MODULE Limiter ------------------------------
(***************************************************************************)
(* The fixed-window limiter of activation/ratelimit.go over its counters   *)
(* in Redis: one counter per target, which expires Window ticks after the  *)
(* request that created it, and a limiter that fails open.  The counters   *)
(* belong to a library and are modelled from how ratelimit.go and its      *)
(* tests use them.                                                         *)
(***************************************************************************)
EXTENDS Naturals

CONSTANTS
  Targets,        \* "<identity>:<device_token>" of one purpose
  Max,            \* rate_limit.max
  Window          \* rate_limit.window, in ticks

\* resolveDomainOptions refuses any other configuration.
ASSUME LimiterAssumption == Max \in Nat \ {0} /\ Window \in Nat \ {0}

VARIABLES
  count,          \* requests counted in Redis; Max stands for any more
  left,           \* ticks to the expiry of the counter, 0 without one
  passed          \* history: requests let through by the counter in its window

counters == <<count, left, passed>>

LimiterTypeOK ==
  /\ count \in [Targets -> 0 .. Max]
  /\ left \in [Targets -> 0 .. Window]
  /\ passed \in [Targets -> 0 .. Max]

LimiterInit ==
  /\ count = [t \in Targets |-> 0]
  /\ left = [t \in Targets |-> 0]
  /\ passed = [t \in Targets |-> 0]

\* Bug: every request gives the counter a new time to live.
CountRenewing(t) ==
  /\ count' = [count EXCEPT ![t] = IF @ = Max THEN @ ELSE @ + 1]
  /\ left' = [left EXCEPT ![t] = Window]

\* Bug: the counter is created, and the call that gives it its time is lost.
CountForever(t) ==
  /\ count' = [count EXCEPT ![t] = IF @ = Max THEN @ ELSE @ + 1]
  /\ UNCHANGED left

\* The counter is created with its time to live and never gets another.
Count(t) ==
  /\ count' = [count EXCEPT ![t] = IF @ = Max THEN @ ELSE @ + 1]
  /\ left' = [left EXCEPT ![t] = IF @ = 0 THEN Window ELSE @]

\* Bug: a refusal is only logged, as an error of the limiter is.
AllowedAnyway(t) ==
  /\ Count(t)
  /\ passed' = [passed EXCEPT ![t] = @ + 1]

Allowed(t) ==
  /\ count[t] < Max
  /\ Count(t)
  /\ passed' = [passed EXCEPT ![t] = @ + 1]

\* A refused request is counted as well.
Refused(t) == count[t] = Max /\ Count(t) /\ UNCHANGED passed

\* Redis does not answer, whether or not it has counted: the request goes on.
Unavailable(t) == (Count(t) \/ UNCHANGED <<count, left>>) /\ UNCHANGED passed

Expires(t) == left[t] <= 1

Tick ==
  /\ left' = [t \in Targets |-> IF Expires(t) THEN 0 ELSE left[t] - 1]
  /\ count' = [t \in Targets |-> IF Expires(t) THEN 0 ELSE count[t]]
  /\ passed' = [t \in Targets |-> IF Expires(t) THEN 0 ELSE passed[t]]

LimiterNext ==
  Tick \/ \E t \in Targets : Allowed(t) \/ Refused(t) \/ Unavailable(t)

LimiterSpec == LimiterInit /\ [][LimiterNext]_counters

-----------------------------------------------------------------------------

Quota == INSTANCE Quota WITH used <- passed,
                             age  <- [t \in Targets |-> Window - left[t]]

\* Counting in Redis, refusing by the counter and failing open keep the
\* promise of Quota to every target.
ImplementsQuota == Quota!Spec

\* A window that is open has a counter, and the counter has seen every request
\* it let through.
CountersAgree ==
  \A t \in Targets : /\ left[t] = 0 <=> count[t] = 0
                     /\ passed[t] <= count[t]

=============================================================================
