------------------------------ MODULE Clients ------------------------------
(***************************************************************************)
(* The life of a call: devices of one key call Activate and Deactivate,    *)
(* wait, give up, read the answers by their HTTP status and try again,     *)
(* while operators move the key and the door under them.                   *)
(*                                                                         *)
(* A call is admitted by the gate (requireCaller) and the limiter, does    *)
(* its work in one transaction and is answered.  The transaction is a      *)
(* single step here: Slots.tla shows that it behaves like one.  A device   *)
(* that gives up does not stop the handler: its call strays, and may take  *)
(* effect after the next ones.                                             *)
(***************************************************************************)
EXTENDS Limiter, FiniteSets

CONSTANTS
  SlotLimits,     \* values max_slots can take
  MaxTrouble,     \* bound on what fails, is given up or moved by operators
  Stray,          \* where the call nobody waits for is kept, one at a time
  None            \* no device to evict

\* The quota of Activate and Deactivate is kept per key and device token, so
\* for the one key of this module a target is a device.
Devices == Targets

ASSUME ClientsAssumption ==
  /\ IsFiniteSet(Devices) /\ None \notin Devices /\ Stray \notin Devices
  /\ SlotLimits \subseteq 1 .. 100 /\ MaxTrouble \in Nat

VARIABLES
  status, maxSlots, roster,  \* the key and the devices that are in its slots
  door,           \* the tenant's gate row is enabled
  call,           \* per device the call it waits for, or what the last one told it
  sure,           \* history: devices of which what they were told is still so
  trouble         \* how often something failed, was given up or moved

Key == <<status, maxSlots, roster>>

vars == <<counters, Key, door, call, sure, trouble>>

-----------------------------------------------------------------------------
(* From an error to what the device makes of it.                           *)

\* The reasons of xcodes this path knows, and the category of each.
Category == [app_unauthorized |-> "unauthorized", key_not_found |-> "unauthorized",
             key_revoked |-> "forbidden", slot_limit |-> "conflict",
             rate_limited |-> "too_many_requests", internal |-> "internal"]

Status == [unauthorized |-> "Unauthenticated", forbidden |-> "PermissionDenied",
           conflict |-> "AlreadyExists", too_many_requests |-> "ResourceExhausted",
           internal |-> "Internal"]

\* Bug: a bare error of the gate's database counts as a failed admission.
GRPCBareUnauthenticated(code) ==
  IF code = "ok" THEN "OK" ELSE IF code = "bare" THEN "Unauthenticated" ELSE Status[Category[code]]

\* The interceptor; an error that is none of xcodes passes it, and the
\* transport calls it Unknown.
GRPC(code) ==
  IF code = "ok" THEN "OK" ELSE IF code = "bare" THEN "Unknown" ELSE Status[Category[code]]

HTTP == [OK |-> 200, Unauthenticated |-> 401, PermissionDenied |-> 403,
         AlreadyExists |-> 409, ResourceExhausted |-> 429, Internal |-> 500, Unknown |-> 500]

\* A device goes by the status of the answer and nothing else.
Reading(op, http) ==
  CASE http = 200 /\ op = "Activate"   -> "in"
    [] http = 200 /\ op = "Deactivate" -> "out"
    [] http = 409                      -> "picker"
    [] http = 429 \/ http >= 500       -> "network"
    [] http \in {401, 403}             -> "invalid"

-----------------------------------------------------------------------------

Readings == {"in", "out", "picker", "network", "invalid"}

Request == [by : Devices, op : {"Activate", "Deactivate"}, evict : Devices \cup {None},
            at : {"entry", "tx"}]

\* An answer on its way, or read.
Told == [at : {"answer", "idle"}, reading : Readings]

Handlers == Devices \cup {Stray}

Idle(h) == call[h].at = "idle"

Read(d, reading) == call[d] = [at |-> "idle", reading |-> reading]

Nothing == [at |-> "idle", reading |-> "network"]

TypeOK ==
  /\ LimiterTypeOK
  /\ status \in {"active", "revoked", "deleted"}
  /\ maxSlots \in SlotLimits /\ roster \in SUBSET Devices
  /\ door \in BOOLEAN
  /\ call \in [Handlers -> Request \cup Told]
  /\ sure \in SUBSET Devices
  /\ trouble \in 0 .. MaxTrouble

Init ==
  /\ LimiterInit
  /\ status = "active" /\ maxSlots \in SlotLimits /\ roster = {}
  /\ door = TRUE /\ trouble = 0
  /\ call = [h \in Handlers |-> IF h = Stray THEN Nothing ELSE [at |-> "idle", reading |-> "out"]]
  /\ sure = Devices

Trouble == trouble < MaxTrouble /\ trouble' = trouble + 1

\* Has a picker on its screen, or has picked.
Picking(d) == IF call[d].at \in {"answer", "idle"} THEN call[d].reading = "picker"
              ELSE call[d].evict # None

\* The roster has its new value: a device that came or went, and one whose
\* picker shows another roster, no longer know, except those in heard.
Moves(heard) ==
  sure' = heard \cup {d \in sure : /\ d \in roster <=> d \in roster'
                                   /\ Picking(d) => roster = roster'}

-----------------------------------------------------------------------------
(* The device.                                                             *)

\* A device with a picker names one of the devices it shows.
Send(d, op, evict) ==
  /\ Idle(d)
  /\ evict # None => /\ op = "Activate" /\ Read(d, "picker") /\ evict # d
                     /\ d \in sure => evict \in roster
  /\ call' = [call EXCEPT ![d] = [by |-> d, op |-> op, evict |-> evict, at |-> "entry"]]
  /\ sure' = IF evict = None THEN sure \ {d} ELSE sure
  /\ UNCHANGED <<counters, Key, door, trouble>>

\* No answer for 15 seconds.
GiveUp(d) ==
  /\ ~Idle(d) /\ Idle(Stray)
  /\ Trouble
  /\ call' = [call EXCEPT ![d] = Nothing,
                          ![Stray] = IF call[d].at = "answer" THEN Nothing ELSE call[d]]
  /\ sure' = sure \ {d}
  /\ UNCHANGED <<counters, Key, door>>

Answer(d) ==
  /\ call[d].at = "answer"
  /\ call' = [call EXCEPT ![d].at = "idle"]
  /\ sure' = IF call[d].reading \in {"network", "invalid"} THEN sure \ {d} ELSE sure
  /\ UNCHANGED <<counters, Key, door, trouble>>

-----------------------------------------------------------------------------
(* The handler.                                                            *)

\* The answer to a stray call reaches nobody.
Ends(h, code) ==
  call' = [call EXCEPT ![h] = IF h = Stray THEN Nothing ELSE
                              [at |-> "answer", reading |-> Reading(@.op, HTTP[GRPC(code)])]]

Goes(h) == call' = [call EXCEPT ![h].at = "tx"]

\* requireCaller and limiter.allow
Enter(h) ==
  /\ call[h].at = "entry"
  /\ \/ ~door /\ Ends(h, "app_unauthorized") /\ UNCHANGED <<counters, trouble>>
     \/ door /\ Allowed(call[h].by) /\ Goes(h) /\ UNCHANGED trouble
     \/ door /\ Refused(call[h].by) /\ Ends(h, "rate_limited") /\ UNCHANGED trouble
     \/ door /\ Unavailable(call[h].by) /\ Goes(h) /\ Trouble
  /\ UNCHANGED <<Key, door, sure>>

Rest(c) == roster \ {c.evict}

\* Bug: a new device is touched like an old one, which updates no row.
OccupyTouching(c) ==
  /\ c.by \in Rest(c) \/ Cardinality(Rest(c)) < maxSlots
  /\ roster' = Rest(c)

\* occupySlot, committed: the device keeps its slot or takes a free one.
Occupy(c) ==
  /\ c.by \in Rest(c) \/ Cardinality(Rest(c)) < maxSlots
  /\ roster' = Rest(c) \cup {c.by}

\* Bug: the slots are counted before the eviction.
FullBeforeEviction(c) == c.by \notin Rest(c) /\ Cardinality(roster) >= maxSlots

\* ... or there is none, and the eviction is rolled back with the rest.
Full(c) == c.by \notin Rest(c) /\ Cardinality(Rest(c)) >= maxSlots

\* The device of the call, if it still listens.
Heard(h) == {h} \ {Stray}

\* The transaction of Activate.
Activate(h) ==
  LET c == call[h] IN
  /\ c.at = "tx" /\ c.op = "Activate"
  /\ \/ status = "deleted" /\ Ends(h, "key_not_found") /\ UNCHANGED <<roster, sure>>
     \/ status = "revoked" /\ Ends(h, "key_revoked") /\ UNCHANGED <<roster, sure>>
     \/ status = "active" /\ Occupy(c) /\ Ends(h, "ok") /\ Moves(Heard(h))
     \/ /\ status = "active" /\ Full(c) /\ Ends(h, "slot_limit") /\ UNCHANGED roster
        /\ sure' = IF Cardinality(roster) <= maxSlots THEN sure \cup Heard(h) ELSE sure \ Heard(h)
  /\ UNCHANGED <<counters, status, maxSlots, door, trouble>>

\* The transaction of Deactivate, which asks nothing of the key.
Deactivate(h) ==
  LET c == call[h] IN
  /\ c.at = "tx" /\ c.op = "Deactivate"
  /\ roster' = roster \ {c.by}
  /\ Ends(h, "ok")
  /\ Moves(Heard(h))
  /\ UNCHANGED <<counters, status, maxSlots, door, trouble>>

\* A statement fails, or the signing, or the outcome of the COMMIT is lost.  The
\* gate and gorm's BEGIN and COMMIT return bare errors, the rest is wrapped.
Fail(h) ==
  /\ Trouble
  /\ \/ /\ call[h].at \in {"entry", "tx"}
        /\ \E code \in {"internal", "bare"} : Ends(h, code)
     \/ /\ call[h].at = "answer" /\ call[h].reading \in {"in", "out"}
        /\ call' = [call EXCEPT ![h].reading = "network"]
  /\ sure' = sure \ {h}
  /\ UNCHANGED <<counters, Key, door>>

-----------------------------------------------------------------------------
(* The operator.                                                           *)

SetDoor ==
  /\ Trouble
  /\ door' = ~door
  /\ UNCHANGED <<counters, Key, call, sure>>

\* RevokeKey, UnrevokeKey and DeleteKey, which takes the devices as well.
SetStatus(s) ==
  /\ Trouble /\ status \notin {"deleted", s}
  /\ status' = s
  /\ roster' = IF s = "deleted" THEN {} ELSE roster
  /\ Moves({})
  /\ UNCHANGED <<counters, maxSlots, door, call>>

SetSlots(n) ==
  /\ Trouble /\ status # "deleted" /\ n # maxSlots
  /\ maxSlots' = n
  /\ sure' = {d \in sure : ~Picking(d)}
  /\ UNCHANGED <<counters, status, roster, door, call>>

KickDevice(d) ==
  /\ Trouble /\ d \in roster
  /\ roster' = roster \ {d}
  /\ Moves({})
  /\ UNCHANGED <<counters, status, maxSlots, door, call>>

Clock == Tick /\ UNCHANGED <<Key, door, call, sure, trouble>>

-----------------------------------------------------------------------------

Handle(h) == Enter(h) \/ Activate(h) \/ Deactivate(h)

Retry(d) == Read(d, "network") /\ Send(d, "Activate", None)

Next ==
  \/ \E h \in Handlers : Handle(h) \/ Fail(h)
  \/ \E d \in Devices :
       \/ Answer(d) \/ GiveUp(d) \/ KickDevice(d)
       \/ \E op \in {"Activate", "Deactivate"}, evict \in Devices \cup {None} : Send(d, op, evict)
  \/ SetDoor
  \/ \E s \in {"active", "revoked", "deleted"} : SetStatus(s)
  \/ \E n \in SlotLimits : SetSlots(n)
  \/ Clock

Spec == Init /\ [][Next]_vars

\* Handlers run, answers arrive, a device that was told of a network error asks
\* again, and time passes.  The three of a device exclude each other.
Fairness ==
  /\ \A d \in Devices : WF_vars(Handle(d) \/ Answer(d) \/ Retry(d))
  /\ WF_vars(Clock)

FairSpec == Spec /\ Fairness

-----------------------------------------------------------------------------
(* Properties.                                                             *)

\* Requests belong to who waits for them, and a stray call has no answer.
CallsMatch ==
  /\ call[Stray].at # "answer"
  /\ \A d \in Devices : call[d].at \in {"entry", "tx"} => call[d].by = d /\ call[d].evict # d

\* What a device in sure has been or is about to be told of its slot is so, and
\* the roster is as its picker shows it: another device can make room.
Knows(d) ==
  /\ call[d].at \in {"answer", "idle"} =>
       /\ call[d].reading = "in" => d \in roster
       /\ call[d].reading \in {"out", "picker"} => d \notin roster
  /\ call[d].at \in {"entry", "tx"} => call[d].evict \in roster /\ d \notin roster
  /\ Picking(d) => Cardinality(roster) <= maxSlots

SureIsTrue == \A d \in sure : Knows(d)

IInv == TypeOK /\ CountersAgree /\ CallsMatch /\ SureIsTrue

\* A device is told that its license is invalid only by a decision taken while
\* the door was closed or the key frozen or gone: no fault of the service, and
\* no quota, is ever read as an invalid license.  (docs/wire-contract.md:53)
InvalidOnlyIfBad ==
  [][\A d \in Devices :
       call[d].at \in {"entry", "tx"} /\ call'[d].at = "answer" /\ call'[d].reading = "invalid"
       => ~door \/ status # "active"]_vars

\* What a device has read about its slot is so, unless the roster has changed
\* since: under the device by others, or by a call it had given up.
BeliefHolds ==
  \A d \in sure : /\ Read(d, "in") => d \in roster
                  /\ Read(d, "out") \/ Read(d, "picker") => d \notin roster

\* Picking a device is enough: as long as the roster is the one the picker
\* shows, the evicting retry is not refused for want of a slot.
PickIsEnough ==
  [][\A d \in sure : call[d].at = "tx" /\ call[d].evict # None /\ call'[d].at = "answer"
                     => call'[d].reading # "picker"]_vars

\* Every call takes effect in one step on the key and its roster, as the
\* statements of its transaction do in Slots; a lost answer, a call that strays
\* and a second attempt do nothing else to them.
Ledger == INSTANCE SlotLedger WITH
  Tokens <- Devices, Fingerprints <- {"seen"}, Free <- "free",
  dev <- [d \in Devices |-> IF d \in roster THEN "seen" ELSE "free"]

ImplementsLedger == Ledger!Spec

\* A device that asks again and again after network errors gets another answer
\* in the end, though each refusal costs quota.
AnsweredInTheEnd ==
  \A d \in Devices : Read(d, "network") ~> Idle(d) /\ ~Read(d, "network")

=============================================================================
