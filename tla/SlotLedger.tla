----------------------------- MODULE SlotLedger -----------------------------
(***************************************************************************)
(* What the slot discipline of one license key promises, without the       *)
(* statements, locks and transactions that implement it.  A key has a      *)
(* status, a bound on concurrent devices and a roster: the fingerprint of  *)
(* each device token that occupies a slot, Free for the others.  Every     *)
(* request changes the three in one step, or not at all.                   *)
(*                                                                         *)
(* Slots.tla shows that the statement-level transactions of activation.go  *)
(* and admin.go implement this specification.                              *)
(***************************************************************************)
EXTENDS Naturals, FiniteSets

CONSTANTS
  Tokens,         \* device tokens, the identity of a slot
  Fingerprints,   \* fingerprints, a changeable annotation of a slot
  SlotLimits,     \* values max_slots can take
  Free            \* "this token occupies no slot"

VARIABLES
  status,         \* of the key: "active", "revoked" or "deleted"
  maxSlots,       \* license_keys.max_slots
  dev             \* license_devices: fingerprint of each token in a slot

vars == <<status, maxSlots, dev>>

InSlot(d) == {t \in Tokens : d[t] # Free}

Without(d, T) == [t \in Tokens |-> IF t \in T THEN Free ELSE d[t]]

Init ==
  /\ status = "active"
  /\ maxSlots \in SlotLimits
  /\ dev = [t \in Tokens |-> Free]

-----------------------------------------------------------------------------

\* A heartbeat of a device that is in a slot: it keeps the slot and refreshes
\* the fingerprint; the named device E (none, or one other token) goes.
Heartbeat(t, f, E) ==
  /\ status = "active"
  /\ t \in InSlot(dev) \ E
  /\ dev' = [Without(dev, E) EXCEPT ![t] = f]
  /\ UNCHANGED <<status, maxSlots>>

\* A device enters a slot.  The roster it enters fits the bound.
Admit(t, f, E) ==
  /\ status = "active"
  /\ t \notin InSlot(Without(dev, E))
  /\ dev' = [Without(dev, E) EXCEPT ![t] = f]
  /\ Cardinality(InSlot(dev')) <= maxSlots
  /\ UNCHANGED <<status, maxSlots>>

\* An activation that found its own row, and lost it to a release before it
\* could refresh it: it goes on, having freed the device it named.
Miss(E) ==
  /\ status = "active"
  /\ dev' = Without(dev, E)
  /\ UNCHANGED <<status, maxSlots>>

\* Deactivate and KickDevice: allowed whatever the status of the key.
Release(t) ==
  /\ dev' = Without(dev, {t})
  /\ UNCHANGED <<status, maxSlots>>

\* UpdateKey may shrink the bound below the number of devices in slots.
SetSlots(n) ==
  /\ status # "deleted"
  /\ maxSlots' = n
  /\ UNCHANGED <<status, dev>>

\* RevokeKey and UnrevokeKey freeze and thaw the key; the slots stay.
SetStatus(s) ==
  /\ status # "deleted"
  /\ status' = s
  /\ UNCHANGED <<maxSlots, dev>>

\* DeleteKey: the key goes for good, with the devices it saw.
Erase(T) ==
  /\ status' = "deleted"
  /\ dev' = Without(dev, T)
  /\ UNCHANGED maxSlots

AtMostOne == {{}} \cup {{t} : t \in Tokens}

Next ==
  \/ \E t \in Tokens, f \in Fingerprints, E \in AtMostOne :
       Heartbeat(t, f, E) \/ Admit(t, f, E)
  \/ \E E \in AtMostOne : Miss(E)
  \/ \E t \in Tokens : Release(t)
  \/ \E n \in SlotLimits : SetSlots(n)
  \/ \E s \in {"active", "revoked"} : SetStatus(s)
  \/ \E T \in SUBSET Tokens : Erase(T)

Spec == Init /\ [][Next]_vars

=============================================================================
