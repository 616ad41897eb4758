------------------------------ MODULE MCSlots ------------------------------
(* Workloads for model-checking Slots: sets of requests, each with the     *)
(* operations whose interleaving a run is about.                           *)
EXTENDS Slots, TLC

Activations  == [op : {"Activate"}, token : Tokens, fp : Fingerprints,
                 evict : Tokens \cup {None}]
PlainActivations == {r \in Activations : r.evict = None}
Trials       == [op : {"TrialStart"}, token : Tokens, fp : Fingerprints, evict : {None}]
Releases     == [op : {"Deactivate", "KickDevice"}, token : Tokens]
Deactivates  == [op : {"Deactivate"}, token : Tokens]
BoundChanges == [op : {"UpdateKey"}, slots : SlotLimits]
Revocations  == [op : {"RevokeKey", "UnrevokeKey"}]
Deletes      == [op : {"DeleteKey"}]

AllRequests == Activations \cup Trials \cup Releases \cup BoundChanges
                 \cup Revocations \cup Deletes

\* Device traffic against DeleteKey: the only requests that can deadlock.
DeleteTraffic == PlainActivations \cup Deactivates \cup Deletes

\* Activations of several devices with evictions, releases, a moving bound.
DeviceTraffic == Activations \cup Deactivates \cup BoundChanges

Symmetric == Permutations(Procs) \cup Permutations(Tokens)
               \cup Permutations(Fingerprints)

=============================================================================
