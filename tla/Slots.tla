------------------------------- MODULE Slots -------------------------------
(***************************************************************************)
(* The slot discipline of one license key, statement by statement.         *)
(*                                                                         *)
(* A request runs one database transaction under READ COMMITTED: each      *)
(* statement sees the rows committed when it starts and the transaction's  *)
(* own writes, a write waits for the transaction that has an uncommitted   *)
(* write on the row, and COMMIT publishes the writes and lets the locks    *)
(* go.  The state is the key row and the device rows of one key, and, per  *)
(* process, the request it serves, the statement it is at, the values the  *)
(* handler keeps between statements and the writes it has not committed.   *)
(*                                                                         *)
(* The database (row locks, visibility, deadlock detection) is modelled    *)
(* from how the handlers use it.  Reads whose result reaches only the      *)
(* reply (rosters, entitlements, KeyInfo) take no step.                    *)
(***************************************************************************)
EXTENDS Naturals, FiniteSets

CONSTANTS
  Procs,          \* goroutines serving requests
  Tokens,         \* device tokens
  Fingerprints,   \* fingerprints of installations
  SlotLimits,     \* values max_slots can take
  Requests,       \* the requests clients and operators send
  Free,           \* no row for this token
  Clean,          \* no uncommitted write on the row of this token
  None            \* no process, no token, no request

KeyedOps  == {"Activate", "TrialStart"}
DeviceOps == {"Deactivate", "KickDevice"}
KeyOps    == {"UpdateKey", "RevokeKey", "UnrevokeKey"}

Request ==
  [op : KeyedOps, token : Tokens, fp : Fingerprints, evict : Tokens \cup {None}]
    \cup [op : DeviceOps, token : Tokens]
    \cup [op : {"UpdateKey"}, slots : SlotLimits]
    \cup [op : {"RevokeKey", "UnrevokeKey", "DeleteKey"}]

ASSUME TokensAssumption   == IsFiniteSet(Tokens) /\ None \notin Tokens
ASSUME ProcsAssumption    == None \notin Procs
ASSUME RowAssumption      == {Free, Clean} \cap Fingerprints = {} /\ Free # Clean
\* UpdateKey and CreateKey refuse anything outside [1,100].
ASSUME LimitsAssumption   == SlotLimits \subseteq 1 .. 100
\* TrialStart passes no evict token to occupySlot.
ASSUME RequestsAssumption ==
  /\ Requests \subseteq Request
  /\ None \notin Requests
  /\ \A r \in Requests : r.op = "TrialStart" => r.evict = None

VARIABLES
  status,         \* of the key row; "deleted" when there is none
  maxSlots,       \* max_slots of the key row
  dev,            \* committed device rows: token -> fingerprint or Free
  keyLock,        \* the process whose transaction holds the key row, or None
  pc,             \* the statement each process is at
  req,            \* the request each process serves, or None
  loc,            \* values the handler keeps between statements
  wr,             \* uncommitted writes: token -> fingerprint, Free or Clean
  reply           \* the last answer of each process

vars == <<status, maxSlots, dev, keyLock, pc, req, loc, wr, reply>>

Codes == {"none", "ok", "key_not_found", "key_revoked", "already_entitled",
          "slot_limit", "internal"}

\* max: k.MaxSlots as read under the lock; before: the count before the
\* delete; released: after < before; todo: rows DELETE found and has not
\* reached, target the one it is at; dead: rows this transaction deleted.
Locals == [max : SlotLimits \cup {0}, before : 0 .. Cardinality(Tokens),
           released : BOOLEAN, todo : SUBSET Tokens,
           target : Tokens \cup {None}, dead : SUBSET Tokens]

NoLocals == [max |-> 0, before |-> 0, released |-> FALSE, todo |-> {},
             target |-> None, dead |-> {}]

InTx == {"lock", "entitled", "evict", "get", "touch", "count", "insert",
         "find", "before", "delete", "after", "write", "scan", "purge",
         "delkey", "commit"}

Labels == InTx \cup {"idle", "sign"}

Writes == [Tokens -> Fingerprints \cup {Free, Clean}]

NoWrites == [t \in Tokens |-> Clean]

TypeOK ==
  /\ status \in {"active", "revoked", "deleted"}
  /\ maxSlots \in SlotLimits
  /\ dev \in [Tokens -> Fingerprints \cup {Free}]
  /\ keyLock \in Procs \cup {None}
  /\ pc \in [Procs -> Labels]
  /\ req \in [Procs -> Requests \cup {None}]
  /\ \A p \in Procs : req[p] = None <=> pc[p] = "idle"
  /\ loc \in [Procs -> Locals]
  /\ wr \in [Procs -> Writes]
  /\ reply \in [Procs -> [code : Codes, released : BOOLEAN]]

Init ==
  /\ status = "active"
  /\ maxSlots \in SlotLimits
  /\ dev = [t \in Tokens |-> Free]
  /\ keyLock = None
  /\ pc = [p \in Procs |-> "idle"]
  /\ req = [p \in Procs |-> None]
  /\ loc = [p \in Procs |-> NoLocals]
  /\ wr = [p \in Procs |-> NoWrites]
  /\ reply = [p \in Procs |-> [code |-> "none", released |-> FALSE]]

-----------------------------------------------------------------------------
(* The database.                                                           *)

\* What a statement of p reads: committed rows under p's own writes.
View(p) == [t \in Tokens |-> IF wr[p][t] = Clean THEN dev[t] ELSE wr[p][t]]

InSlot(d) == {t \in Tokens : d[t] # Free}

Used(p) == Cardinality(InSlot(View(p)))

\* Transactions that p must wait for to write the row of t.  A row p does not
\* see is not locked by DELETE or UPDATE, which then affect no row.
RowHolders(p, t) ==
  IF t \in InSlot(View(p)) THEN {q \in Procs \ {p} : wr[q][t] # Clean} ELSE {}

\* INSERT waits for any transaction that has written the same unique key.
KeyHolders(p, t) == {q \in Procs \ {p} : wr[q][t] # Clean}

WaitsFor(p) ==
  CASE pc[p] \in {"lock", "write", "delkey"} -> {keyLock} \ {None, p}
    [] pc[p] = "evict"  -> RowHolders(p, req[p].evict)
    [] pc[p] \in {"delete", "touch"} -> RowHolders(p, req[p].token)
    [] pc[p] = "insert" -> KeyHolders(p, req[p].token)
    [] pc[p] = "purge" /\ loc[p].target \in loc[p].todo -> RowHolders(p, loc[p].target)
    [] OTHER -> {}

\* Processes that wait for each other in a ring.
Ring(S) ==
  /\ S # {}
  /\ \A q \in S : WaitsFor(q) # {} /\ WaitsFor(q) \subseteq S
  /\ \A q \in S : \E r \in S : q \in WaitsFor(r)

Deadlocked(p) == \E S \in SUBSET Procs : p \in S /\ Ring(S)

At(p, label) == pc[p] = label /\ WaitsFor(p) = {}

Goto(p, label) == pc' = [pc EXCEPT ![p] = label]

Committed == <<status, maxSlots, dev>>

\* The end of p's transaction and of its locks.
Release(p) ==
  /\ keyLock' = IF keyLock = p THEN None ELSE keyLock
  /\ wr' = [wr EXCEPT ![p] = NoWrites]

Answer(p, code, released) ==
  /\ reply' = [reply EXCEPT ![p] = [code |-> code, released |-> released]]
  /\ Goto(p, "idle")
  /\ req' = [req EXCEPT ![p] = None]

\* Bug: an error return leaves the key row locked.
AbortLeavesKeyLocked(p, code) ==
  /\ wr' = [wr EXCEPT ![p] = NoWrites]
  /\ Answer(p, code, FALSE)
  /\ loc' = [loc EXCEPT ![p] = NoLocals]
  /\ UNCHANGED <<Committed, keyLock>>

\* The closure returned an error: ROLLBACK, and the error is the answer.
Abort(p, code) ==
  /\ Release(p)
  /\ Answer(p, code, FALSE)
  /\ loc' = [loc EXCEPT ![p] = NoLocals]
  /\ UNCHANGED Committed

\* DELETE of one row in p's transaction; no visible row, nothing written.
DeleteRow(p, t) ==
  IF t \in InSlot(View(p))
  THEN /\ wr' = [wr EXCEPT ![p][t] = Free]
       /\ loc' = [loc EXCEPT ![p].dead = @ \cup {t}]
  ELSE UNCHANGED <<wr, loc>>

-----------------------------------------------------------------------------
(* A request arrives.                                                      *)

FirstStatement(op) ==
  IF op \in KeyedOps THEN "lock"
  ELSE IF op = "Deactivate" THEN "before" ELSE "find"

Receive(p, r) ==
  /\ pc[p] = "idle"
  /\ req' = [req EXCEPT ![p] = r]
  /\ Goto(p, FirstStatement(r.op))
  /\ reply' = [reply EXCEPT ![p] = [code |-> "none", released |-> FALSE]]
  /\ UNCHANGED <<Committed, keyLock, loc, wr>>

-----------------------------------------------------------------------------
(* Activate and keyed TrialStart.                                          *)

\* Bug: the key is read by a plain SELECT.
GetKeyWithoutLock(p) ==
  /\ pc[p] = "lock"
  /\ \/ status = "deleted" /\ Abort(p, "key_not_found")
     \/ status = "revoked" /\ Abort(p, "key_revoked")
     \/ /\ status = "active"
        /\ loc' = [loc EXCEPT ![p].max = maxSlots]
        /\ Goto(p, IF req[p].op = "TrialStart" THEN "entitled"
                   ELSE IF req[p].evict # None THEN "evict" ELSE "get")
        /\ UNCHANGED <<Committed, keyLock, req, wr, reply>>

\* SELECT ... FOR UPDATE, then the not-found and revoked returns.
GetKeyForUpdate(p) ==
  /\ At(p, "lock")
  /\ \/ status = "deleted" /\ Abort(p, "key_not_found")
     \/ status = "revoked" /\ Abort(p, "key_revoked")
     \/ /\ status = "active"
        /\ keyLock' = p
        /\ loc' = [loc EXCEPT ![p].max = maxSlots]
        /\ Goto(p, IF req[p].op = "TrialStart" THEN "entitled"
                   ELSE IF req[p].evict # None THEN "evict" ELSE "get")
        /\ UNCHANGED <<Committed, req, wr, reply>>

\* TrialStart turns away a key that is entitled to the module; the
\* entitlement rows are not part of this module, so either may happen.
CheckEntitled(p) ==
  /\ At(p, "entitled")
  /\ \/ Abort(p, "already_entitled")
     \/ Goto(p, "get") /\ UNCHANGED <<Committed, keyLock, req, loc, wr, reply>>

Evict(p) ==
  /\ At(p, "evict")
  /\ DeleteRow(p, req[p].evict)
  /\ Goto(p, "get")
  /\ UNCHANGED <<Committed, keyLock, req, reply>>

\* Bug: the row is looked up by fingerprint, which drifts, not by token.
GetDeviceByFingerprint(p) ==
  /\ At(p, "get")
  /\ Goto(p, IF \E t \in Tokens : View(p)[t] = req[p].fp THEN "touch" ELSE "count")
  /\ UNCHANGED <<Committed, keyLock, req, loc, wr, reply>>

GetDevice(p) ==
  /\ At(p, "get")
  /\ Goto(p, IF req[p].token \in InSlot(View(p)) THEN "touch" ELSE "count")
  /\ UNCHANGED <<Committed, keyLock, req, loc, wr, reply>>

\* UPDATE of the row GetDevice found; updating zero rows is no error.
TouchDevice(p) ==
  /\ At(p, "touch")
  /\ wr' = IF req[p].token \in InSlot(View(p))
           THEN [wr EXCEPT ![p][req[p].token] = req[p].fp] ELSE wr
  /\ Goto(p, "commit")
  /\ UNCHANGED <<Committed, keyLock, req, loc, reply>>

\* Bug: off by one at the bound.
CountDevicesOneMore(p) ==
  /\ At(p, "count")
  /\ \/ Used(p) > loc[p].max /\ Abort(p, "slot_limit")
     \/ /\ Used(p) <= loc[p].max
        /\ Goto(p, "insert")
        /\ UNCHANGED <<Committed, keyLock, req, loc, wr, reply>>

\* Bug: SLOT_LIMIT is answered after a commit, which keeps the eviction.
CountDevicesCommits(p) ==
  /\ At(p, "count")
  /\ \/ /\ Used(p) >= loc[p].max
        /\ dev' = View(p)
        /\ Release(p)
        /\ Answer(p, "slot_limit", FALSE)
        /\ loc' = [loc EXCEPT ![p] = NoLocals]
        /\ UNCHANGED <<status, maxSlots>>
     \/ /\ Used(p) < loc[p].max
        /\ Goto(p, "insert")
        /\ UNCHANGED <<Committed, keyLock, req, loc, wr, reply>>

\* SELECT count(*): a full roster is the detailed SLOT_LIMIT error.
CountDevices(p) ==
  /\ At(p, "count")
  /\ \/ Used(p) >= loc[p].max /\ Abort(p, "slot_limit")
     \/ /\ Used(p) < loc[p].max
        /\ Goto(p, "insert")
        /\ UNCHANGED <<Committed, keyLock, req, loc, wr, reply>>

\* A second row for the token would break the unique index.
InsertDevice(p) ==
  /\ At(p, "insert")
  /\ \/ req[p].token \in InSlot(View(p)) /\ Abort(p, "internal")
     \/ /\ req[p].token \notin InSlot(View(p))
        /\ wr' = [wr EXCEPT ![p][req[p].token] = req[p].fp]
        /\ Goto(p, "commit")
        /\ UNCHANGED <<Committed, keyLock, req, loc, reply>>

\* After the commit the handler signs a certificate and answers.
SignCert(p) ==
  /\ At(p, "sign")
  /\ Answer(p, "ok", FALSE)
  /\ UNCHANGED <<Committed, keyLock, loc, wr>>

-----------------------------------------------------------------------------
(* Deactivate and KickDevice.                                              *)

CountBefore(p) ==
  /\ At(p, "before")
  /\ loc' = [loc EXCEPT ![p].before = Used(p)]
  /\ Goto(p, "delete")
  /\ UNCHANGED <<Committed, keyLock, req, wr, reply>>

DeleteDevice(p) ==
  /\ At(p, "delete")
  /\ DeleteRow(p, req[p].token)
  /\ Goto(p, "after")
  /\ UNCHANGED <<Committed, keyLock, req, reply>>

CountAfter(p) ==
  /\ At(p, "after")
  /\ loc' = [loc EXCEPT ![p].released = Used(p) < loc[p].before]
  /\ Goto(p, "commit")
  /\ UNCHANGED <<Committed, keyLock, req, wr, reply>>

-----------------------------------------------------------------------------
(* The operator's requests.                                                *)

\* resolveKey: a plain SELECT, no lock.
ResolveKey(p) ==
  /\ At(p, "find")
  /\ \/ status = "deleted" /\ Abort(p, "key_not_found")
     \/ /\ status # "deleted"
        /\ Goto(p, CASE req[p].op = "KickDevice" -> "before"
                     [] req[p].op = "DeleteKey"  -> "scan"
                     [] OTHER -> "write")
        /\ UNCHANGED <<Committed, keyLock, req, loc, wr, reply>>

\* UPDATE of the key row and the read-back, which fails when the row has gone.
\* The new values become visible at the commit.
UpdateKeyRow(p) ==
  /\ At(p, "write")
  /\ \/ status = "deleted" /\ Abort(p, "internal")
     \/ /\ status # "deleted"
        /\ keyLock' = p
        /\ Goto(p, "commit")
        /\ UNCHANGED <<Committed, req, loc, wr, reply>>

\* The rows a DELETE has still to visit, in an order of the database's choosing.
NextRow(p, rows, gone) ==
  /\ \E t \in IF rows = {} THEN {None} ELSE rows :
       loc' = [loc EXCEPT ![p].todo = rows, ![p].target = t,
                          ![p].dead = @ \cup gone]
  /\ Goto(p, IF rows = {} THEN "delkey" ELSE "purge")

\* DELETE ... WHERE key_hash: its work is the rows it sees when it starts.
ScanDevices(p) ==
  /\ At(p, "scan")
  /\ NextRow(p, InSlot(View(p)), {})
  /\ UNCHANGED <<Committed, keyLock, req, wr, reply>>

\* The next of those rows.  One that another transaction has deleted is not in
\* todo any more and is skipped, even if its token has a new row by now.
PurgeDevice(p) ==
  LET gone == loc[p].todo \cap {loc[p].target} \cap InSlot(View(p)) IN
  /\ At(p, "purge")
  /\ wr' = [wr EXCEPT ![p] = [t \in Tokens |-> IF t \in gone THEN Free ELSE @[t]]]
  /\ NextRow(p, loc[p].todo \ {loc[p].target}, gone)
  /\ UNCHANGED <<Committed, keyLock, req, reply>>

\* DELETE of the key row; a row that has gone already is no error.
DeleteKeyRow(p) ==
  /\ At(p, "delkey")
  /\ keyLock' = IF status = "deleted" THEN keyLock ELSE p
  /\ Goto(p, "commit")
  /\ UNCHANGED <<Committed, req, loc, wr, reply>>

-----------------------------------------------------------------------------
(* The end of a transaction.                                               *)

NewStatus(p) ==
  CASE req[p].op = "RevokeKey"   -> "revoked"
    [] req[p].op = "UnrevokeKey" -> "active"
    [] req[p].op = "DeleteKey"   -> "deleted"
    [] OTHER -> status

NewMaxSlots(p) ==
  IF req[p].op = "UpdateKey" THEN req[p].slots ELSE maxSlots

\* Bug: revoking a key clears its roster.
NewRosterFreedOnRevoke(p) ==
  IF req[p].op = "RevokeKey" THEN [t \in Tokens |-> Free] ELSE View(p)

NewRoster(p) == View(p)

\* COMMIT: the writes become visible, the locks go, and the rows deleted here
\* are gone for every DELETE that had them in its work.
Commit(p) ==
  /\ At(p, "commit")
  /\ dev' = NewRoster(p)
  /\ status' = NewStatus(p)
  /\ maxSlots' = NewMaxSlots(p)
  /\ Release(p)
  /\ loc' = [q \in Procs |->
               IF q = p THEN NoLocals
               ELSE [loc[q] EXCEPT !.todo = @ \ loc[p].dead]]
  /\ IF req[p].op \in KeyedOps
     THEN Goto(p, "sign") /\ UNCHANGED <<req, reply>>
     ELSE Answer(p, "ok", loc[p].released)

\* A statement, the COMMIT or the signing fails: a lost connection, an expired
\* deadline.  Before the commit it undoes the transaction, after it not.
Fail(p) == pc[p] # "idle" /\ Abort(p, "internal")

\* The database ends a deadlock by failing a statement of the ring.
DeadlockVictim(p) == Deadlocked(p) /\ Abort(p, "internal")

-----------------------------------------------------------------------------

Step(p) ==
  \/ GetKeyForUpdate(p) \/ CheckEntitled(p) \/ Evict(p) \/ GetDevice(p)
  \/ TouchDevice(p) \/ CountDevices(p) \/ InsertDevice(p) \/ SignCert(p)
  \/ CountBefore(p) \/ DeleteDevice(p) \/ CountAfter(p)
  \/ ResolveKey(p) \/ UpdateKeyRow(p)
  \/ ScanDevices(p) \/ PurgeDevice(p) \/ DeleteKeyRow(p)
  \/ Commit(p)

Next ==
  \E p \in Procs :
    \/ \E r \in Requests : Receive(p, r)
    \/ Step(p)
    \/ Fail(p)
    \/ DeadlockVictim(p)

Spec == Init /\ [][Next]_vars

\* A statement that can run runs, a lock that keeps coming free reaches every
\* waiter (the database queues them), and a deadlock is found.
FairSpec ==
  /\ Spec
  /\ \A p \in Procs : SF_vars(Step(p)) /\ WF_vars(DeadlockVictim(p))

-----------------------------------------------------------------------------
(* Properties.                                                             *)

Ledger == INSTANCE SlotLedger

\* The statements each kind of request runs.
StatementsMatchRequest ==
  \A p \in Procs :
    /\ pc[p] \in {"lock", "entitled", "evict", "get", "touch", "count", "insert", "sign"}
         => req[p].op \in KeyedOps
    /\ pc[p] = "evict" => req[p].evict # None
    /\ pc[p] \in {"before", "delete", "after"} => req[p].op \in DeviceOps
    /\ pc[p] = "find" => req[p].op \notin KeyedOps \cup {"Deactivate"}
    /\ pc[p] = "write" => req[p].op \in KeyOps
    /\ pc[p] \in {"scan", "purge", "delkey"} => req[p].op = "DeleteKey"

Judging == {"entitled", "evict", "get", "touch", "count", "insert"}

\* From GetKeyForUpdate to COMMIT an activation holds the key row, so that the
\* status and the bound it has read are still those of the key.
KeyHeld ==
  \A p \in Procs :
    /\ pc[p] \in Judging \/ (pc[p] = "commit" /\ req[p].op \in KeyedOps)
         => keyLock = p /\ status = "active" /\ loc[p].max = maxSlots
    /\ pc[p] = "commit" /\ req[p].op \in KeyOps => keyLock = p /\ status # "deleted"
    /\ pc[p] = "commit" /\ req[p].op = "DeleteKey" => keyLock = p \/ status = "deleted"

\* One uncommitted write per row, and only on rows the request may write.
RowsHeld ==
  \A p \in Procs, t \in Tokens : wr[p][t] # Clean =>
    /\ \A q \in Procs \ {p} : wr[q][t] = Clean
    /\ pc[p] \in {"get", "touch", "count", "insert", "after", "purge", "delkey", "commit"}
    /\ wr[p][t] = Free =>
         \/ req[p].op = "Activate" /\ t = req[p].evict
         \/ req[p].op \in DeviceOps /\ t = req[p].token
         \/ req[p].op = "DeleteKey"
    /\ wr[p][t] # Free =>
         pc[p] = "commit" /\ req[p].op \in KeyedOps /\ t = req[p].token

\* What an activation has judged stays true up to its COMMIT: the token has no
\* row and there is room for it.  Releases by others may make more room, nobody
\* can take it.
RoomKept ==
  \A p \in Procs :
    /\ pc[p] \in {"count", "insert"} => req[p].token \notin InSlot(View(p))
    /\ pc[p] = "insert" => Used(p) < maxSlots
    /\ pc[p] = "commit" /\ req[p].op \in KeyedOps /\ dev[req[p].token] = Free
         /\ req[p].token \in InSlot(View(p))
         => Used(p) <= maxSlots

\* The inductive invariant.
IInv == TypeOK /\ StatementsMatchRequest /\ KeyHeld /\ RowsHeld /\ RoomKept

\* The statement-level transactions change the key and its roster only in the
\* steps of the abstract slot ledger: a device enters a slot only while the
\* key is active and only into a roster that fits max_slots as it is then,
\* whatever runs in between GetKeyForUpdate, the count, the insert and COMMIT.
ImplementsLedger == Ledger!Spec

\* A device leaves its slot only at the commit of a request that names it, or
\* of DeleteKey: no activation, revocation, bound change or failure takes it.
SlotLostOnlyByName ==
  [][\A t \in InSlot(dev) \ InSlot(dev') : \E p \in Procs :
       /\ pc[p] = "commit" /\ pc'[p] # "commit"
       /\ \/ req[p].op \in DeviceOps /\ req[p].token = t
          \/ req[p].op = "Activate" /\ req[p].evict = t
          \/ req[p].op = "DeleteKey"]_vars

\* An activation that is refused has no effect, the eviction it began with
\* included: after SLOT_LIMIT the device it would have evicted has its slot.
RefusalLeavesNoTrace ==
  [][\A p \in Procs :
       reply'[p].code \in {"key_not_found", "key_revoked", "already_entitled", "slot_limit"}
         /\ reply'[p] # reply[p]
       => UNCHANGED Committed]_vars

\* The unique index on (key_hash, device_token) never fires: when InsertDevice
\* runs, no transaction has, or is about to commit, a row for the token.
NoDoubleInsert ==
  \A p \in Procs : pc[p] = "insert" =>
    /\ req[p].token \notin InSlot(View(p))
    /\ \A q \in Procs \ {p} : wr[q][req[p].token] \notin Fingerprints

\* Only DeleteKey, which takes the device rows before the key row, can be part
\* of a deadlock: the other requests take locks in one order.
DeadlockNeedsDeleteKey ==
  \A S \in SUBSET Procs : Ring(S) => \E p \in S : req[p].op = "DeleteKey"

\* Every request is answered: no wait for a row lasts for ever.
EveryRequestAnswered ==
  \A p \in Procs : pc[p] # "idle" ~> pc[p] = "idle"

-----------------------------------------------------------------------------
(* What the documentation says and the code does not do.                   *)

\* admin.go, DeleteKey: the key goes together with its devices.
DeletedKeyHasNoDevices ==
  status = "deleted" => InSlot(dev) = {}

\* docs/wire-contract.md, 6: released:false says the device was in no slot, so
\* a request that answers it has not just taken the device out of its slot.
NotReleasedMeansNoSlot ==
  [][\A p \in Procs :
       /\ pc[p] = "commit" /\ pc'[p] = "idle" /\ reply'[p].code = "ok"
       /\ req[p].op \in DeviceOps
       /\ req[p].token \in InSlot(dev) \ InSlot(dev')
       => reply'[p].released]_vars

=============================================================================
