---------------------------- MODULE SlotsProofs ----------------------------
(* Proofs about Slots, for every set of processes, tokens and requests.     *)
EXTENDS Slots, FiniteSetTheorems, TLAPS

-----------------------------------------------------------------------------
(* What the helpers return.                                                *)

\* The fields of a request, by its operation.
LEMMA RequestFields ==
  ASSUME NEW r \in Requests
  PROVE  /\ r.op \in KeyedOps \cup DeviceOps \cup KeyOps \cup {"DeleteKey"}
         /\ r.op \in KeyedOps => r.token \in Tokens /\ r.fp \in Fingerprints
                                 /\ r.evict \in Tokens \cup {None}
         /\ r.op = "TrialStart" => r.evict = None
         /\ r.op \in DeviceOps => r.token \in Tokens
         /\ r.op = "UpdateKey" => r.slots \in SlotLimits
         /\ r # None
  BY RequestsAssumption DEF Request, KeyedOps, DeviceOps, KeyOps

\* A transaction sees a roster, of at most as many slots as there are tokens.
LEMMA ViewType ==
  ASSUME TypeOK, NEW p \in Procs
  PROVE  /\ View(p) \in [Tokens -> Fingerprints \cup {Free}]
         /\ InSlot(View(p)) \subseteq Tokens
         /\ IsFiniteSet(InSlot(View(p)))
         /\ Used(p) \in 0 .. Cardinality(Tokens)
<1>1. View(p) \in [Tokens -> Fingerprints \cup {Free}]
  BY DEF TypeOK, View, Writes
<1>2. InSlot(View(p)) \subseteq Tokens
  BY DEF InSlot
<1>3. /\ IsFiniteSet(InSlot(View(p)))
      /\ Cardinality(InSlot(View(p))) <= Cardinality(Tokens)
  BY <1>2, TokensAssumption, FS_Subset
<1>4. Cardinality(Tokens) \in Nat /\ Cardinality(InSlot(View(p))) \in Nat
  BY <1>3, TokensAssumption, FS_CardinalityType
<1>5. QED
  BY <1>1, <1>2, <1>3, <1>4 DEF Used

-----------------------------------------------------------------------------
(* Type correctness.                                                       *)

LEMMA NoLocalsType == NoLocals \in Locals
<1>1. Cardinality(Tokens) \in Nat
  BY TokensAssumption, FS_CardinalityType
<1>2. QED
  BY <1>1 DEF NoLocals, Locals

\* Updating the rows of a DELETE in the locals keeps them well formed.
LEMMA LocalsUpdate ==
  ASSUME NEW l \in Locals, NEW todo \in SUBSET Tokens,
         NEW target \in Tokens \cup {None}, NEW dead \in SUBSET Tokens
  PROVE  /\ [l EXCEPT !.dead = dead] \in Locals
         /\ [l EXCEPT !.todo = todo] \in Locals
         /\ [l EXCEPT !.todo = todo, !.target = target, !.dead = dead] \in Locals
         /\ l.todo \in SUBSET Tokens /\ l.dead \in SUBSET Tokens
  BY DEF Locals

\* So does noting what a release has counted.
LEMMA LocalsCount ==
  ASSUME NEW l \in Locals, NEW n \in 0 .. Cardinality(Tokens), NEW b \in BOOLEAN
  PROVE  /\ [l EXCEPT !.before = n] \in Locals
         /\ [l EXCEPT !.released = b] \in Locals
  BY DEF Locals

\* A write on one row, and the end of a transaction.
LEMMA WritesUpdate ==
  ASSUME TypeOK, NEW p \in Procs, NEW t \in Tokens,
         NEW v \in Fingerprints \cup {Free}
  PROVE  [wr EXCEPT ![p][t] = v] \in [Procs -> Writes]
<1>1. [wr[p] EXCEPT ![t] = v] \in Writes
  BY DEF TypeOK, Writes
<1>2. QED
  BY <1>1 DEF TypeOK

LEMMA NoWritesType == NoWrites \in Writes
  BY DEF NoWrites, Writes

LEMMA InitType == Init => TypeOK
  BY NoLocalsType, NoWritesType DEF Init, TypeOK, Labels, InTx, Codes

LEMMA AbortType ==
  ASSUME TypeOK, NEW p \in Procs, NEW code \in Codes, Abort(p, code)
  PROVE  TypeOK'
  BY NoLocalsType, NoWritesType
  DEF Abort, Release, Answer, Goto, Committed, TypeOK, Labels, InTx

LEMMA DeleteRowType ==
  ASSUME TypeOK, NEW p \in Procs, NEW t \in Tokens, DeleteRow(p, t)
  PROVE  /\ loc' \in [Procs -> Locals]
         /\ wr' \in [Procs -> Writes]
<1>1. loc \in [Procs -> Locals] /\ loc[p] \in Locals
  BY DEF TypeOK
<1>2. [loc[p] EXCEPT !.dead = loc[p].dead \cup {t}] \in Locals
  BY <1>1, LocalsUpdate
<1>3. loc' \in [Procs -> Locals]
  BY <1>1, <1>2 DEF DeleteRow
<1>4. wr' = wr \/ wr' = [wr EXCEPT ![p][t] = Free]
  BY DEF DeleteRow
<1>5. [wr EXCEPT ![p][t] = Free] \in [Procs -> Writes] /\ wr \in [Procs -> Writes]
  BY WritesUpdate DEF TypeOK
<1>6. QED
  BY <1>3, <1>4, <1>5

LEMMA NextRowType ==
  ASSUME TypeOK, NEW p \in Procs, NEW rows \in SUBSET Tokens,
         NEW gone \in SUBSET Tokens, pc[p] # "idle", req' = req,
         NextRow(p, rows, gone)
  PROVE  /\ loc' \in [Procs -> Locals]
         /\ pc' \in [Procs -> Labels]
         /\ \A q \in Procs : req'[q] = None <=> pc'[q] = "idle"
<1>1. PICK t \in IF rows = {} THEN {None} ELSE rows :
        loc' = [loc EXCEPT ![p].todo = rows, ![p].target = t,
                           ![p].dead = @ \cup gone]
  BY DEF NextRow
<1>2. [loc[p] EXCEPT !.todo = rows, !.target = t, !.dead = @ \cup gone] \in Locals
  BY LocalsUpdate DEF TypeOK
<1>3. loc' \in [Procs -> Locals]
  BY <1>1, <1>2 DEF TypeOK
<1>4. QED
  BY <1>3 DEF NextRow, Goto, TypeOK, Labels, InTx

LEMMA CommitType ==
  ASSUME TypeOK, StatementsMatchRequest, NEW p \in Procs, Commit(p)
  PROVE  TypeOK'
<1>1. req[p] \in Requests
  BY DEF Commit, At, TypeOK
<1>2. status' \in {"active", "revoked", "deleted"}
  BY DEF Commit, NewStatus, TypeOK
<1>3. maxSlots' \in SlotLimits
  BY <1>1, RequestFields DEF Commit, NewMaxSlots, TypeOK
<1>4. dev' \in [Tokens -> Fingerprints \cup {Free}]
  BY ViewType DEF Commit, NewRoster
<1>5. /\ keyLock' \in Procs \cup {None}
      /\ wr' \in [Procs -> Writes]
  BY NoWritesType DEF Commit, Release, TypeOK
<1>6. loc' \in [Procs -> Locals]
  <2>1. ASSUME NEW q \in Procs
        PROVE  [loc[q] EXCEPT !.todo = @ \ loc[p].dead] \in Locals
    BY LocalsUpdate DEF TypeOK
  <2>2. QED
    BY <2>1, NoLocalsType DEF Commit
<1>7. loc[p].released \in BOOLEAN
  BY DEF TypeOK, Locals
<1>8. /\ pc' \in [Procs -> Labels]
      /\ req' \in [Procs -> Requests \cup {None}]
      /\ \A q \in Procs : req'[q] = None <=> pc'[q] = "idle"
      /\ reply' \in [Procs -> [code : Codes, released : BOOLEAN]]
  <2>1. CASE req[p].op \in KeyedOps
    BY <2>1 DEF Commit, At, Goto, TypeOK, Labels
  <2>2. CASE req[p].op \notin KeyedOps
    <3>1. Answer(p, "ok", loc[p].released)
      BY <2>2 DEF Commit
    <3>2. QED
      BY <1>7, <3>1 DEF Answer, Goto, TypeOK, Labels, Codes
  <2>3. QED
    BY <2>1, <2>2
<1>9. QED
  BY <1>2, <1>3, <1>4, <1>5, <1>6, <1>8 DEF TypeOK


LEMMA StepType ==
  ASSUME TypeOK, StatementsMatchRequest, NEW p \in Procs, Step(p)
  PROVE  TypeOK'
<1>1. pc[p] # "idle" /\ req[p] \in Requests
  BY DEF TypeOK, Step, GetKeyForUpdate, CheckEntitled, Evict, GetDevice,
     TouchDevice, CountDevices, InsertDevice, SignCert, CountBefore,
     DeleteDevice, CountAfter, ResolveKey, UpdateKeyRow, ScanDevices,
     PurgeDevice, DeleteKeyRow, Commit, At
<1>2. loc[p] \in Locals /\ Used(p) \in 0 .. Cardinality(Tokens)
  BY ViewType DEF TypeOK
<1>3. ASSUME NEW code \in Codes, Abort(p, code) PROVE TypeOK'
  BY <1>3, AbortType
<1>4. {"key_not_found", "key_revoked", "already_entitled", "slot_limit",
       "internal"} \subseteq Codes
  BY DEF Codes
<1>5. ASSUME GetKeyForUpdate(p) PROVE TypeOK'
  <2>1. CASE \E code \in Codes : Abort(p, code)
    BY <2>1, <1>3
  <2>2. CASE ~ \E code \in Codes : Abort(p, code)
    <3>1. /\ keyLock' = p /\ loc' = [loc EXCEPT ![p].max = maxSlots]
          /\ Goto(p, IF req[p].op = "TrialStart" THEN "entitled"
                     ELSE IF req[p].evict # None THEN "evict" ELSE "get")
          /\ UNCHANGED <<Committed, req, wr, reply>>
      BY <1>4, <1>5, <2>2 DEF GetKeyForUpdate
    <3>2. [loc[p] EXCEPT !.max = maxSlots] \in Locals
      BY <1>2 DEF TypeOK, Locals
    <3>3. QED
      BY <1>1, <3>1, <3>2 DEF Goto, Committed, TypeOK, Labels, InTx
  <2>3. QED
    BY <2>1, <2>2
<1>6. ASSUME CheckEntitled(p) PROVE TypeOK'
  BY <1>1, <1>3, <1>4, <1>6
  DEF CheckEntitled, Goto, Committed, TypeOK, Labels, InTx
<1>7. ASSUME Evict(p) PROVE TypeOK'
  <2>1. req[p].evict \in Tokens
    BY <1>1, <1>7, RequestFields DEF Evict, At, StatementsMatchRequest
  <2>2. QED
    BY <1>1, <1>7, <2>1, DeleteRowType
    DEF Evict, Goto, Committed, TypeOK, Labels, InTx
<1>8. ASSUME GetDevice(p) PROVE TypeOK'
  BY <1>1, <1>8 DEF GetDevice, Goto, Committed, TypeOK, Labels, InTx
<1>9. ASSUME TouchDevice(p) PROVE TypeOK'
  <2>1. req[p].token \in Tokens /\ req[p].fp \in Fingerprints
    BY <1>1, <1>9, RequestFields DEF TouchDevice, At, StatementsMatchRequest
  <2>2. wr' = wr \/ wr' = [wr EXCEPT ![p][req[p].token] = req[p].fp]
    BY <1>9 DEF TouchDevice
  <2>3. wr' \in [Procs -> Writes]
    BY <2>1, <2>2, WritesUpdate DEF TypeOK
  <2>4. QED
    BY <1>1, <1>9, <2>3 DEF TouchDevice, Goto, Committed, TypeOK, Labels, InTx
<1>10. ASSUME CountDevices(p) PROVE TypeOK'
  BY <1>1, <1>3, <1>4, <1>10
  DEF CountDevices, Goto, Committed, TypeOK, Labels, InTx
<1>11. ASSUME InsertDevice(p) PROVE TypeOK'
  <2>1. req[p].token \in Tokens /\ req[p].fp \in Fingerprints
    BY <1>1, <1>11, RequestFields DEF InsertDevice, At, StatementsMatchRequest
  <2>2. CASE Abort(p, "internal")
    BY <1>3, <1>4, <2>2
  <2>3. CASE ~Abort(p, "internal")
    <3>1. /\ wr' = [wr EXCEPT ![p][req[p].token] = req[p].fp]
          /\ Goto(p, "commit")
          /\ UNCHANGED <<Committed, keyLock, req, loc, reply>>
      BY <1>11, <2>3 DEF InsertDevice
    <3>2. wr' \in [Procs -> Writes]
      BY <2>1, <3>1, WritesUpdate
    <3>3. QED
      BY <1>1, <3>1, <3>2 DEF Goto, Committed, TypeOK, Labels, InTx
  <2>4. QED
    BY <2>2, <2>3
<1>12. ASSUME SignCert(p) PROVE TypeOK'
  BY <1>1, <1>12 DEF SignCert, Answer, Goto, Committed, TypeOK, Labels, Codes
<1>13. ASSUME CountBefore(p) PROVE TypeOK'
  <2>1. [loc[p] EXCEPT !.before = Used(p)] \in Locals
    BY <1>2, LocalsCount
  <2>2. QED
    BY <1>1, <1>13, <2>1 DEF CountBefore, Goto, Committed, TypeOK, Labels, InTx
<1>14. ASSUME DeleteDevice(p) PROVE TypeOK'
  <2>1. req[p].token \in Tokens
    BY <1>1, <1>14, RequestFields DEF DeleteDevice, At, StatementsMatchRequest
  <2>2. QED
    BY <1>1, <1>14, <2>1, DeleteRowType
    DEF DeleteDevice, Goto, Committed, TypeOK, Labels, InTx
<1>15. ASSUME CountAfter(p) PROVE TypeOK'
  <2> DEFINE b == Used(p) < loc[p].before
  <2>1. b \in BOOLEAN
    OBVIOUS
  <2>2. loc' = [loc EXCEPT ![p].released = b]
    BY <1>15 DEF CountAfter
  <2> HIDE DEF b
  <2>3. [loc[p] EXCEPT !.released = b] \in Locals
    BY <1>2, <2>1, LocalsCount
  <2>4. loc' \in [Procs -> Locals]
    BY <2>2, <2>3 DEF TypeOK
  <2>5. QED
    BY <1>1, <1>15, <2>4 DEF CountAfter, Goto, Committed, TypeOK, Labels, InTx
<1>16. ASSUME ResolveKey(p) PROVE TypeOK'
  BY <1>1, <1>3, <1>4, <1>16
  DEF ResolveKey, Goto, Committed, TypeOK, Labels, InTx
<1>17. ASSUME UpdateKeyRow(p) PROVE TypeOK'
  BY <1>1, <1>3, <1>4, <1>17
  DEF UpdateKeyRow, Goto, Committed, TypeOK, Labels, InTx
<1>18. ASSUME ScanDevices(p) PROVE TypeOK'
  <2>1. {} \in SUBSET Tokens /\ InSlot(View(p)) \in SUBSET Tokens
    BY ViewType
  <2>2. /\ NextRow(p, InSlot(View(p)), {})
        /\ UNCHANGED <<Committed, keyLock, req, wr, reply>>
    BY <1>18 DEF ScanDevices
  <2>3. QED
    BY <1>1, <2>1, <2>2, NextRowType DEF Committed, TypeOK
<1>19. ASSUME PurgeDevice(p) PROVE TypeOK'
  <2> DEFINE gone == loc[p].todo \cap {loc[p].target} \cap InSlot(View(p))
  <2>1. gone \in SUBSET Tokens /\ loc[p].todo \ {loc[p].target} \in SUBSET Tokens
    BY <1>2, LocalsUpdate
  <2>2. wr' = [wr EXCEPT ![p] = [t \in Tokens |-> IF t \in gone THEN Free ELSE @[t]]]
    BY <1>19 DEF PurgeDevice
  <2>3. wr' \in [Procs -> Writes]
    BY <2>2 DEF TypeOK, Writes
  <2>4. /\ NextRow(p, loc[p].todo \ {loc[p].target}, gone)
        /\ UNCHANGED <<Committed, keyLock, req, reply>>
    BY <1>19 DEF PurgeDevice
  <2> HIDE DEF gone
  <2>5. QED
    BY <1>1, <2>1, <2>3, <2>4, NextRowType DEF Committed, TypeOK
<1>20. ASSUME DeleteKeyRow(p) PROVE TypeOK'
  BY <1>1, <1>20 DEF DeleteKeyRow, Goto, Committed, TypeOK, Labels, InTx
<1>21. QED
  BY <1>5, <1>6, <1>7, <1>8, <1>9, <1>10, <1>11, <1>12, <1>13, <1>14, <1>15,
     <1>16, <1>17, <1>18, <1>19, <1>20, CommitType DEF Step

-----------------------------------------------------------------------------
(* What one step does to the other processes.                              *)

\* A step of one process, whatever it is.
ProcStep(p) ==
  (\E r \in Requests : Receive(p, r)) \/ Step(p) \/ Fail(p) \/ DeadlockVictim(p)

LEMMA NextIsProcStep == Next <=> \E p \in Procs : ProcStep(p)
  BY DEF Next, ProcStep

USE DEF Committed

\* Every step but COMMIT leaves the committed rows alone.
LEMMA OnlyCommitPublishes ==
  ASSUME NEW p \in Procs, ProcStep(p), ~Commit(p)
  PROVE  UNCHANGED <<status, maxSlots, dev>>
  BY DEF ProcStep, Step, Receive, GetKeyForUpdate, CheckEntitled, Evict,
     GetDevice, TouchDevice, CountDevices, InsertDevice, SignCert,
     CountBefore, DeleteDevice, CountAfter, ResolveKey, UpdateKeyRow,
     ScanDevices, PurgeDevice, DeleteKeyRow, Fail, DeadlockVictim, Abort

\* A step is at the statement, with the request and with the writes of its own
\* process only.
LEMMA OthersStay ==
  ASSUME TypeOK, NEW p \in Procs, ProcStep(p), NEW q \in Procs \ {p}
  PROVE  /\ pc'[q] = pc[q]
         /\ req'[q] = req[q]
         /\ wr'[q] = wr[q]
         /\ loc'[q].max = loc[q].max
<1> USE DEF TypeOK, Goto
<1>1. ASSUME NEW r \in Requests, Receive(p, r)
      PROVE  pc'[q] = pc[q] /\ req'[q] = req[q] /\ UNCHANGED <<wr, loc>>
  BY <1>1 DEF Receive
<1>2. ASSUME NEW code, Abort(p, code)
      PROVE  /\ pc'[q] = pc[q] /\ req'[q] = req[q] /\ wr'[q] = wr[q]
             /\ loc'[q] = loc[q]
  BY <1>2 DEF Abort, Answer, Release
<1>3. ASSUME NEW t, DeleteRow(p, t)
      PROVE  wr'[q] = wr[q] /\ loc'[q] = loc[q]
  BY <1>3 DEF DeleteRow
<1>4. ASSUME NEW rows, NEW gone, NextRow(p, rows, gone)
      PROVE  pc'[q] = pc[q] /\ loc'[q] = loc[q]
  BY <1>4 DEF NextRow
<1>5. ASSUME Commit(p)
      PROVE  /\ pc'[q] = pc[q] /\ req'[q] = req[q] /\ wr'[q] = wr[q]
             /\ loc'[q].max = loc[q].max
  <2>1. pc'[q] = pc[q] /\ req'[q] = req[q]
    BY <1>5 DEF Commit, Answer
  <2>2. wr'[q] = wr[q]
    BY <1>5 DEF Commit, Release
  <2>3. loc'[q] = [loc[q] EXCEPT !.todo = @ \ loc[p].dead]
    BY <1>5 DEF Commit
  <2>4. loc[q] \in Locals
    OBVIOUS
  <2>5. loc'[q].max = loc[q].max
    BY <2>3, <2>4 DEF Locals
  <2>6. QED
    BY <2>1, <2>2, <2>5
<1>6. CASE Fail(p) \/ DeadlockVictim(p)
  BY <1>2, <1>6 DEF Fail, DeadlockVictim
<1>7. CASE GetKeyForUpdate(p) \/ CheckEntitled(p) \/ GetDevice(p)
  BY <1>2, <1>7 DEF GetKeyForUpdate, CheckEntitled, GetDevice
<1>8. CASE Evict(p) \/ DeleteDevice(p)
  BY <1>3, <1>8 DEF Evict, DeleteDevice
<1>9. CASE TouchDevice(p) \/ CountDevices(p) \/ InsertDevice(p) \/ SignCert(p)
  BY <1>2, <1>9 DEF TouchDevice, CountDevices, InsertDevice, SignCert, Answer
<1>10. CASE CountBefore(p) \/ CountAfter(p) \/ ResolveKey(p) \/ UpdateKeyRow(p)
  BY <1>2, <1>10 DEF CountBefore, CountAfter, ResolveKey, UpdateKeyRow
<1>11. CASE ScanDevices(p) \/ PurgeDevice(p) \/ DeleteKeyRow(p)
  BY <1>4, <1>11 DEF ScanDevices, PurgeDevice, DeleteKeyRow
<1>12. QED
  BY <1>1, <1>5, <1>6, <1>7, <1>8, <1>9, <1>10, <1>11 DEF ProcStep, Step

\* The key row does not change hands under its holder.
LEMMA LockStays ==
  ASSUME TypeOK, NEW p \in Procs, ProcStep(p), NEW q \in Procs \ {p}, keyLock = q
  PROVE  keyLock' = q
<1>1. ASSUME Release(p) PROVE keyLock' = q
  BY <1>1 DEF Release
<1>2. ASSUME NEW code, Abort(p, code) PROVE keyLock' = q
  BY <1>1, <1>2 DEF Abort
<1>3. q # None
  BY ProcsAssumption
<1>4. ASSUME NEW label \in {"lock", "write", "delkey"}, At(p, label) PROVE FALSE
  BY <1>3, <1>4 DEF At, WaitsFor
<1>5. CASE Fail(p) \/ DeadlockVictim(p) \/ Commit(p)
  BY <1>1, <1>2, <1>5 DEF Fail, DeadlockVictim, Commit
<1>6. CASE GetKeyForUpdate(p) \/ UpdateKeyRow(p) \/ DeleteKeyRow(p)
  BY <1>4, <1>6 DEF GetKeyForUpdate, UpdateKeyRow, DeleteKeyRow
<1>7. CASE CheckEntitled(p) \/ CountDevices(p) \/ InsertDevice(p) \/ ResolveKey(p)
  BY <1>2, <1>7 DEF CheckEntitled, CountDevices, InsertDevice, ResolveKey
<1>8. QED
  BY <1>5, <1>6, <1>7
  DEF ProcStep, Step, Receive, Evict, GetDevice, TouchDevice, SignCert,
      CountBefore, DeleteDevice, CountAfter, ScanDevices, PurgeDevice

\* While one process holds the key row no other changes it.
LEMMA KeyRowStays ==
  ASSUME TypeOK, KeyHeld, NEW p \in Procs, ProcStep(p),
         NEW q \in Procs \ {p}, keyLock = q, status # "deleted"
  PROVE  status' = status /\ maxSlots' = maxSlots
<1>1. CASE ~Commit(p)
  BY <1>1, OnlyCommitPublishes
<1>2. CASE Commit(p)
  <2>1. pc[p] = "commit" /\ req[p] \in Requests
    BY <1>2 DEF Commit, At, TypeOK
  <2>2. req[p].op \notin KeyOps \cup {"DeleteKey"}
    BY <2>1 DEF KeyHeld
  <2>3. QED
    BY <1>2, <2>2 DEF Commit, NewStatus, NewMaxSlots, KeyOps
<1>3. QED
  BY <1>1, <1>2

\* A deleted key does not come back.
LEMMA DeletedStays ==
  ASSUME TypeOK, KeyHeld, NEW p \in Procs, ProcStep(p), status = "deleted"
  PROVE  status' = "deleted"
<1>1. CASE ~Commit(p)
  BY <1>1, OnlyCommitPublishes
<1>2. CASE Commit(p)
  <2>1. pc[p] = "commit"
    BY <1>2 DEF Commit, At
  <2>2. req[p].op \notin KeyOps
    BY <2>1 DEF KeyHeld
  <2>3. QED
    BY <1>2, <2>2 DEF Commit, NewStatus, KeyOps
<1>3. QED
  BY <1>1, <1>2

\* While one process holds the key row the others only take rows away.
LEMMA RosterShrinks ==
  ASSUME TypeOK, KeyHeld, RowsHeld, NEW p \in Procs, ProcStep(p),
         NEW q \in Procs \ {p}, keyLock = q
  PROVE  /\ \A t \in Tokens : dev[t] = Free => dev'[t] = Free
         /\ InSlot(View(q))' \subseteq InSlot(View(q))
<1>1. ASSUME NEW t \in Tokens, dev[t] = Free PROVE dev'[t] = Free
  <2>1. CASE ~Commit(p)
    BY <1>1, <2>1, OnlyCommitPublishes
  <2>2. CASE Commit(p)
    <3>1. pc[p] = "commit"
      BY <2>2 DEF Commit, At
    <3>2. wr[p][t] \in {Free, Clean}
      BY <3>1 DEF RowsHeld, KeyHeld
    <3>3. QED
      BY <1>1, <2>2, <3>2 DEF Commit, NewRoster, View
  <2>3. QED
    BY <2>1, <2>2
<1>2. wr'[q] = wr[q]
  BY OthersStay
<1>3. QED
  BY <1>1, <1>2 DEF InSlot, View

-----------------------------------------------------------------------------
(* The statements of a request.                                            *)

LEMMA StatementsInv ==
  ASSUME IInv, NEW p \in Procs, ProcStep(p)
  PROVE  StatementsMatchRequest'
<1> USE DEF IInv
<1> DEFINE Own ==
      /\ pc'[p] \in {"lock", "entitled", "evict", "get", "touch", "count", "insert", "sign"}
           => req'[p].op \in KeyedOps
      /\ pc'[p] = "evict" => req'[p].evict # None
      /\ pc'[p] \in {"before", "delete", "after"} => req'[p].op \in DeviceOps
      /\ pc'[p] = "find" => req'[p].op \notin KeyedOps \cup {"Deactivate"}
      /\ pc'[p] = "write" => req'[p].op \in KeyOps
      /\ pc'[p] \in {"scan", "purge", "delkey"} => req'[p].op = "DeleteKey"
<1>1. Own
  <2>1. ASSUME NEW r \in Requests, Receive(p, r) PROVE Own
    <3>1. pc'[p] = FirstStatement(r.op) /\ req'[p] = r
      BY <2>1 DEF Receive, Goto, TypeOK
    <3>2. QED
      BY <3>1, RequestFields DEF FirstStatement, KeyedOps, DeviceOps, KeyOps
  <2>2. ASSUME NEW code, Abort(p, code) PROVE Own
    BY <2>2 DEF Abort, Answer, Goto, TypeOK
  <2>3. ASSUME ~ \E code : Abort(p, code), Step(p) PROVE Own
    <3> USE DEF TypeOK, StatementsMatchRequest, At, Goto
    <3>1. req[p] = None \/ req[p] \in Requests
      OBVIOUS
    <3>2. CASE GetKeyForUpdate(p)
      BY <2>3, <3>2 DEF GetKeyForUpdate
    <3>3. CASE CheckEntitled(p) \/ Evict(p) \/ GetDevice(p) \/ CountDevices(p)
      BY <2>3, <3>3 DEF CheckEntitled, Evict, GetDevice, CountDevices
    <3>4. CASE TouchDevice(p) \/ InsertDevice(p) \/ SignCert(p)
      BY <2>3, <3>4 DEF TouchDevice, InsertDevice, SignCert, Answer
    <3>5. CASE CountBefore(p) \/ DeleteDevice(p) \/ CountAfter(p)
      BY <3>5 DEF CountBefore, DeleteDevice, CountAfter
    <3>6. CASE ResolveKey(p)
      <4>1. /\ pc[p] = "find" /\ req' = req
            /\ Goto(p, CASE req[p].op = "KickDevice" -> "before"
                         [] req[p].op = "DeleteKey"  -> "scan"
                         [] OTHER -> "write")
        BY <2>3, <3>6 DEF ResolveKey
      <4>2. req[p] \in Requests
        BY <4>1, <3>1
      <4>3. QED
        BY <4>1, <4>2, RequestFields DEF KeyedOps, DeviceOps, KeyOps
    <3>7. CASE UpdateKeyRow(p) \/ DeleteKeyRow(p)
      BY <2>3, <3>7 DEF UpdateKeyRow, DeleteKeyRow
    <3>8. CASE ScanDevices(p) \/ PurgeDevice(p)
      BY <3>8 DEF ScanDevices, PurgeDevice, NextRow
    <3>9. CASE Commit(p)
      BY <3>9 DEF Commit, Answer
    <3>10. QED
      BY <2>3, <3>2, <3>3, <3>4, <3>5, <3>6, <3>7, <3>8, <3>9 DEF Step
  <2>4. QED
    BY <2>1, <2>2, <2>3 DEF ProcStep, Fail, DeadlockVictim
<1>2. \A q \in Procs \ {p} : pc'[q] = pc[q] /\ req'[q] = req[q]
  BY OthersStay
<1>3. QED
  BY <1>1, <1>2 DEF StatementsMatchRequest

-----------------------------------------------------------------------------
(* The key row under its lock.                                             *)

LEMMA KeyHeldInv ==
  ASSUME IInv, NEW p \in Procs, ProcStep(p)
  PROVE  KeyHeld'
<1> USE DEF IInv
<1> DEFINE Held(q) ==
      /\ pc[q] \in Judging \/ (pc[q] = "commit" /\ req[q].op \in KeyedOps)
           => keyLock = q /\ status = "active" /\ loc[q].max = maxSlots
      /\ pc[q] = "commit" /\ req[q].op \in KeyOps => keyLock = q /\ status # "deleted"
      /\ pc[q] = "commit" /\ req[q].op = "DeleteKey" => keyLock = q \/ status = "deleted"
<1>1. ASSUME NEW q \in Procs \ {p} PROVE Held(q)'
  <2>1. pc'[q] = pc[q] /\ req'[q] = req[q] /\ loc'[q].max = loc[q].max
    BY OthersStay
  <2>2. Held(q)
    BY DEF KeyHeld
  <2>3. status = "deleted" => status' = "deleted"
    BY DeletedStays
  <2>4. keyLock = q => keyLock' = q
    BY LockStays
  <2>5. keyLock = q /\ status # "deleted" => status' = status /\ maxSlots' = maxSlots
    BY KeyRowStays
  <2>6. QED
    BY <2>1, <2>2, <2>3, <2>4, <2>5
<1>2. Held(p)'
  <2> USE DEF TypeOK, At, Goto, Judging, KeyedOps, KeyOps
  <2>1. ASSUME pc'[p] = "idle" PROVE Held(p)'
    BY <2>1
  <2>2. ASSUME NEW code, Abort(p, code) PROVE Held(p)'
    BY <2>1, <2>2 DEF Abort, Answer
  <2>3. ASSUME NEW r \in Requests, Receive(p, r) PROVE Held(p)'
    BY <2>3 DEF Receive, FirstStatement
  <2>4. ASSUME ~ \E code : Abort(p, code), Step(p) PROVE Held(p)'
    <3>1. CASE GetKeyForUpdate(p)
      <4>1. /\ keyLock' = p /\ status = "active" /\ UNCHANGED <<status, maxSlots>>
            /\ loc' = [loc EXCEPT ![p].max = maxSlots]
            /\ pc'[p] \in Judging
        BY <2>4, <3>1 DEF GetKeyForUpdate
      <4>2. loc'[p].max = maxSlots
        BY <4>1 DEF Locals
      <4>3. QED
        BY <4>1, <4>2
    <3>2. CASE CheckEntitled(p) \/ GetDevice(p) \/ TouchDevice(p)
                 \/ CountDevices(p) \/ InsertDevice(p)
      <4>1. /\ pc[p] \in Judging /\ req' = req /\ pc'[p] \in Judging \cup {"commit"}
            /\ UNCHANGED <<keyLock, status, maxSlots, loc>>
        BY <2>4, <3>2
        DEF CheckEntitled, GetDevice, TouchDevice, CountDevices, InsertDevice
      <4>2. req[p].op \in KeyedOps
        BY <4>1 DEF StatementsMatchRequest
      <4>3. QED
        BY <4>1, <4>2 DEF KeyHeld
    <3>3. CASE Evict(p)
      <4>1. /\ pc[p] \in Judging /\ pc'[p] \in Judging
            /\ UNCHANGED <<keyLock, status, maxSlots>>
        BY <3>3 DEF Evict
      <4>2. loc'[p].max = loc[p].max
        BY <3>3 DEF Evict, DeleteRow, Locals
      <4>3. QED
        BY <4>1, <4>2 DEF KeyHeld
    <3>4. CASE CountBefore(p) \/ DeleteDevice(p) \/ CountAfter(p)
      <4>1. pc[p] \in {"before", "delete", "after"} /\ req' = req
            /\ pc'[p] \notin Judging
        BY <3>4 DEF CountBefore, DeleteDevice, CountAfter
      <4>2. req[p].op \in DeviceOps
        BY <4>1 DEF StatementsMatchRequest
      <4>3. QED
        BY <4>1, <4>2 DEF DeviceOps
    <3>5. CASE UpdateKeyRow(p)
      <4>1. /\ pc[p] = "write" /\ req' = req /\ keyLock' = p /\ status # "deleted"
            /\ pc'[p] = "commit" /\ status' = status
        BY <2>4, <3>5 DEF UpdateKeyRow
      <4>2. QED
        BY <4>1 DEF StatementsMatchRequest
    <3>6. CASE DeleteKeyRow(p)
      <4>1. /\ pc[p] = "delkey" /\ req' = req /\ pc'[p] = "commit"
            /\ status' = status /\ (status # "deleted" => keyLock' = p)
        BY <3>6 DEF DeleteKeyRow
      <4>2. QED
        BY <4>1 DEF StatementsMatchRequest
    <3>7. CASE ResolveKey(p) \/ ScanDevices(p) \/ PurgeDevice(p)
      <4>1. pc'[p] \in {"before", "scan", "write", "purge", "delkey"}
        BY <2>4, <3>7 DEF ResolveKey, ScanDevices, PurgeDevice, NextRow
      <4>2. QED
        BY <4>1
    <3>8. CASE SignCert(p) \/ Commit(p)
      <4>1. pc'[p] \in {"idle", "sign"}
        BY <3>8 DEF SignCert, Commit, Answer
      <4>2. QED
        BY <4>1
    <3>9. QED
      BY <2>4, <3>1, <3>2, <3>3, <3>4, <3>5, <3>6, <3>7, <3>8 DEF Step
  <2>5. QED
    BY <2>2, <2>3, <2>4 DEF ProcStep, Fail, DeadlockVictim
<1>3. QED
  BY <1>1, <1>2 DEF KeyHeld

-----------------------------------------------------------------------------
(* Uncommitted writes.                                                     *)

\* A process that has no need to wait for a row and sees it is its only writer.
LEMMA SoleWriter ==
  ASSUME NEW p \in Procs, NEW t \in Tokens
  PROVE  /\ RowHolders(p, t) = {} /\ t \in InSlot(View(p))
              => \A q \in Procs \ {p} : wr[q][t] = Clean
         /\ KeyHolders(p, t) = {} => \A q \in Procs \ {p} : wr[q][t] = Clean
  BY DEF RowHolders, KeyHolders

\* Writes are made by the requests that may make them, one writer to a row, and
\* are gone when the transaction ends.
LEMMA RowsHeldInv ==
  ASSUME IInv, NEW p \in Procs, ProcStep(p)
  PROVE  RowsHeld'
<1> USE DEF IInv
<1> DEFINE Writing == {"get", "touch", "count", "insert", "after", "purge", "delkey", "commit"}
           Allowed(q, t) ==
             /\ pc[q] \in Writing
             /\ wr[q][t] = Free =>
                  \/ req[q].op = "Activate" /\ t = req[q].evict
                  \/ req[q].op \in DeviceOps /\ t = req[q].token
                  \/ req[q].op = "DeleteKey"
             /\ wr[q][t] # Free =>
                  pc[q] = "commit" /\ req[q].op \in KeyedOps /\ t = req[q].token
           Own(t) == wr'[p][t] # Clean =>
                       (\A q \in Procs \ {p} : wr[q][t] = Clean) /\ Allowed(p, t)'
<1>1. \A t \in Tokens : Own(t)
  <2> SUFFICES ASSUME NEW t \in Tokens PROVE Own(t)
    OBVIOUS
  <2>a. wr[p][t] # Clean => (\A q \in Procs \ {p} : wr[q][t] = Clean) /\ Allowed(p, t)
    BY DEF RowsHeld
  <2>b. /\ pc \in [Procs -> Labels] /\ wr \in [Procs -> Writes]
        /\ wr[p] \in [Tokens -> Fingerprints \cup {Free, Clean}]
        /\ pc[p] # "idle" => req[p] \in Requests
    BY DEF TypeOK, Writes
  <2>c. Free # Clean
    BY RowAssumption
  <2>1. ASSUME wr'[p] = NoWrites PROVE Own(t)
    BY <2>1 DEF NoWrites
  <2>2. ASSUME Release(p) PROVE Own(t)
    BY <2>b, <2>1, <2>2 DEF Release
  <2>3. ASSUME NEW code, Abort(p, code) PROVE Own(t)
    BY <2>2, <2>3 DEF Abort
  <2>4. ASSUME NEW r \in Requests, Receive(p, r) PROVE Own(t)
    BY <2>a, <2>4 DEF Receive
  <2>5. ASSUME NEW u \in Tokens, NEW label \in Writing \ {"commit"}, DeleteRow(p, u), pc'[p] = label,
               req' = req, RowHolders(p, u) = {}, pc[p] \notin Writing,
               \/ req[p].op = "Activate" /\ u = req[p].evict
               \/ req[p].op \in DeviceOps /\ u = req[p].token
        PROVE  Own(t)
    <3>1. wr[p][t] = Clean
      BY <2>a, <2>5
    <3>2. CASE u \notin InSlot(View(p))
      BY <2>5, <3>1, <3>2 DEF DeleteRow
    <3>3. CASE u \in InSlot(View(p))
      <4>1. wr' = [wr EXCEPT ![p][u] = Free]
        BY <2>5, <3>3 DEF DeleteRow
      <4>2. wr'[p][t] # Clean => t = u /\ wr'[p][t] = Free
        BY <2>b, <3>1, <4>1
      <4>3. \A q \in Procs \ {p} : wr[q][u] = Clean
        BY <2>5, <3>3, SoleWriter
      <4>4. QED
        BY <2>5, <4>2, <4>3
    <3>4. QED
      BY <3>2, <3>3
  <2>6. ASSUME wr' = wr, req' = req, pc'[p] \in Writing, pc[p] # "commit" PROVE Own(t)
    BY <2>6, <2>a
  <2>7. ASSUME wr' = wr, pc[p] \notin Writing PROVE Own(t)
    BY <2>7, <2>a
  <2>8. ASSUME NEW u \in Tokens, NEW f \in Fingerprints,
               wr' = [wr EXCEPT ![p][u] = f], pc[p] # "commit", pc'[p] = "commit",
               req' = req, u = req[p].token, req[p].op \in KeyedOps,
               \A q \in Procs \ {p} : wr[q][u] = Clean
        PROVE  Own(t)
    <3>1. f # Free
      BY RowAssumption
    <3>2. CASE t = u
      <4>1. wr'[p][t] = f
        BY <2>b, <2>8, <3>2
      <4>2. QED
        BY <2>8, <3>1, <3>2, <4>1
    <3>3. CASE t # u
      <4>1. wr'[p][t] = wr[p][t]
        BY <2>b, <2>8, <3>3
      <4>2. QED
        BY <2>a, <2>8, <4>1
    <3>4. QED
      BY <3>2, <3>3
  <2> HIDE DEF Own, Allowed
  <2> USE DEF At, Goto
  <2>9. ASSUME ~ \E code : Abort(p, code), Step(p) PROVE Own(t)
    <3>1. CASE GetKeyForUpdate(p) \/ CheckEntitled(p) \/ SignCert(p) \/ CountBefore(p)
                 \/ ResolveKey(p) \/ UpdateKeyRow(p) \/ ScanDevices(p)
      <4>1. wr' = wr /\ pc[p] \notin Writing
        BY <2>9, <3>1 DEF GetKeyForUpdate, CheckEntitled, SignCert, CountBefore,
           ResolveKey, UpdateKeyRow, ScanDevices
      <4>2. QED
        BY <4>1, <2>7
    <3>2. CASE GetDevice(p) \/ CountDevices(p) \/ CountAfter(p) \/ DeleteKeyRow(p)
      <4>1. wr' = wr /\ req' = req /\ pc'[p] \in Writing /\ pc[p] # "commit"
        BY <2>b, <2>9, <3>2 DEF GetDevice, CountDevices, CountAfter, DeleteKeyRow
      <4>2. QED
        BY <4>1, <2>6
    <3>3. CASE Evict(p)
      <4>1. pc[p] = "evict" /\ pc'[p] = "get" /\ req' = req /\ DeleteRow(p, req[p].evict)
            /\ RowHolders(p, req[p].evict) = {}
        BY <2>b, <3>3 DEF Evict, WaitsFor
      <4>2. req[p].evict \in Tokens /\ req[p].op = "Activate"
        BY <2>b, <4>1, RequestFields DEF StatementsMatchRequest, KeyedOps
      <4>3. QED
        BY <4>1, <4>2, <2>5
    <3>4. CASE DeleteDevice(p)
      <4>1. pc[p] = "delete" /\ pc'[p] = "after" /\ req' = req
            /\ DeleteRow(p, req[p].token) /\ RowHolders(p, req[p].token) = {}
        BY <2>b, <3>4 DEF DeleteDevice, WaitsFor
      <4>2. req[p].token \in Tokens /\ req[p].op \in DeviceOps
        BY <2>b, <4>1, RequestFields DEF StatementsMatchRequest
      <4>3. QED
        BY <4>1, <4>2, <2>5
    <3>5. CASE TouchDevice(p)
      <4>1. pc[p] = "touch" /\ pc'[p] = "commit" /\ req' = req
            /\ RowHolders(p, req[p].token) = {}
        BY <2>b, <3>5 DEF TouchDevice, WaitsFor
      <4>2. /\ req[p].token \in Tokens /\ req[p].fp \in Fingerprints
            /\ req[p].op \in KeyedOps
        BY <2>b, <4>1, RequestFields DEF StatementsMatchRequest
      <4>3. CASE req[p].token \in InSlot(View(p))
        <5>1. wr' = [wr EXCEPT ![p][req[p].token] = req[p].fp]
          BY <3>5, <4>3 DEF TouchDevice
        <5>2. \A q \in Procs \ {p} : wr[q][req[p].token] = Clean
          BY <4>1, <4>2, <4>3, SoleWriter
        <5>3. QED
          BY <4>1, <4>2, <5>1, <5>2, <2>8
      <4>4. CASE req[p].token \notin InSlot(View(p))
        BY <3>5, <4>1, <4>4, <2>6 DEF TouchDevice
      <4>5. QED
        BY <4>3, <4>4
    <3>6. CASE InsertDevice(p)
      <4>1. pc[p] = "insert" /\ pc'[p] = "commit" /\ req' = req
            /\ KeyHolders(p, req[p].token) = {}
            /\ wr' = [wr EXCEPT ![p][req[p].token] = req[p].fp]
        BY <2>b, <2>9, <3>6 DEF InsertDevice, WaitsFor
      <4>2. /\ req[p].token \in Tokens /\ req[p].fp \in Fingerprints
            /\ req[p].op \in KeyedOps
        BY <2>b, <4>1, RequestFields DEF StatementsMatchRequest
      <4>3. QED
        BY <4>1, <4>2, SoleWriter, <2>8
    <3>7. CASE PurgeDevice(p)
      <4> DEFINE gone == loc[p].todo \cap {loc[p].target} \cap InSlot(View(p))
      <4>1. /\ pc[p] = "purge" /\ pc'[p] \in {"purge", "delkey"} /\ req' = req
            /\ wr' = [wr EXCEPT ![p] = [u \in Tokens |-> IF u \in gone THEN Free ELSE @[u]]]
        BY <2>b, <3>7 DEF PurgeDevice, NextRow
      <4>2. t \in gone => \A q \in Procs \ {p} : wr[q][t] = Clean
        BY <3>7, SoleWriter DEF PurgeDevice, WaitsFor
      <4>3. req[p].op = "DeleteKey"
        BY <4>1 DEF StatementsMatchRequest
      <4>4. wr'[p][t] = IF t \in gone THEN Free ELSE wr[p][t]
        BY <2>b, <4>1
      <4> HIDE DEF gone
      <4>5. QED
        BY <4>1, <4>2, <4>3, <4>4, <2>a DEF Own, Allowed
    <3>8. CASE Commit(p)
      BY <2>2, <3>8 DEF Commit
    <3>9. QED
      BY <2>9, <3>1, <3>2, <3>3, <3>4, <3>5, <3>6, <3>7, <3>8 DEF Step
  <2>10. QED
    BY <2>3, <2>4, <2>9 DEF ProcStep, Fail, DeadlockVictim
<1>2. \A q \in Procs \ {p} : pc'[q] = pc[q] /\ req'[q] = req[q] /\ wr'[q] = wr[q]
  BY OthersStay
<1>3. ASSUME NEW q \in Procs \ {p}, NEW t \in Tokens, wr'[q][t] # Clean
      PROVE  (\A r \in Procs \ {q} : wr'[r][t] = Clean) /\ Allowed(q, t)'
  <2>1. (\A r \in Procs \ {q} : wr[r][t] = Clean) /\ Allowed(q, t)'
    BY <1>2, <1>3 DEF RowsHeld
  <2>2. wr'[p][t] = Clean
    BY <1>1, <1>2, <1>3
  <2>3. QED
    BY <1>2, <2>1, <2>2
<1>4. ASSUME NEW t \in Tokens, wr'[p][t] # Clean
      PROVE  (\A r \in Procs \ {p} : wr'[r][t] = Clean) /\ Allowed(p, t)'
  BY <1>1, <1>2, <1>4
<1>5. QED
  BY <1>3, <1>4 DEF RowsHeld

-----------------------------------------------------------------------------
(* The room an activation has judged.                                      *)

\* A smaller roster uses no more slots, one token more at most one slot more.
LEMMA UsedBounds ==
  ASSUME NEW S \in SUBSET Tokens, NEW T \in SUBSET Tokens, NEW t \in Tokens
  PROVE  /\ Cardinality(S) \in Nat
         /\ S \subseteq T => Cardinality(S) <= Cardinality(T)
         /\ S \subseteq T \cup {t} => Cardinality(S) <= Cardinality(T) + 1
<1>1. IsFiniteSet(S) /\ IsFiniteSet(T)
  BY TokensAssumption, FS_Subset
<1>2. Cardinality(S) \in Nat /\ Cardinality(T) \in Nat
  BY <1>1, FS_CardinalityType
<1>3. S \subseteq T => Cardinality(S) <= Cardinality(T)
  BY <1>1, FS_Subset
<1>4. ASSUME S \subseteq T \cup {t} PROVE Cardinality(S) <= Cardinality(T) + 1
  <2>1. /\ IsFiniteSet(T \cup {t})
        /\ Cardinality(T \cup {t}) = Cardinality(T) \/ Cardinality(T \cup {t}) = Cardinality(T) + 1
    BY <1>1, FS_AddElement
  <2>2. Cardinality(S) <= Cardinality(T \cup {t})
    BY <1>4, <2>1, FS_Subset
  <2>3. QED
    BY <1>2, <2>1, <2>2
<1>5. QED
  BY <1>2, <1>3, <1>4

\* Nobody can take the room between the count and the COMMIT.
LEMMA RoomKeptInv ==
  ASSUME IInv, NEW p \in Procs, ProcStep(p)
  PROVE  RoomKept'
<1> USE DEF IInv
<1> DEFINE Room(q) ==
      /\ pc[q] \in {"count", "insert"} => req[q].token \notin InSlot(View(q))
      /\ pc[q] = "insert" => Used(q) < maxSlots
      /\ pc[q] = "commit" /\ req[q].op \in KeyedOps /\ dev[req[q].token] = Free
           /\ req[q].token \in InSlot(View(q))
           => Used(q) <= maxSlots
<1>1. ASSUME NEW q \in Procs \ {p} PROVE Room(q)'
  <2>1. pc'[q] = pc[q] /\ req'[q] = req[q] /\ wr'[q] = wr[q]
    BY OthersStay
  <2>2. CASE pc[q] \in {"count", "insert"} \/ (pc[q] = "commit" /\ req[q].op \in KeyedOps)
    <3>1. keyLock = q /\ status = "active"
      BY <2>2 DEF KeyHeld, Judging
    <3>2. InSlot(View(q))' \subseteq InSlot(View(q))
      BY <3>1, RosterShrinks
    <3>3. maxSlots' = maxSlots /\ maxSlots \in Nat
      BY <3>1, KeyRowStays, LimitsAssumption DEF TypeOK
    <3>4. req[q] \in Requests /\ req[q].op \in KeyedOps
      BY <2>2 DEF TypeOK, StatementsMatchRequest
    <3>5. req[q].token \in Tokens
      BY <3>4, RequestFields
    <3>6. /\ Used(q)' <= Used(q)
          /\ Used(q) \in Nat /\ Used(q)' \in Nat
      <4>1. InSlot(View(q)) \in SUBSET Tokens /\ InSlot(View(q))' \in SUBSET Tokens
        BY DEF InSlot
      <4>2. QED
        BY <3>2, <3>5, <4>1, UsedBounds DEF Used
    <3>7. Room(q)
      BY DEF RoomKept
    <3>8. ASSUME dev'[req[q].token] = Free, req[q].token \in InSlot(View(q))',
                 dev[req[q].token] # Free
          PROVE  FALSE
      <4>1. wr[q][req[q].token] # Clean
        BY <2>1, <3>5, <3>8 DEF InSlot, View
      <4>2. wr[p][req[q].token] = Clean
        BY <3>5, <4>1 DEF RowsHeld
      <4>3. ~Commit(p)
        BY <3>5, <3>8, <4>2 DEF Commit, NewRoster, View
      <4>4. QED
        BY <3>8, <4>3, OnlyCommitPublishes
    <3>9. QED
      BY <2>1, <3>2, <3>3, <3>6, <3>7, <3>8
  <2>3. QED
    BY <2>1, <2>2
<1>2. Room(p)'
  <2> USE DEF TypeOK, At, Goto
  <2>1. ASSUME pc'[p] \notin {"count", "insert", "commit"} PROVE Room(p)'
    BY <2>1
  <2>2. ASSUME NEW code, Abort(p, code) PROVE Room(p)'
    BY <2>2 DEF Abort, Answer
  <2>3. ASSUME NEW r \in Requests, Receive(p, r) PROVE Room(p)'
    BY <2>3 DEF Receive, FirstStatement
  <2>4. ASSUME pc'[p] = "commit", req' = req, pc[p] \in {"after", "write", "delkey"}
        PROVE  Room(p)'
    BY <2>4 DEF StatementsMatchRequest, DeviceOps, KeyOps, KeyedOps
  <2>5. ASSUME UNCHANGED <<dev, wr>>
        PROVE  View(p)' = View(p) /\ InSlot(View(p))' = InSlot(View(p)) /\ Used(p)' = Used(p)
    <3>1. View(p)' = View(p)
      BY <2>5 DEF View
    <3>2. QED
      BY <3>1 DEF InSlot, Used
  <2>6. ASSUME ~ \E code : Abort(p, code), GetDevice(p) PROVE Room(p)'
    <3>1. /\ UNCHANGED <<dev, wr, req>>
          /\ pc'[p] = "count" => req[p].token \notin InSlot(View(p))
          /\ pc'[p] \in {"touch", "count"}
      BY <2>6 DEF GetDevice
    <3>2. QED
      BY <2>5, <3>1
  <2>7. ASSUME ~ \E code : Abort(p, code), CountDevices(p) PROVE Room(p)'
    <3>1. /\ UNCHANGED <<dev, wr, req, maxSlots>>
          /\ pc[p] = "count" /\ pc'[p] = "insert" /\ Used(p) < loc[p].max
      BY <2>7 DEF CountDevices
    <3>2. loc[p].max = maxSlots /\ req[p].token \notin InSlot(View(p))
      BY <3>1 DEF KeyHeld, RoomKept, Judging
    <3>3. QED
      BY <2>5, <3>1, <3>2
  <2>8. ASSUME TouchDevice(p) PROVE Room(p)'
    <3>1. pc[p] = "touch" /\ pc'[p] = "commit" /\ UNCHANGED <<dev, req, maxSlots>>
      BY <2>8 DEF TouchDevice
    <3>2. req[p].token \in Tokens
      BY <3>1, RequestFields DEF StatementsMatchRequest
    <3>3. wr[p][req[p].token] \in {Clean, Free}
      BY <3>1, <3>2 DEF RowsHeld
    <3>4. ASSUME dev[req[p].token] = Free PROVE req[p].token \notin InSlot(View(p))'
      <4>1. req[p].token \notin InSlot(View(p))
        BY <3>3, <3>4 DEF InSlot, View
      <4>2. UNCHANGED <<dev, wr>>
        BY <2>8, <4>1 DEF TouchDevice
      <4>3. QED
        BY <2>5, <4>1, <4>2
    <3>5. QED
      BY <3>1, <3>4
  <2>9. ASSUME ~ \E code : Abort(p, code), InsertDevice(p) PROVE Room(p)'
    <3>1. /\ pc[p] = "insert" /\ pc'[p] = "commit" /\ UNCHANGED <<dev, req, maxSlots>>
          /\ wr' = [wr EXCEPT ![p][req[p].token] = req[p].fp]
      BY <2>9 DEF InsertDevice
    <3>2. req[p].token \in Tokens
      BY <3>1, RequestFields DEF StatementsMatchRequest
    <3>3. InSlot(View(p))' \subseteq InSlot(View(p)) \cup {req[p].token}
      BY <3>1 DEF InSlot, View, Writes
    <3>4. /\ Used(p)' <= Used(p) + 1
          /\ Used(p) \in Nat /\ Used(p)' \in Nat
      <4>1. InSlot(View(p)) \in SUBSET Tokens /\ InSlot(View(p))' \in SUBSET Tokens
        BY DEF InSlot
      <4>2. QED
        BY <3>2, <3>3, <4>1, UsedBounds DEF Used
    <3>5. Used(p) < maxSlots /\ maxSlots \in Nat
      BY <3>1, LimitsAssumption DEF RoomKept
    <3>6. QED
      BY <3>1, <3>4, <3>5
  <2>10. ASSUME ~ \E code : Abort(p, code), Step(p) PROVE Room(p)'
    <3>1. CASE GetKeyForUpdate(p) \/ CheckEntitled(p) \/ Evict(p) \/ SignCert(p)
                 \/ CountBefore(p) \/ DeleteDevice(p) \/ ResolveKey(p) \/ Commit(p)
      BY <2>1, <2>10, <3>1
      DEF GetKeyForUpdate, CheckEntitled, Evict, SignCert, Answer,
          CountBefore, DeleteDevice, ResolveKey, Commit
    <3>2. CASE ScanDevices(p) \/ PurgeDevice(p)
      BY <2>1, <3>2 DEF ScanDevices, PurgeDevice, NextRow
    <3>3. CASE CountAfter(p) \/ UpdateKeyRow(p) \/ DeleteKeyRow(p)
      BY <2>4, <2>10, <3>3 DEF CountAfter, UpdateKeyRow, DeleteKeyRow
    <3>4. QED
      BY <2>6, <2>7, <2>8, <2>9, <2>10, <3>1, <3>2, <3>3 DEF Step
  <2>11. QED
    BY <2>2, <2>3, <2>10 DEF ProcStep, Fail, DeadlockVictim
<1>3. QED
  BY <1>1, <1>2 DEF RoomKept

-----------------------------------------------------------------------------
(* The inductive invariant.                                                *)

LEMMA ProcStepType ==
  ASSUME IInv, NEW p \in Procs, ProcStep(p)
  PROVE  TypeOK'
<1> USE DEF IInv
<1>1. ASSUME NEW r \in Requests, Receive(p, r) PROVE TypeOK'
  <2>1. r # None /\ r.op \in KeyedOps \cup DeviceOps \cup KeyOps \cup {"DeleteKey"}
    BY RequestFields
  <2>2. QED
    BY <1>1, <2>1
    DEF Receive, FirstStatement, Goto, TypeOK, Labels, InTx, Codes
<1>2. CASE Fail(p) \/ DeadlockVictim(p)
  BY <1>2, AbortType DEF Fail, DeadlockVictim, Codes
<1>3. QED
  BY <1>1, <1>2, StepType DEF ProcStep

LEMMA InitIInv == Init => IInv
<1> SUFFICES ASSUME Init PROVE IInv
  OBVIOUS
<1>1. \A p \in Procs : pc[p] = "idle" /\ wr[p] = [t \in Tokens |-> Clean]
  BY DEF Init, NoWrites
<1>2. StatementsMatchRequest /\ KeyHeld /\ RowsHeld /\ RoomKept
  BY <1>1 DEF StatementsMatchRequest, KeyHeld, RowsHeld, RoomKept, Judging
<1>3. QED
  BY <1>2, InitType DEF IInv

LEMMA NextIInv == IInv /\ [Next]_vars => IInv'
<1>1. ASSUME IInv, UNCHANGED vars PROVE IInv'
  <2>1. \A p \in Procs : View(p)' = View(p)
    BY <1>1 DEF vars, View
  <2>2. \A p \in Procs : InSlot(View(p))' = InSlot(View(p)) /\ Used(p)' = Used(p)
    BY <2>1 DEF InSlot, Used
  <2>3. RoomKept'
    BY <1>1, <2>2 DEF IInv, RoomKept, vars
  <2>4. TypeOK' /\ StatementsMatchRequest' /\ KeyHeld' /\ RowsHeld'
    BY <1>1 DEF IInv, TypeOK, StatementsMatchRequest, KeyHeld, RowsHeld, vars
  <2>5. QED
    BY <2>3, <2>4 DEF IInv
<1>2. ASSUME IInv, NEW p \in Procs, ProcStep(p) PROVE IInv'
  BY <1>2, ProcStepType, StatementsInv, KeyHeldInv, RowsHeldInv, RoomKeptInv DEF IInv
<1>3. QED
  BY <1>1, <1>2, NextIsProcStep

\* The invariant that carries the discipline: whoever has read the key row under
\* its lock keeps the lock to COMMIT (GetKeyForUpdate in activation.go), a device
\* row has one uncommitted writer, and the room that the count saw remains.
THEOREM Invariance == Spec => []IInv
  BY InitIInv, NextIInv, PTL DEF Spec

\* The variables keep their types.
THEOREM TypeCorrect == Spec => []TypeOK
<1>1. IInv => TypeOK
  BY DEF IInv
<1>2. QED
  BY <1>1, Invariance, PTL

-----------------------------------------------------------------------------
(* What follows for the requests.                                          *)

\* The insert of occupySlot never meets the unique index on (key_hash,
\* device_token): no other transaction has or is about to commit a row for it.
THEOREM UniqueIndexNeverFires == Spec => []NoDoubleInsert
<1>1. IInv => NoDoubleInsert
  <2> SUFFICES ASSUME IInv, NEW p \in Procs, pc[p] = "insert"
               PROVE  /\ req[p].token \notin InSlot(View(p))
                      /\ \A q \in Procs \ {p} : wr[q][req[p].token] \notin Fingerprints
    BY DEF NoDoubleInsert
  <2> USE DEF IInv
  <2>1. req[p].token \notin InSlot(View(p))
    BY DEF RoomKept
  <2>2. req[p].token \in Tokens
    BY RequestFields DEF TypeOK, StatementsMatchRequest
  <2>3. keyLock = p
    BY DEF KeyHeld, Judging
  <2>4. ASSUME NEW q \in Procs \ {p}, wr[q][req[p].token] \in Fingerprints PROVE FALSE
    <3>1. wr[q][req[p].token] \notin {Free, Clean}
      BY <2>4, RowAssumption
    <3>2. pc[q] = "commit" /\ req[q].op \in KeyedOps
      BY <2>2, <3>1 DEF RowsHeld
    <3>3. keyLock = q
      BY <3>2 DEF KeyHeld
    <3>4. QED
      BY <2>3, <3>3
  <2>5. QED
    BY <2>1, <2>4
<1>2. QED
  BY <1>1, Invariance, PTL

\* A request that is refused changes nothing: the eviction occupySlot began
\* with is undone when the roster is full without it.
THEOREM RefusalsLeaveNoTrace == Spec => RefusalLeavesNoTrace
<1> DEFINE NoTrace ==
      \A p \in Procs :
        reply'[p].code \in {"key_not_found", "key_revoked", "already_entitled", "slot_limit"}
          /\ reply'[p] # reply[p]
        => UNCHANGED Committed
<1>1. ASSUME IInv, NEW p \in Procs, ProcStep(p) PROVE NoTrace
  <2>1. CASE ~Commit(p)
    BY <1>1, <2>1, OnlyCommitPublishes
  <2>2. CASE Commit(p)
    <3>1. \/ reply' = reply
          \/ reply' = [reply EXCEPT ![p] = [code |-> "ok", released |-> loc[p].released]]
      BY <2>2 DEF Commit, Answer
    <3>2. reply \in [Procs -> [code : Codes, released : BOOLEAN]]
      BY <1>1 DEF IInv, TypeOK
    <3>3. QED
      BY <3>1, <3>2
  <2>3. QED
    BY <2>1, <2>2
<1>2. IInv /\ [Next]_vars => [NoTrace]_vars
  BY <1>1, NextIsProcStep
<1>3. QED
  BY <1>2, Invariance, PTL DEF Spec, RefusalLeavesNoTrace

\* A device row goes only with the COMMIT of the Deactivate or KickDevice of its
\* token, of the Activate that names it as evict_token, or of DeleteKey.
THEOREM SlotsAreLostByName == Spec => SlotLostOnlyByName
<1> DEFINE ByName ==
      \A t \in InSlot(dev) \ InSlot(dev') : \E p \in Procs :
        /\ pc[p] = "commit" /\ pc'[p] # "commit"
        /\ \/ req[p].op \in DeviceOps /\ req[p].token = t
           \/ req[p].op = "Activate" /\ req[p].evict = t
           \/ req[p].op = "DeleteKey"
<1>1. ASSUME IInv, NEW p \in Procs, ProcStep(p) PROVE ByName
  <2>1. CASE ~Commit(p)
    BY <1>1, <2>1, OnlyCommitPublishes
  <2>2. CASE Commit(p)
    <3>1. pc[p] = "commit" /\ pc'[p] # "commit"
      BY <1>1, <2>2 DEF Commit, At, Answer, Goto, IInv, TypeOK
    <3>2. ASSUME NEW t \in InSlot(dev) \ InSlot(dev') PROVE wr[p][t] = Free
      BY <2>2, <3>2 DEF Commit, NewRoster, View, InSlot
    <3>3. QED
      BY <1>1, <3>1, <3>2, RowAssumption DEF IInv, RowsHeld, InSlot
  <2>3. QED
    BY <2>1, <2>2
<1>2. IInv /\ [Next]_vars => [ByName]_vars
  BY <1>1, NextIsProcStep
<1>3. QED
  BY <1>2, Invariance, PTL DEF Spec, SlotLostOnlyByName

\* Without DeleteKey no requests deadlock.  A request that waits for a row waits
\* for one that holds the key row, so a ring would be that one waiting for itself.
THEOREM DeadlockTakesDeleteKey == Spec => []DeadlockNeedsDeleteKey
<1>1. IInv => DeadlockNeedsDeleteKey
  <2> SUFFICES ASSUME IInv, NEW S \in SUBSET Procs, Ring(S),
                      \A p \in S : req[p].op # "DeleteKey"
               PROVE  FALSE
    BY DEF DeadlockNeedsDeleteKey
  <2> USE DEF IInv
  <2>1. ASSUME NEW p \in S
        PROVE  /\ pc[p] \in {"lock", "write", "evict", "delete", "touch", "insert"}
               /\ WaitsFor(p) # {} /\ WaitsFor(p) \subseteq S
    <3>1. WaitsFor(p) # {} /\ WaitsFor(p) \subseteq S
      BY DEF Ring
    <3>2. pc[p] \in {"lock", "write", "delkey", "evict", "delete", "touch", "insert", "purge"}
      BY <3>1 DEF WaitsFor
    <3>3. QED
      BY <3>1, <3>2 DEF StatementsMatchRequest
  <2>2. ASSUME NEW q \in S, NEW t \in Tokens, wr[q][t] # Clean PROVE keyLock = q
    <3>1. pc[q] \in {"touch", "insert"}
      BY <2>1, <2>2 DEF RowsHeld
    <3>2. QED
      BY <3>1 DEF KeyHeld, Judging
  <2>3. ASSUME NEW p \in S, NEW q \in WaitsFor(p) PROVE q = keyLock /\ q # p
    <3>1. CASE pc[p] \in {"lock", "write"}
      BY <3>1 DEF WaitsFor
    <3>2. CASE pc[p] \in {"evict", "delete", "touch", "insert"}
      <4>1. PICK t : q \in RowHolders(p, t) \cup KeyHolders(p, t)
                     /\ (pc[p] = "evict" => t = req[p].evict)
                     /\ (pc[p] # "evict" => t = req[p].token)
        BY <3>2 DEF WaitsFor
      <4>2. req[p] \in Requests
        BY <3>2 DEF TypeOK
      <4>3. t \in Tokens
        BY <3>2, <4>1, <4>2, RequestFields DEF StatementsMatchRequest
      <4>4. q # p /\ wr[q][t] # Clean
        BY <4>1 DEF RowHolders, KeyHolders
      <4>5. q \in S
        BY <2>1
      <4>6. QED
        BY <2>2, <4>3, <4>4, <4>5
    <3>3. QED
      BY <2>1, <3>1, <3>2
  <2>4. PICK p \in S : TRUE
    BY DEF Ring
  <2>5. keyLock \in S
    BY <2>1, <2>3
  <2>6. QED
    BY <2>1, <2>3, <2>5
<1>2. QED
  BY <1>1, Invariance, PTL

-----------------------------------------------------------------------------
(* The transactions implement the slot ledger.                             *)

USE DEF Ledger!vars

\* The two specifications count alike.
LEMMA SameCardinality ==
  ASSUME NEW S
  PROVE  Ledger!Cardinality(S) = Cardinality(S)
  BY DEF Ledger!Cardinality, Cardinality

\* What the writes of a transaction make of the roster when it commits.
LEMMA RosterAtCommit ==
  ASSUME IInv, NEW p \in Procs, NEW t \in Tokens,
         NEW E, E = {u \in Tokens : wr[p][u] = Free},
         \A u \in Tokens \ {t} : wr[p][u] \in {Free, Clean}
  PROVE  /\ wr[p][t] \in {Free, Clean} => View(p) = Ledger!Without(dev, E)
         /\ wr[p][t] \notin {Free, Clean} =>
              /\ View(p) = [Ledger!Without(dev, E) EXCEPT ![t] = wr[p][t]]
              /\ t \notin E
  BY RowAssumption DEF IInv, TypeOK, View, Ledger!Without

\* COMMIT of an activation: the device keeps its slot, gets one, or has missed it.
LEMMA ActivationCommits ==
  ASSUME IInv, NEW p \in Procs, Commit(p), req[p].op \in KeyedOps
  PROVE  Ledger!Next
<1> USE DEF IInv
<1> DEFINE token == req[p].token
           E == {t \in Tokens : wr[p][t] = Free}
<1>1. pc[p] = "commit" /\ req[p] \in Requests
  BY DEF Commit, At, TypeOK
<1>2. token \in Tokens /\ req[p].evict \in Tokens \cup {None}
  BY <1>1, RequestFields
<1>3. /\ status = "active"
      /\ status' = status /\ maxSlots' = maxSlots /\ dev' = View(p)
  BY <1>1 DEF Commit, NewStatus, NewMaxSlots, NewRoster, KeyHeld, KeyedOps
<1>4. E \in Ledger!AtMostOne
  <2>1. E \subseteq {req[p].evict}
    BY RowAssumption DEF RowsHeld, KeyedOps, DeviceOps
  <2>2. QED
    BY <1>2, <2>1 DEF Ledger!AtMostOne
<1>5. \A t \in Tokens \ {token} : wr[p][t] \in {Free, Clean}
  BY DEF RowsHeld
<1>6. wr[p][token] \in Fingerprints \cup {Free, Clean}
  BY <1>2 DEF TypeOK, Writes
<1>7. CASE wr[p][token] \in {Free, Clean}
  <2>1. dev' = Ledger!Without(dev, E)
    BY <1>2, <1>3, <1>5, <1>7, RosterAtCommit
  <2>2. Ledger!Miss(E)
    BY <1>3, <2>1 DEF Ledger!Miss
  <2>3. QED
    BY <1>4, <2>2 DEF Ledger!Next
<1>8. CASE wr[p][token] \notin {Free, Clean}
  <2> DEFINE f == wr[p][token]
  <2>1. dev' = [Ledger!Without(dev, E) EXCEPT ![token] = f] /\ token \notin E
    <3>1. token \in Tokens /\ f \notin {Free, Clean}
      BY <1>2, <1>8
    <3>2. E = {u \in Tokens : wr[p][u] = Free}
      OBVIOUS
    <3> HIDE DEF E
    <3>3. View(p) = [Ledger!Without(dev, E) EXCEPT ![token] = f] /\ token \notin E
      BY <1>5, <3>1, <3>2, RosterAtCommit
    <3>4. QED
      BY <1>3, <3>3
  <2>2. f \in Fingerprints
    BY <1>6, <1>8
  <2>3. CASE dev[token] # Free
    <3>1. Ledger!Heartbeat(token, f, E)
      BY <1>2, <1>3, <2>1, <2>3 DEF Ledger!Heartbeat, Ledger!InSlot
    <3>2. QED
      BY <1>2, <1>4, <2>2, <3>1 DEF Ledger!Next
  <2>4. CASE dev[token] = Free
    <3>1. token \in InSlot(View(p))
      BY <1>2, <1>8 DEF InSlot, View
    <3>2. Used(p) <= maxSlots
      BY <1>1, <2>4, <3>1 DEF RoomKept
    <3>3. Ledger!InSlot(dev') = InSlot(View(p))
      BY <1>3 DEF Ledger!InSlot, InSlot
    <3>4. Ledger!Cardinality(Ledger!InSlot(dev')) <= maxSlots
      BY <3>2, <3>3, SameCardinality DEF Used
    <3>5. token \notin Ledger!InSlot(Ledger!Without(dev, E))
      BY <1>2, <2>4 DEF Ledger!InSlot, Ledger!Without
    <3>6. Ledger!Admit(token, f, E)
      BY <1>3, <2>1, <3>4, <3>5 DEF Ledger!Admit
    <3>7. QED
      BY <1>2, <1>4, <2>2, <3>6 DEF Ledger!Next
  <2>5. QED
    BY <2>3, <2>4
<1>9. QED
  BY <1>7, <1>8

\* COMMIT of the other requests.
LEMMA OthersCommit ==
  ASSUME IInv, NEW p \in Procs, Commit(p), req[p].op \notin KeyedOps
  PROVE  [Ledger!Next]_(Ledger!vars)
<1> USE DEF IInv
<1> DEFINE E == {t \in Tokens : wr[p][t] = Free}
<1>1. pc[p] = "commit" /\ req[p] \in Requests
  BY DEF Commit, At, TypeOK
<1>2. dev' = View(p) /\ status' = NewStatus(p) /\ maxSlots' = NewMaxSlots(p)
  BY DEF Commit, NewRoster
<1>3. \A t \in Tokens : wr[p][t] \in {Free, Clean}
  BY DEF RowsHeld
<1>4. View(p) = Ledger!Without(dev, E)
  BY <1>3, RowAssumption DEF TypeOK, View, Ledger!Without
<1>5. CASE req[p].op \in DeviceOps
  <2>1. req[p].token \in Tokens
    BY <1>1, <1>5, RequestFields
  <2>2. status' = status /\ maxSlots' = maxSlots
    BY <1>2, <1>5 DEF NewStatus, NewMaxSlots, DeviceOps
  <2>3. E \subseteq {req[p].token}
    BY <1>5, RowAssumption DEF RowsHeld, DeviceOps
  <2>4. CASE E = {req[p].token}
    <3>1. Ledger!Release(req[p].token)
      BY <1>2, <1>4, <2>2, <2>4 DEF Ledger!Release
    <3>2. QED
      BY <2>1, <3>1 DEF Ledger!Next
  <2>5. CASE E = {}
    <3>1. dev' = dev
      BY <1>2, <1>4, <2>5 DEF Ledger!Without, TypeOK
    <3>2. QED
      BY <2>2, <3>1
  <2>6. QED
    BY <2>3, <2>4, <2>5
<1>6. CASE req[p].op \in KeyOps
  <2>1. E = {}
    BY <1>6, RowAssumption DEF RowsHeld, KeyOps, DeviceOps
  <2>2. dev' = dev
    BY <1>2, <1>4, <2>1 DEF Ledger!Without, TypeOK
  <2>3. status # "deleted"
    BY <1>1, <1>6 DEF KeyHeld
  <2>4. CASE req[p].op = "UpdateKey"
    <3>1. req[p].slots \in SlotLimits
      BY <1>1, <2>4, RequestFields
    <3>2. Ledger!SetSlots(req[p].slots)
      BY <1>2, <2>2, <2>3, <2>4 DEF Ledger!SetSlots, NewStatus, NewMaxSlots
    <3>3. QED
      BY <3>1, <3>2 DEF Ledger!Next
  <2>5. CASE req[p].op = "RevokeKey"
    <3>1. Ledger!SetStatus("revoked")
      BY <1>2, <2>2, <2>3, <2>5 DEF Ledger!SetStatus, NewStatus, NewMaxSlots
    <3>2. QED
      BY <3>1 DEF Ledger!Next
  <2>6. CASE req[p].op = "UnrevokeKey"
    <3>1. Ledger!SetStatus("active")
      BY <1>2, <2>2, <2>3, <2>6 DEF Ledger!SetStatus, NewStatus, NewMaxSlots
    <3>2. QED
      BY <3>1 DEF Ledger!Next
  <2>7. QED
    BY <1>6, <2>4, <2>5, <2>6 DEF KeyOps
<1>7. CASE req[p].op = "DeleteKey"
  <2>1. Ledger!Erase(E)
    BY <1>2, <1>4, <1>7 DEF Ledger!Erase, NewStatus, NewMaxSlots
  <2>2. QED
    BY <2>1 DEF Ledger!Next
<1>8. QED
  BY <1>1, <1>5, <1>6, <1>7, RequestFields

\* The statements of concurrent transactions, with their locks and aborts, amount
\* to requests that take effect one at a time: no activation enters a roster that
\* is full or a key that is revoked or gone by the time it commits.
THEOREM SlotsImplementLedger == Spec => ImplementsLedger
<1>1. Init => Ledger!Init
  BY DEF Init, Ledger!Init
<1>2. ASSUME IInv, NEW p \in Procs, ProcStep(p)
      PROVE  [Ledger!Next]_(Ledger!vars)
  <2>1. CASE ~Commit(p)
    BY <1>2, <2>1, OnlyCommitPublishes
  <2>2. CASE Commit(p)
    BY <1>2, <2>2, ActivationCommits, OthersCommit
  <2>3. QED
    BY <2>1, <2>2
<1>3. IInv /\ [Next]_vars => [Ledger!Next]_(Ledger!vars)
  BY <1>2, NextIsProcStep DEF vars
<1>4. QED
  BY <1>1, <1>3, Invariance, PTL DEF Spec, ImplementsLedger, Ledger!Spec

=============================================================================
