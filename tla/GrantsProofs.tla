----------------------------- MODULE GrantsProofs -----------------------------
(* Proofs about Grants, for every set of processes, modules and requests.   *)
EXTENDS Grants, TLAPS

Moves(p) == Step(p) \/ Fail(p) \/ DeadlockVictim(p) \/ \E r \in Requests : Receive(p, r)

-----------------------------------------------------------------------------
(* Type correctness.                                                       *)

\* The fields of a request, by its operation.
LEMMA RequestFields ==
  ASSUME NEW r \in Requests
  PROVE  /\ r.op \in {"CreateKey", "GrantModule", "RevokeModule", "DeleteKey"}
         /\ r.op = "CreateKey" => r.grants \in Seq(Grant)
         /\ r.op = "GrantModule" => r.grant \in Grant
         /\ r.op = "RevokeModule" => r.module \in Modules
         /\ r # None
  BY RequestsAssumption DEF Request

LEMMA NoLocalsType == NoLocals \in Locals /\ NoWrites \in Writes
  BY BoundsAssumption DEF NoLocals, Locals, Times, keyGenAttempts, NoWrites, Writes

\* The marks are not values.
LEMMA MarksApart ==
  /\ Never \notin Times /\ Bad \notin Times /\ Bad # Never
  /\ NoRow \notin Row /\ Clean \notin Row /\ NoRow # Clean
  BY MarksAssumption, BoundsAssumption DEF Times

\* Who runs has a request.
LEMMA RunningRequest ==
  ASSUME TypeOK, NEW p \in Procs, pc[p] # "idle" \/ req[p] # None
  PROVE  pc[p] # "idle" /\ req[p] # None /\ req[p] \in Requests /\ Running(p)
  BY DEF TypeOK, Running

LEMMA ViewType ==
  ASSUME TypeOK, NEW p \in Procs
  PROVE  View(p) \in [Modules -> Row \cup {NoRow}]
<1>1. wr[p] \in Writes
  BY DEF TypeOK
<1>2. \A m \in Modules : wr[p].rows[m] \in Row \cup {NoRow, Clean} /\ ents[m] \in Row \cup {NoRow}
  BY <1>1 DEF TypeOK, Writes
<1>3. QED
  BY <1>2 DEF View

\* An upsert is for a grant of the request.
LEMMA GrantType ==
  ASSUME TypeOK, StatementsMatchRequest, NEW p \in Procs, pc[p] = "upsert"
  PROVE  TheGrant(p) \in Grant /\ TheGrant(p).module \in Modules
<1>1. req[p] \in Requests /\ Writer(req[p])
  BY RunningRequest DEF StatementsMatchRequest
<1>2. loc[p].next \in Nat \ {0}
  BY DEF TypeOK, Locals
<1>3. CASE req[p].op = "GrantModule"
  BY <1>1, <1>3, RequestFields DEF TheGrant, Grant
<1>4. CASE req[p].op = "CreateKey"
  <2>1. req[p].grants \in Seq(Grant) /\ loc[p].next <= Len(req[p].grants)
    BY <1>1, <1>4, RequestFields DEF StatementsMatchRequest
  <2>2. loc[p].next \in 1 .. Len(req[p].grants)
    BY <1>2, <2>1
  <2>3. req[p].grants[loc[p].next] \in Grant
    BY <2>1, <2>2
  <2>4. QED
    BY <1>4, <2>3 DEF TheGrant, Grant
<1>5. QED
  BY <1>1, <1>3, <1>4 DEF Writer

\* The row an upsert writes: perpetual and unknown grants that carry an end, and
\* others that do not, have no expiry to write.
LEMMA RowType ==
  ASSUME NEW g \in Grant, NEW c \in Times \cup {Never}, NEW n \in Times,
         Expiry(g, c, n) \in Times \cup {Never}
  PROVE  /\ [kind |-> g.kind, expires |-> Expiry(g, c, n)] \in Row
         /\ g.kind = "perpetual" <=> Expiry(g, c, n) = Never
         /\ g.days > 0 => Expiry(g, c, n) = Later(c, n) + g.days
<1>1. g.kind \in Kinds \cup {"unknown"} /\ g.days \in Nat /\ g.until \in Times \cup {None}
  BY DEF Grant
<1>2. Later(c, n) + g.days \in Nat /\ Later(c, n) + g.days # Never
  <2>1. Later(c, n) \in Nat
    BY BoundsAssumption DEF Later, Times
  <2>2. QED
    BY <1>1, <2>1, MarksAssumption
<1>3. g.until # None => g.until \in Times /\ g.until # Never
  BY <1>1, MarksApart
<1>4. CASE g.days > 0 /\ g.until # None
  BY <1>4, MarksApart DEF Expiry
<1>5. CASE g.kind = "perpetual" /\ g.days = 0 /\ g.until = None
  BY <1>1, <1>5 DEF Expiry, Row, Kinds
<1>6. CASE g.kind \in {"subscription", "trial"} /\ g.days = 0 /\ g.until # None
  BY <1>1, <1>3, <1>6 DEF Expiry, Row, Kinds
<1>7. CASE g.kind \in {"subscription", "trial"} /\ g.days > 0 /\ g.until = None
  BY <1>1, <1>2, <1>7 DEF Expiry, Row, Kinds
<1>8. CASE /\ ~(g.days > 0 /\ g.until # None)
           /\ ~(g.kind = "perpetual" /\ g.days = 0 /\ g.until = None)
           /\ ~(g.kind \in {"subscription", "trial"} /\ g.days = 0 /\ g.until # None)
           /\ ~(g.kind \in {"subscription", "trial"} /\ g.days > 0 /\ g.until = None)
  BY <1>8, MarksApart DEF Expiry
<1>9. QED
  BY <1>4, <1>5, <1>6, <1>7, <1>8

LEMMA TheRowType ==
  ASSUME TypeOK, StatementsMatchRequest, NEW p \in Procs, pc[p] = "upsert",
         TheExpiry(p) \in Times \cup {Never}
  PROVE  /\ TheRow(p) \in Row
         /\ TheRow(p).kind = TheGrant(p).kind /\ TheRow(p).expires = TheExpiry(p)
         /\ TheRow(p).kind = "perpetual" <=> TheRow(p).expires = Never
<1>1. loc[p].current \in Times \cup {Never} /\ loc[p].now \in Times
  BY DEF TypeOK, Locals
<1>2. TheGrant(p) \in Grant
  BY GrantType
<1>3. /\ [kind |-> TheGrant(p).kind, expires |-> TheExpiry(p)] \in Row
      /\ TheGrant(p).kind = "perpetual" <=> TheExpiry(p) = Never
  BY <1>1, <1>2, RowType DEF TheExpiry
<1>4. QED
  BY <1>3 DEF TheRow

\* What a handler notes between statements keeps its locals well formed.
LEMMA LocalsUpdate ==
  ASSUME NEW l \in Locals, NEW n \in Times, NEW c \in Times \cup {Never},
         NEW todo \in SUBSET Modules, NEW t \in Modules \cup {None}, NEW gone \in SUBSET Modules
  PROVE  /\ [l EXCEPT !.now = n] \in Locals
         /\ [l EXCEPT !.attempt = 1] \in Locals
         /\ [l EXCEPT !.current = c] \in Locals
         /\ [l EXCEPT !.next = @ + 1] \in Locals
         /\ [l EXCEPT !.todo = @ \ gone] \in Locals
         /\ [l EXCEPT !.todo = todo, !.target = t, !.dead = @ \cup gone] \in Locals
<1>1. /\ l.next + 1 \in Nat \ {0} /\ l.todo \ gone \in SUBSET Modules
      /\ l.dead \cup gone \in SUBSET Modules /\ 1 \in 0 .. keyGenAttempts
  BY DEF Locals, keyGenAttempts
<1>2. QED
  BY <1>1 DEF Locals

\* What a write makes of the uncommitted rows.
LEMMA WritesUpdate ==
  ASSUME NEW w \in Writes, NEW m \in Modules, NEW row \in Row, NEW gone \in SUBSET Modules
  PROVE  /\ [w EXCEPT !.rows[m] = row] \in Writes
         /\ [w EXCEPT !.key = "inserted"] \in Writes
         /\ [w EXCEPT !.key = "deleted"] \in Writes
         /\ [w EXCEPT !.rows = [n \in Modules |-> IF n \in gone THEN NoRow ELSE @[n]]] \in Writes
  BY DEF Writes

LEMMA AbortType ==
  ASSUME TypeOK, NEW p \in Procs, Abort(p)
  PROVE  TypeOK'
  BY NoLocalsType DEF Abort, Forget, Goto, Tables, TypeOK, Labels

LEMMA ReceiveType ==
  ASSUME TypeOK, NEW p \in Procs, NEW r \in Requests, Receive(p, r)
  PROVE  TypeOK'
<1>1. clock \in Times /\ loc[p] \in Locals
  BY BoundsAssumption DEF TypeOK, Times
<1>2. [loc[p] EXCEPT !.now = clock] \in Locals
  BY <1>1, LocalsUpdate DEF Locals
<1>3. loc' \in [Procs -> Locals]
  BY <1>2 DEF Receive, TypeOK
<1>4. pc' \in [Procs -> Labels] /\ pc'[p] # "idle" /\ \A q \in Procs \ {p} : pc'[q] = pc[q]
  BY DEF Receive, Goto, TypeOK, Labels
<1>5. req' \in [Procs -> Requests \cup {None}] /\ \A q \in Procs : req'[q] = None <=> pc'[q] = "idle"
  BY <1>4, RequestsAssumption DEF Receive, TypeOK
<1>6. QED
  BY <1>3, <1>4, <1>5 DEF Receive, Tables, history, TypeOK

LEMMA CommitType ==
  ASSUME TypeOK, NEW p \in Procs, Commit(p)
  PROVE  TypeOK'
<1>1. ents' \in [Modules -> Row \cup {NoRow}] /\ key' \in BOOLEAN
  BY ViewType DEF Commit
<1>2. loc' \in [Procs -> Locals]
  <2>1. loc[p] \in Locals
    BY DEF TypeOK
  <2>2. loc[p].dead \in SUBSET Modules
    BY <2>1 DEF Locals
  <2>3. ASSUME NEW q \in Procs PROVE [loc[q] EXCEPT !.todo = @ \ loc[p].dead] \in Locals
    <3>1. loc[q] \in Locals
      BY DEF TypeOK
    <3>2. QED
      BY <2>2, <3>1, LocalsUpdate DEF Locals
  <2>4. QED
    BY <2>3, NoLocalsType DEF Commit
<1>3. wr' \in [Procs -> Writes]
  BY NoLocalsType DEF Commit, TypeOK
<1>4. /\ superseded' \in SUBSET Procs /\ late' \in SUBSET Procs
      /\ unseen' \in [Procs -> SUBSET Modules] /\ stray' \in SUBSET Modules
  <2>1. superseded' \in SUBSET Procs /\ late' \in SUBSET Procs
    BY DEF Commit, TypeOK
  <2>2. unseen' \in [Procs -> SUBSET Modules]
    BY DEF Commit, Fresh, TypeOK
  <2>3. StraysAfter(p) \in SUBSET Modules
    BY DEF StraysAfter, Fresh, TypeOK
  <2>4. QED
    BY <2>1, <2>2, <2>3 DEF Commit
<1>5. /\ pc' \in [Procs -> Labels] /\ req' \in [Procs -> Requests \cup {None}]
      /\ \A q \in Procs : req'[q] = None <=> pc'[q] = "idle"
  BY DEF Commit, At, Goto, TypeOK, Labels
<1>6. QED
  BY <1>1, <1>2, <1>3, <1>4, <1>5 DEF Commit, TypeOK

\* A DELETE goes to a row it has seen, or on.
LEMMA NextRowMoves ==
  ASSUME TypeOK, NEW p \in Procs, NEW rows \in SUBSET Modules, NEW gone \in SUBSET Modules,
         NextRow(p, rows, gone)
  PROVE  /\ loc' \in [Procs -> Locals] /\ \A q \in Procs \ {p} : loc'[q] = loc[q]
         /\ loc'[p].todo = rows /\ loc'[p].dead = loc[p].dead \cup gone
         /\ loc'[p].current = loc[p].current /\ loc'[p].now = loc[p].now
         /\ loc'[p].next = loc[p].next
         /\ rows # {} => loc'[p].target \in rows
         /\ pc' = [pc EXCEPT ![p] = CASE rows # {} -> "purge"
                                      [] rows = {} /\ req[p].op = "DeleteKey" -> "delkey"
                                      [] OTHER -> "commit"]
<1>1. PICK m \in IF rows = {} THEN {None} ELSE rows :
        loc' = [loc EXCEPT ![p].todo = rows, ![p].target = m, ![p].dead = @ \cup gone]
  BY DEF NextRow
<1>2. loc[p] \in Locals /\ m \in Modules \cup {None}
  BY <1>1 DEF TypeOK
<1>3. [loc[p] EXCEPT !.todo = rows, !.target = m, !.dead = @ \cup gone] \in Locals
  BY <1>2, LocalsUpdate DEF Locals
<1>4. loc' = [loc EXCEPT ![p] = [loc[p] EXCEPT !.todo = rows, !.target = m, !.dead = @ \cup gone]]
  BY <1>1, <1>2 DEF TypeOK, Locals
<1>5. loc'[p] = [loc[p] EXCEPT !.todo = rows, !.target = m, !.dead = @ \cup gone]
  BY <1>4 DEF TypeOK
<1>6. QED
  BY <1>1, <1>2, <1>3, <1>4, <1>5 DEF NextRow, Goto, TypeOK, Locals

LEMMA StepType ==
  ASSUME TypeOK, StatementsMatchRequest, NEW p \in Procs, Step(p)
  PROVE  TypeOK'
<1> USE DEF TypeOK
<1>1. CASE Abort(p)
  BY <1>1, AbortType
<1>2. CASE Commit(p)
  BY <1>2, CommitType
<1>3. ASSUME req' = req, pc[p] # "idle", pc' \in [Procs -> Labels], pc'[p] # "idle",
             \A q \in Procs \ {p} : pc'[q] = pc[q],
             UNCHANGED <<Tables, history>>, loc' \in [Procs -> Locals], wr' \in [Procs -> Writes]
      PROVE  TypeOK'
  BY <1>3 DEF Tables, history
<1>4. loc[p] \in Locals /\ wr[p] \in Writes
  OBVIOUS
<1>5. CASE MintKey(p) /\ ~Abort(p)
  <2>1. [loc[p] EXCEPT !.attempt = 1] \in Locals /\ [wr[p] EXCEPT !.key = "inserted"] \in Writes
    <3>1. 1 \in 0 .. keyGenAttempts
      BY DEF keyGenAttempts
    <3>2. QED
      BY <1>4, <3>1 DEF Locals, Writes
  <2>2. QED
    BY <1>3, <1>5, <2>1 DEF MintKey, At, Goto, Labels
<1>6. CASE (ResolveKey(p) \/ DeleteKeyRow(p)) /\ ~Abort(p)
  <2>1. [wr[p] EXCEPT !.key = "deleted"] \in Writes
    BY <1>4 DEF Writes
  <2>2. QED
    BY <1>3, <1>6, <2>1 DEF ResolveKey, DeleteKeyRow, At, Goto, Labels
<1>7. CASE GetEntitlement(p)
  <2>1. req[p] \in Requests /\ req[p].op = "GrantModule" /\ req[p].grant.module \in Modules
    BY <1>7, RunningRequest, RequestFields DEF GetEntitlement, At, StatementsMatchRequest, Grant
  <2>2. View(p)[req[p].grant.module] \in Row \cup {NoRow}
    BY <2>1, ViewType
  <2>3. (IF View(p)[req[p].grant.module] = NoRow THEN Never ELSE View(p)[req[p].grant.module].expires)
          \in Times \cup {Never}
    BY <2>2 DEF Row
  <2>4. loc' \in [Procs -> Locals]
    BY <1>4, <1>7, <2>3 DEF GetEntitlement, Locals
  <2>5. QED
    BY <1>3, <1>7, <2>4 DEF GetEntitlement, At, Goto, Labels
<1>8. CASE UpsertEntitlement(p) /\ ~Abort(p)
  <2>1. pc[p] = "upsert" /\ TheExpiry(p) \in Times \cup {Never} /\ PutRow(p, TheRow(p))
    BY <1>8 DEF UpsertEntitlement, At
  <2>2. TheRow(p) \in Row /\ TheGrant(p).module \in Modules
    BY <2>1, TheRowType, GrantType
  <2>3. [wr[p] EXCEPT !.rows[TheGrant(p).module] = TheRow(p)] \in Writes
    BY <1>4, <2>2, WritesUpdate DEF Writes
  <2>4. [loc[p] EXCEPT !.next = @ + 1] \in Locals
    BY <1>4, LocalsUpdate DEF Locals
  <2>5. wr' \in [Procs -> Writes] /\ loc' \in [Procs -> Locals]
    BY <2>1, <2>3, <2>4 DEF PutRow
  <2>6. QED
    BY <1>3, <2>1, <2>5 DEF PutRow, Goto, Labels
<1>9. CASE ScanEntitlements(p)
  <2>1. PICK rows \in SUBSET Modules : NextRow(p, rows, {})
    BY <1>9 DEF ScanEntitlements, Granted
  <2>2. loc' \in [Procs -> Locals]
    BY <2>1, NextRowMoves
  <2>3. QED
    BY <1>3, <1>9, <2>1, <2>2 DEF ScanEntitlements, NextRow, At, Goto, Labels
<1>10. CASE PurgeEntitlement(p)
  <2>1. /\ loc[p].todo \ {loc[p].target} \in SUBSET Modules
        /\ loc[p].todo \cap {loc[p].target} \in SUBSET Modules
    BY <1>4 DEF Locals
  <2>2. NextRow(p, loc[p].todo \ {loc[p].target}, loc[p].todo \cap {loc[p].target})
    BY <1>10 DEF PurgeEntitlement
  <2>3. loc' \in [Procs -> Locals]
    BY <2>1, <2>2, NextRowMoves
  <2> DEFINE gone == loc[p].todo \cap {loc[p].target}
             w    == [wr[p] EXCEPT !.rows = [n \in Modules |-> IF n \in gone THEN NoRow ELSE @[n]]]
  <2>4. wr' \in [Procs -> Writes]
    <3>1. w \in Writes
      <4>1. gone \in SUBSET Modules
        BY <2>1
      <4> HIDE DEF gone
      <4>2. QED
        BY <1>4, <4>1 DEF Writes
    <3>2. wr' = [wr EXCEPT ![p] = w]
      BY <1>10 DEF PurgeEntitlement
    <3> HIDE DEF w
    <3>3. QED
      BY <3>1, <3>2
  <2>5. QED
    BY <1>3, <1>10, <2>2, <2>3, <2>4 DEF PurgeEntitlement, NextRow, At, Goto, Labels
<1>11. CASE ShowCreatedKey(p)
  BY <1>11 DEF ShowCreatedKey, Forget, Goto, Tables, Labels
<1>12. QED
  BY <1>1, <1>2, <1>5, <1>6, <1>7, <1>8, <1>9, <1>10, <1>11
  DEF Step, MintKey, ResolveKey, UpsertEntitlement

-----------------------------------------------------------------------------
(* What one step of one process changes.                                   *)

\* What an aborted request leaves.
LEMMA AbortLeaves ==
  ASSUME TypeOK, NEW p \in Procs, Abort(p)
  PROVE  /\ pc'[p] = "idle" /\ req'[p] = None /\ wr'[p] = NoWrites /\ loc'[p] = NoLocals
         /\ superseded' = superseded \ {p} /\ late' = late \ {p}
         /\ \A q \in Procs \ {p} : unseen'[q] = unseen[q]
         /\ UNCHANGED <<clock, key, ents, stray>>
  BY DEF Abort, Forget, Goto, Tables, TypeOK

\* A step of p leaves the statements, requests and writes of the others alone,
\* and their notes but for the rows its COMMIT has deleted.
LEMMA OthersStay ==
  ASSUME TypeOK, NEW p \in Procs, Moves(p), NEW q \in Procs \ {p}
  PROVE  /\ pc'[q] = pc[q] /\ req'[q] = req[q] /\ wr'[q] = wr[q]
         /\ loc'[q] = IF Commit(p) THEN [loc[q] EXCEPT !.todo = @ \ loc[p].dead] ELSE loc[q]
<1> DEFINE Stay == /\ pc'[q] = pc[q] /\ req'[q] = req[q] /\ wr'[q] = wr[q]
                   /\ loc'[q] = IF Commit(p) THEN [loc[q] EXCEPT !.todo = @ \ loc[p].dead] ELSE loc[q]
<1> USE DEF TypeOK, Goto
<1>1. CASE Commit(p)
  BY <1>1 DEF Commit
<1>2. CASE Abort(p) /\ ~Commit(p)
  BY <1>2 DEF Abort
<1>3. CASE (~Abort(p)) /\ (~Commit(p))
           /\ (MintKey(p) \/ ResolveKey(p) \/ GetEntitlement(p) \/ UpsertEntitlement(p))
  BY <1>3 DEF MintKey, ResolveKey, GetEntitlement, UpsertEntitlement, PutRow
<1>4. CASE (~Commit(p)) /\ (ScanEntitlements(p) \/ PurgeEntitlement(p))
  <2>1. PICK rows, gone : NextRow(p, rows, gone)
    BY <1>4 DEF ScanEntitlements, PurgeEntitlement
  <2>2. loc'[q] = loc[q] /\ pc'[q] = pc[q]
    BY <2>1 DEF NextRow
  <2>3. QED
    BY <1>4, <2>2 DEF ScanEntitlements, PurgeEntitlement
<1>5. CASE (~Commit(p)) /\ (DeleteKeyRow(p) \/ ShowCreatedKey(p))
  BY <1>5 DEF DeleteKeyRow, ShowCreatedKey
<1>6. CASE (~Commit(p)) /\ \E r \in Requests : Receive(p, r)
  BY <1>6 DEF Receive
<1>7. QED
  BY <1>1, <1>2, <1>3, <1>4, <1>5, <1>6 DEF Moves, Step, Fail, DeadlockVictim

LEMMA OthersNotes ==
  ASSUME TypeOK, NEW p \in Procs, Moves(p), NEW q \in Procs \ {p}
  PROVE  /\ loc'[q].now = loc[q].now /\ loc'[q].next = loc[q].next
         /\ loc'[q].current = loc[q].current /\ loc'[q].target = loc[q].target
         /\ loc'[q].dead = loc[q].dead
         /\ loc'[q].todo = IF Commit(p) THEN loc[q].todo \ loc[p].dead ELSE loc[q].todo
<1>1. loc[q] \in Locals
  BY DEF TypeOK
<1>2. QED
  BY <1>1, OthersStay DEF Locals

\* Only COMMIT writes the tables.
LEMMA TablesStay ==
  ASSUME TypeOK, NEW p \in Procs, Moves(p), ~Commit(p)
  PROVE  UNCHANGED <<clock, key, ents, stray>>
<1>1. CASE Abort(p)
  BY <1>1, AbortLeaves
<1>2. CASE ~Abort(p)
  BY <1>2 DEF Moves, Step, Fail, DeadlockVictim, Receive, MintKey, ResolveKey, GetEntitlement,
     UpsertEntitlement, PutRow, ScanEntitlements, PurgeEntitlement, DeleteKeyRow,
     ShowCreatedKey, Tables, history
<1>3. QED
  BY <1>1, <1>2

\* What COMMIT makes of the tables, and of the process.
LEMMA CommitMakes ==
  ASSUME TypeOK, NEW p \in Procs, Commit(p)
  PROVE  /\ pc[p] = "commit" /\ clock' = clock
         /\ key' = (wr[p].key = "inserted" \/ (wr[p].key = "clean" /\ key))
         /\ \A m \in Modules :
              ents'[m] = IF wr[p].rows[m] = Clean THEN ents[m] ELSE wr[p].rows[m]
         /\ wr'[p] = NoWrites /\ loc'[p] = NoLocals
         /\ \/ req[p].op = "CreateKey" /\ pc'[p] = "view" /\ req'[p] = req[p]
            \/ req[p].op # "CreateKey" /\ pc'[p] = "idle" /\ req'[p] = None
  BY DEF Commit, At, Goto, View, TypeOK

\* What an upsert, a scan and a purge make of the process.
LEMMA UpsertMakes ==
  ASSUME TypeOK, StatementsMatchRequest, NEW p \in Procs, UpsertEntitlement(p), ~Abort(p)
  PROVE  LET m == TheGrant(p).module IN
         /\ pc[p] = "upsert" /\ RowWriters(p, m) = {} /\ TheExpiry(p) \in Times \cup {Never}
         /\ m \in Modules /\ TheRow(p) \in Row
         /\ wr'[p].key = wr[p].key
         /\ wr'[p].rows = [wr[p].rows EXCEPT ![m] = TheRow(p)]
         /\ loc'[p] = [loc[p] EXCEPT !.next = @ + 1]
         /\ pc'[p] = IF LastGrant(p) THEN "commit" ELSE "upsert"
         /\ req' = req /\ UNCHANGED history
<1>1. /\ pc[p] = "upsert" /\ WaitsFor(p) = {} /\ TheExpiry(p) \in Times \cup {Never}
      /\ PutRow(p, TheRow(p))
  BY DEF UpsertEntitlement, At
<1>2. TheGrant(p).module \in Modules /\ TheRow(p) \in Row
  BY <1>1, GrantType, TheRowType
<1>3. RowWriters(p, TheGrant(p).module) = {}
  BY <1>1 DEF WaitsFor
<1>4. wr[p] \in Writes /\ loc[p] \in Locals
  BY DEF TypeOK
<1>5. wr'[p] = [wr[p] EXCEPT !.rows[TheGrant(p).module] = TheRow(p)]
  BY <1>1 DEF PutRow, TypeOK
<1>6. wr'[p].key = wr[p].key /\ wr'[p].rows = [wr[p].rows EXCEPT ![TheGrant(p).module] = TheRow(p)]
  BY <1>4, <1>5 DEF Writes
<1>7. QED
  BY <1>1, <1>2, <1>3, <1>6 DEF PutRow, Goto, TypeOK

LEMMA ScanMakes ==
  ASSUME TypeOK, NEW p \in Procs, ScanEntitlements(p)
  PROVE  LET rows == IF req[p].op = "DeleteKey" THEN Granted(p) ELSE Granted(p) \cap {req[p].module} IN
         /\ pc[p] = "scan" /\ rows \in SUBSET Modules
         /\ loc'[p].todo = rows /\ loc'[p].dead = loc[p].dead
         /\ rows # {} => loc'[p].target \in rows
         /\ pc'[p] = CASE rows # {} -> "purge"
                       [] rows = {} /\ req[p].op = "DeleteKey" -> "delkey"
                       [] OTHER -> "commit"
         /\ req' = req /\ wr' = wr /\ UNCHANGED history
<1> DEFINE rows == IF req[p].op = "DeleteKey" THEN Granted(p) ELSE Granted(p) \cap {req[p].module}
           gone == {}
<1>1. /\ pc[p] = "scan" /\ rows \in SUBSET Modules /\ gone \in SUBSET Modules
      /\ NextRow(p, rows, gone)
  BY DEF ScanEntitlements, At, Granted
<1> HIDE DEF rows, gone
<1>2. /\ loc'[p].todo = rows /\ loc'[p].dead = loc[p].dead \cup gone
      /\ rows # {} => loc'[p].target \in rows
      /\ pc' = [pc EXCEPT ![p] = CASE rows # {} -> "purge"
                                   [] rows = {} /\ req[p].op = "DeleteKey" -> "delkey"
                                   [] OTHER -> "commit"]
  BY <1>1, NextRowMoves
<1>3. QED
  BY <1>1, <1>2 DEF ScanEntitlements, TypeOK, rows, gone

LEMMA PurgeMakes ==
  ASSUME TypeOK, NEW p \in Procs, PurgeEntitlement(p)
  PROVE  LET m    == loc[p].target
             rows == loc[p].todo \ {m}
             gone == loc[p].todo \cap {m}
         IN
         /\ pc[p] = "purge" /\ rows \in SUBSET Modules /\ gone \in SUBSET Modules
         /\ m \in loc[p].todo => RowWriters(p, m) = {}
         /\ loc'[p].todo = rows /\ loc'[p].dead = loc[p].dead \cup gone
         /\ rows # {} => loc'[p].target \in rows
         /\ pc'[p] = CASE rows # {} -> "purge"
                       [] rows = {} /\ req[p].op = "DeleteKey" -> "delkey"
                       [] OTHER -> "commit"
         /\ wr'[p].key = wr[p].key
         /\ \A n \in Modules : wr'[p].rows[n] = IF n \in gone THEN NoRow ELSE wr[p].rows[n]
         /\ req' = req /\ UNCHANGED history
<1> DEFINE rows == loc[p].todo \ {loc[p].target}
           gone == loc[p].todo \cap {loc[p].target}
<1>1. loc[p] \in Locals /\ wr[p] \in Writes
  BY DEF TypeOK
<1>2. /\ pc[p] = "purge" /\ WaitsFor(p) = {} /\ rows \in SUBSET Modules
      /\ gone \in SUBSET Modules /\ NextRow(p, rows, gone)
  BY <1>1 DEF PurgeEntitlement, At, Locals
<1>3. loc[p].target \in loc[p].todo => RowWriters(p, loc[p].target) = {}
  BY <1>2 DEF WaitsFor
<1>4. wr'[p] = [wr[p] EXCEPT !.rows = [n \in Modules |-> IF n \in gone THEN NoRow ELSE @[n]]]
  BY DEF PurgeEntitlement, TypeOK
<1>5. /\ wr'[p].key = wr[p].key
      /\ \A n \in Modules : wr'[p].rows[n] = IF n \in gone THEN NoRow ELSE wr[p].rows[n]
  BY <1>1, <1>4 DEF Writes
<1> HIDE DEF rows, gone
<1>6. /\ loc'[p].todo = rows /\ loc'[p].dead = loc[p].dead \cup gone
      /\ rows # {} => loc'[p].target \in rows
      /\ pc' = [pc EXCEPT ![p] = CASE rows # {} -> "purge"
                                   [] rows = {} /\ req[p].op = "DeleteKey" -> "delkey"
                                   [] OTHER -> "commit"]
  BY <1>2, NextRowMoves
<1>7. QED
  BY <1>2, <1>3, <1>5, <1>6 DEF PurgeEntitlement, TypeOK, rows, gone

-----------------------------------------------------------------------------
(* The parts of the invariant, one step of one process at a time.          *)

LEMMA StatementsStep ==
  ASSUME TypeOK, StatementsMatchRequest, NEW p \in Procs, Moves(p)
  PROVE  StatementsMatchRequest'
<1> DEFINE Match(q) ==
      /\ pc[q] \in {"idle", "mint", "view"} => loc[q].next = 1
      /\ pc[q] \in {"mint", "view"} => req[q].op = "CreateKey"
      /\ pc[q] = "get" => req[q].op = "GrantModule"
      /\ pc[q] = "upsert" => Writer(req[q])
      /\ pc[q] = "upsert" /\ req[q].op = "CreateKey" => loc[q].next <= Len(req[q].grants)
      /\ pc[q] = "resolve" => req[q].op # "CreateKey"
      /\ pc[q] \in {"scan", "purge"} => req[q].op \in {"RevokeModule", "DeleteKey"}
      /\ pc[q] = "purge" /\ req[q].op = "RevokeModule" =>
           loc[q].target = req[q].module /\ loc[q].todo \subseteq {req[q].module}
      /\ pc[q] = "delkey" => req[q].op = "DeleteKey"
<1>1. ASSUME NEW q \in Procs \ {p} PROVE Match(q)'
  <2>1. Match(q)
    BY DEF StatementsMatchRequest
  <2>2. /\ pc'[q] = pc[q] /\ req'[q] = req[q] /\ loc'[q].next = loc[q].next
        /\ loc'[q].target = loc[q].target /\ loc'[q].todo \subseteq loc[q].todo
    BY OthersStay, OthersNotes
  <2>3. QED
    BY <2>1, <2>2 DEF Writer
<1>2. Match(p)'
  <2>1. Match(p) /\ pc[p] \in Labels /\ loc[p] \in Locals
    BY DEF StatementsMatchRequest, TypeOK
  <2>2. CASE Abort(p)
    BY <2>2, AbortLeaves DEF NoLocals
  <2>3. CASE \E r \in Requests : Receive(p, r)
    <3>1. PICK r \in Requests : Receive(p, r)
      BY <2>3
    <3>2. /\ pc[p] = "idle" /\ pc'[p] = (IF r.op = "CreateKey" THEN "mint" ELSE "resolve")
          /\ req'[p] = r /\ loc'[p].next = loc[p].next
      BY <2>1, <3>1 DEF Receive, Goto, TypeOK, Locals
    <3>3. QED
      BY <2>1, <3>2
  <2>4. CASE MintKey(p) /\ ~Abort(p)
    <3>1. pc[p] = "mint" /\ req' = req /\ req[p].op = "CreateKey" /\ req[p] \in Requests
      BY <2>1, <2>4, RunningRequest DEF MintKey, At
    <3>2. loc'[p].next = loc[p].next /\ loc[p].next = 1
      BY <2>1, <2>4, <3>1 DEF MintKey, TypeOK, Locals
    <3>3. CASE pc' = pc
      BY <3>1, <3>2, <3>3
    <3>4. CASE Goto(p, IF req[p].grants = <<>> THEN "commit" ELSE "upsert")
      <4>1. req[p].grants \in Seq(Grant) /\ (req[p].grants # <<>> => 1 <= Len(req[p].grants))
        BY <3>1, RequestFields
      <4>2. pc'[p] = IF req[p].grants = <<>> THEN "commit" ELSE "upsert"
        BY <3>4 DEF Goto, TypeOK
      <4>3. QED
        BY <3>1, <3>2, <4>1, <4>2 DEF Writer
    <3>5. QED
      BY <2>4, <3>3, <3>4 DEF MintKey
  <2>5. CASE (ResolveKey(p) \/ GetEntitlement(p) \/ DeleteKeyRow(p) \/ ShowCreatedKey(p)) /\ ~Abort(p)
    <3>1. /\ \/ pc[p] = "resolve" /\ pc'[p] = IF req[p].op = "GrantModule" THEN "get" ELSE "scan"
             \/ pc[p] = "get" /\ pc'[p] = "upsert"
             \/ pc[p] = "delkey" /\ pc'[p] = "commit"
             \/ pc[p] = "view" /\ pc'[p] = "idle"
          /\ loc'[p].next = loc[p].next /\ (pc[p] # "view" => req' = req)
      BY <2>1, <2>5 DEF ResolveKey, GetEntitlement, DeleteKeyRow, ShowCreatedKey, At, Goto, TypeOK, Locals
    <3>2. pc[p] \in {"resolve", "get"} =>
            req[p].op \in {"CreateKey", "GrantModule", "RevokeModule", "DeleteKey"}
      BY RunningRequest, RequestFields
    <3>3. QED
      BY <2>1, <3>1, <3>2 DEF Writer
  <2>6. CASE UpsertEntitlement(p) /\ ~Abort(p)
    <3>1. /\ pc[p] = "upsert" /\ pc'[p] = (IF LastGrant(p) THEN "commit" ELSE "upsert")
          /\ loc'[p] = [loc[p] EXCEPT !.next = @ + 1] /\ req' = req
      BY <2>6, UpsertMakes
    <3>2. loc'[p].next = loc[p].next + 1 /\ loc[p].next \in Nat
      BY <2>1, <3>1 DEF Locals
    <3>3. pc'[p] = "upsert" => req[p].op = "CreateKey" /\ loc[p].next # Len(req[p].grants)
      BY <2>1, <3>1 DEF LastGrant, Writer
    <3>4. req[p].op = "CreateKey" => Len(req[p].grants) \in Nat
      <4>1. req[p].op = "CreateKey" => req[p].grants \in Seq(Grant)
        BY <3>1, RunningRequest, RequestFields
      <4>2. QED
        BY <4>1
    <3>5. QED
      BY <2>1, <3>1, <3>2, <3>3, <3>4
  <2>7. CASE ScanEntitlements(p)
    <3>1. /\ pc[p] = "scan" /\ req' = req /\ pc'[p] \in {"purge", "delkey", "commit"}
          /\ pc'[p] = "delkey" => req[p].op = "DeleteKey"
          /\ pc'[p] = "purge" => loc'[p].target \in loc'[p].todo
          /\ req[p].op # "DeleteKey" => loc'[p].todo \subseteq {req[p].module}
      BY <2>7, ScanMakes
    <3>2. QED
      BY <2>1, <3>1
  <2>8. CASE PurgeEntitlement(p)
    <3>1. /\ pc[p] = "purge" /\ req' = req /\ pc'[p] \in {"purge", "delkey", "commit"}
          /\ pc'[p] = "delkey" => req[p].op = "DeleteKey"
          /\ pc'[p] = "purge" => loc'[p].target \in loc'[p].todo
          /\ loc'[p].todo \subseteq loc[p].todo
      BY <2>8, PurgeMakes
    <3>2. QED
      BY <2>1, <3>1
  <2>9. CASE Commit(p)
    BY <2>9, CommitMakes DEF NoLocals
  <2>10. QED
    BY <2>2, <2>3, <2>4, <2>5, <2>6, <2>7, <2>8, <2>9 DEF Moves, Step, Fail, DeadlockVictim
<1>3. QED
  BY <1>1, <1>2 DEF StatementsMatchRequest

\* The uncommitted write on the key row.
LEMMA KeyHeldStep ==
  ASSUME TypeOK, StatementsMatchRequest, KeyHeld, NEW p \in Procs, Moves(p)
  PROVE  KeyHeld'
<1> DEFINE Held(q) ==
      /\ wr[q].key = "inserted" <=> req[q] # None /\ req[q].op = "CreateKey"
                                      /\ pc[q] \in {"upsert", "commit"}
      /\ wr[q].key = "inserted" => ~key
      /\ wr[q].key = "deleted" => req[q].op = "DeleteKey" /\ pc[q] = "commit" /\ key
<1>1. /\ \A q \in Procs : Held(q) /\ wr[q].key \in {"clean", "inserted", "deleted"}
      /\ \A q, r \in Procs : wr[q].key # "clean" /\ wr[r].key # "clean" => q = r
  BY DEF KeyHeld, TypeOK, Writes
<1>2. Held(p)' /\ (wr'[p].key # "clean" => \A q \in Procs \ {p} : wr[q].key = "clean")
  <2>1. CASE Abort(p)
    BY <2>1, AbortLeaves DEF NoWrites
  <2>2. CASE Commit(p)
    BY <2>2, CommitMakes DEF NoWrites
  <2>3. CASE \E r \in Requests : Receive(p, r)
    <3>1. PICK r \in Requests : Receive(p, r)
      BY <2>3
    <3>2. pc[p] = "idle" /\ pc'[p] \in {"mint", "resolve"} /\ wr' = wr
      BY <3>1 DEF Receive, Goto, TypeOK
    <3>3. wr[p].key = "clean"
      BY <1>1, <3>2
    <3>4. QED
      BY <3>2, <3>3
  <2>4. CASE MintKey(p) /\ ~Abort(p)
    <3>1. pc[p] = "mint" /\ req' = req /\ req[p].op = "CreateKey" /\ req[p] # None
      BY <2>4, RunningRequest DEF MintKey, At, StatementsMatchRequest
    <3>2. CASE wr' = wr /\ pc' = pc /\ key' = key
      BY <1>1, <3>1, <3>2
    <3>3. CASE /\ loc[p].attempt = 0 /\ ~key /\ wr' = [wr EXCEPT ![p].key = "inserted"]
               /\ Goto(p, IF req[p].grants = <<>> THEN "commit" ELSE "upsert") /\ key' = key
      <4>1. KeyWriters(p) = {}
        BY <2>4, <3>1, <3>3 DEF MintKey, At, WaitsFor
      <4>2. wr'[p].key = "inserted" /\ pc'[p] \in {"upsert", "commit"}
        BY <3>3 DEF Goto, TypeOK, Writes
      <4>3. QED
        BY <1>1, <3>1, <3>3, <4>1, <4>2 DEF KeyWriters
    <3>4. QED
      BY <2>4, <3>2, <3>3 DEF MintKey, Tables
  <2>5. CASE (ResolveKey(p) \/ GetEntitlement(p) \/ ScanEntitlements(p)) /\ ~Abort(p)
    <3>1. pc[p] \in {"resolve", "get", "scan"} /\ wr' = wr /\ req' = req
      BY <2>5, ScanMakes DEF ResolveKey, GetEntitlement, At
    <3>2. wr[p].key = "clean" /\ req[p] # None /\ req[p].op # "CreateKey"
      BY <1>1, <3>1, RunningRequest DEF StatementsMatchRequest
    <3>3. QED
      BY <3>1, <3>2
  <2>6. CASE UpsertEntitlement(p) /\ ~Abort(p)
    <3>1. /\ pc[p] = "upsert" /\ pc'[p] \in {"upsert", "commit"} /\ req' = req
          /\ wr'[p].key = wr[p].key
      BY <2>6, UpsertMakes
    <3>2. key' = key
      BY <2>6 DEF UpsertEntitlement, PutRow, Tables
    <3>3. QED
      BY <1>1, <3>1, <3>2
  <2>7. CASE PurgeEntitlement(p)
    <3>1. pc[p] = "purge" /\ req' = req /\ wr'[p].key = wr[p].key
      BY <2>7, PurgeMakes
    <3>2. wr[p].key = "clean" /\ req[p] # None /\ req[p].op # "CreateKey"
      BY <1>1, <3>1, RunningRequest DEF StatementsMatchRequest
    <3>3. QED
      BY <3>1, <3>2
  <2>8. CASE DeleteKeyRow(p)
    <3>1. pc[p] = "delkey" /\ pc'[p] = "commit" /\ req' = req /\ key' = key /\ req[p].op = "DeleteKey"
      BY <2>8 DEF DeleteKeyRow, At, Goto, Tables, TypeOK, StatementsMatchRequest
    <3>2. CASE key
      <4>1. KeyWriters(p) = {}
        BY <2>8, <3>1, <3>2 DEF DeleteKeyRow, At, WaitsFor
      <4>2. wr'[p].key = "deleted"
        BY <2>8, <3>2 DEF DeleteKeyRow, TypeOK, Writes
      <4>3. QED
        BY <1>1, <3>1, <3>2, <4>1, <4>2 DEF KeyWriters
    <3>3. CASE ~key
      BY <1>1, <2>8, <3>1, <3>3 DEF DeleteKeyRow
    <3>4. QED
      BY <3>2, <3>3
  <2>9. CASE ShowCreatedKey(p)
    <3>1. pc[p] = "view" /\ req'[p] = None /\ wr' = wr
      BY <2>9 DEF ShowCreatedKey, At, TypeOK
    <3>2. QED
      BY <1>1, <3>1
  <2>10. QED
    BY <2>1, <2>2, <2>3, <2>4, <2>5, <2>6, <2>7, <2>8, <2>9
    DEF Moves, Step, Fail, DeadlockVictim
<1>3. ASSUME NEW q \in Procs \ {p}, wr[q].key # "clean" PROVE key' = key
  <2>1. wr[p].key = "clean" /\ key \in BOOLEAN
    BY <1>1, <1>3 DEF TypeOK
  <2>2. CASE Commit(p)
    <3>1. key' = (wr[p].key = "inserted" \/ (wr[p].key = "clean" /\ key))
      BY <2>2, CommitMakes
    <3>2. QED
      BY <2>1, <3>1
  <2>3. CASE ~Commit(p)
    BY <2>3, TablesStay
  <2>4. QED
    BY <2>2, <2>3
<1>4. \A q \in Procs \ {p} : pc'[q] = pc[q] /\ req'[q] = req[q] /\ wr'[q] = wr[q]
  BY OthersStay
<1>5. ASSUME NEW q \in Procs \ {p} PROVE Held(q)'
  <2>1. Held(q)
    BY <1>1
  <2>2. CASE wr[q].key = "clean"
    BY <2>1, <2>2, <1>4
  <2>3. CASE wr[q].key # "clean"
    BY <2>1, <2>3, <1>3, <1>4
  <2>4. QED
    BY <2>2, <2>3
<1>6. \A q, r \in Procs : wr'[q].key # "clean" /\ wr'[r].key # "clean" => q = r
  BY <1>1, <1>2, <1>4
<1>7. QED
  BY <1>2, <1>5, <1>6 DEF KeyHeld

\* The uncommitted writes on the entitlement rows.
LEMMA RowsHeldStep ==
  ASSUME TypeOK, StatementsMatchRequest, RowsHeld, NEW p \in Procs, Moves(p)
  PROVE  RowsHeld'
<1> DEFINE Own(q, m) ==
      wr[q].rows[m] # Clean =>
        /\ pc[q] \in {"upsert", "purge", "delkey", "commit"}
        /\ pc[q] \in {"upsert", "purge"} => req[q].op \in {"CreateKey", "DeleteKey"}
        /\ wr[q].rows[m] = NoRow <=> ~Writer(req[q])
        /\ wr[q].rows[m] # NoRow =>
             (wr[q].rows[m].kind = "perpetual" <=> wr[q].rows[m].expires = Never)
<1>1. /\ \A q \in Procs, m \in Modules : Own(q, m)
      /\ \A q, r \in Procs, m \in Modules :
           wr[q].rows[m] # Clean /\ wr[r].rows[m] # Clean => q = r
  BY DEF RowsHeld
<1>2. ASSUME NEW m \in Modules
      PROVE  Own(p, m)' /\ (wr'[p].rows[m] # Clean => \A q \in Procs \ {p} : wr[q].rows[m] = Clean)
  <2>1. Own(p, m) /\ (wr[p].rows[m] # Clean => \A q \in Procs \ {p} : wr[q].rows[m] = Clean)
    BY <1>1
  <2>2. CASE wr'[p].rows[m] = Clean
    BY <2>2
  <2>3. CASE Abort(p) \/ Commit(p)
    BY <2>3, AbortLeaves, CommitMakes DEF NoWrites
  <2>4. CASE /\ ~Abort(p)
             /\ \/ MintKey(p) \/ ResolveKey(p) \/ GetEntitlement(p) \/ ScanEntitlements(p)
                \/ ShowCreatedKey(p) \/ \E r \in Requests : Receive(p, r)
    <3>1. pc[p] \notin {"upsert", "purge", "delkey", "commit"} /\ wr'[p].rows = wr[p].rows
      BY <2>4 DEF MintKey, ResolveKey, GetEntitlement, ScanEntitlements, ShowCreatedKey, Receive,
         At, TypeOK, Writes
    <3>2. QED
      BY <2>1, <3>1
  <2>5. CASE UpsertEntitlement(p) /\ ~Abort(p)
    <3>1. /\ pc[p] = "upsert" /\ req' = req /\ Writer(req[p])
          /\ pc'[p] = IF LastGrant(p) THEN "commit" ELSE "upsert"
          /\ RowWriters(p, TheGrant(p).module) = {}
      BY <2>5, UpsertMakes DEF StatementsMatchRequest
    <3>2. wr'[p].rows = [wr[p].rows EXCEPT ![TheGrant(p).module] = TheRow(p)]
      BY <2>5, UpsertMakes
    <3>3. pc'[p] \in {"upsert", "commit"} /\ (pc'[p] = "upsert" => req'[p].op = "CreateKey")
      BY <3>1 DEF LastGrant, Writer
    <3>4. CASE m = TheGrant(p).module
      <4>1. wr'[p].rows[m] = TheRow(p)
        BY <3>2, <3>4 DEF TypeOK, Writes
      <4>2. TheRow(p) # NoRow /\ (TheRow(p).kind = "perpetual" <=> TheRow(p).expires = Never)
        <5>1. TheExpiry(p) \in Times \cup {Never}
          BY <2>5, UpsertMakes
        <5>2. QED
          BY <3>1, <5>1, TheRowType, MarksApart
      <4>3. \A q \in Procs \ {p} : wr[q].rows[m] = Clean
        BY <3>1, <3>4 DEF RowWriters
      <4>4. QED
        BY <3>1, <3>3, <4>1, <4>2, <4>3
    <3>5. CASE m # TheGrant(p).module
      <4>1. wr'[p].rows[m] = wr[p].rows[m]
        BY <3>2, <3>5
      <4>2. QED
        BY <2>1, <3>1, <3>3, <4>1
    <3>6. QED
      BY <3>4, <3>5
  <2>6. CASE PurgeEntitlement(p)
    <3>1. /\ pc[p] = "purge" /\ req' = req
          /\ loc[p].target \in loc[p].todo => RowWriters(p, loc[p].target) = {}
          /\ pc'[p] \in {"purge", "delkey", "commit"}
          /\ pc'[p] = "purge" => loc[p].todo \ {loc[p].target} # {}
          /\ wr'[p].rows[m] = IF m \in loc[p].todo \cap {loc[p].target} THEN NoRow ELSE wr[p].rows[m]
      BY <2>6, PurgeMakes
    <3>2. req[p].op \in {"RevokeModule", "DeleteKey"}
      BY <3>1 DEF StatementsMatchRequest
    <3>3. pc'[p] = "purge" => req[p].op = "DeleteKey"
      BY <3>1, <3>2 DEF StatementsMatchRequest
    <3>4. ~Writer(req[p])
      BY <3>2 DEF Writer
    <3>5. CASE m \in loc[p].todo \cap {loc[p].target}
      BY <3>1, <3>3, <3>4, <3>5 DEF RowWriters
    <3>6. CASE m \notin loc[p].todo \cap {loc[p].target}
      BY <2>1, <3>1, <3>3, <3>6
    <3>7. QED
      BY <3>5, <3>6
  <2>7. CASE DeleteKeyRow(p)
    <3>1. pc'[p] = "commit" /\ req' = req /\ wr'[p].rows = wr[p].rows
      BY <2>7 DEF DeleteKeyRow, Goto, TypeOK, Writes
    <3>2. QED
      BY <2>1, <3>1
  <2>8. QED
    BY <2>3, <2>4, <2>5, <2>6, <2>7 DEF Moves, Step, Fail, DeadlockVictim
<1>3. \A q \in Procs \ {p} : pc'[q] = pc[q] /\ req'[q] = req[q] /\ wr'[q] = wr[q]
  BY OthersStay
<1>4. ASSUME NEW q \in Procs, NEW m \in Modules PROVE Own(q, m)'
  <2>1. CASE q = p
    BY <1>2, <2>1
  <2>2. CASE q # p
    BY <1>1, <1>3, <2>2 DEF Writer
  <2>3. QED
    BY <2>1, <2>2
<1>5. ASSUME NEW q \in Procs, NEW m \in Modules, NEW r \in Procs \ {q}, wr'[q].rows[m] # Clean
      PROVE  wr'[r].rows[m] = Clean
  BY <1>1, <1>2, <1>3, <1>5
<1>6. QED
  BY <1>4, <1>5 DEF RowsHeld

\* The rows of a CreateKey.
LEMMA GrantsWrittenStep ==
  ASSUME TypeOK, StatementsMatchRequest, RowsHeld, GrantsWritten, NEW p \in Procs, Moves(p)
  PROVE  GrantsWritten'
<1> DEFINE Runs(q) == req[q] # None /\ req[q].op = "CreateKey" /\ pc[q] \in {"upsert", "commit"}
           So(q, gs) ==
             /\ pc[q] = "commit" => loc[q].next > Len(gs)
             /\ \A i \in 1 .. Len(gs) : i < loc[q].next => wr[q].rows[gs[i].module] # Clean
             /\ \A m \in Modules : wr[q].rows[m] # Clean =>
                  \E i \in 1 .. Len(gs) : gs[i].module = m /\ wr[q].rows[m].kind = gs[i].kind
<1>1. \A q \in Procs : Runs(q) => So(q, req[q].grants)
  BY DEF GrantsWritten
<1>2. ASSUME NEW q \in Procs \ {p}, Runs(q)' PROVE So(q, req[q].grants)'
  <2>1. pc'[q] = pc[q] /\ req'[q] = req[q] /\ wr'[q] = wr[q] /\ loc'[q].next = loc[q].next
    BY OthersStay, OthersNotes
  <2>2. So(q, req[q].grants)
    BY <1>1, <1>2, <2>1
  <2>3. QED
    BY <2>1, <2>2
<1>3. ASSUME Runs(p)' PROVE So(p, req[p].grants)'
  <2>1. CASE MintKey(p) /\ ~Abort(p)
    <3>1. pc[p] = "mint" /\ req' = req /\ wr'[p].rows = wr[p].rows
      BY <2>1 DEF MintKey, At, TypeOK, Writes
    <3>2. /\ loc' = loc /\ loc[p].next = 1
          /\ pc'[p] = IF req[p].grants = <<>> THEN "commit" ELSE "upsert"
      BY <1>3, <2>1, <3>1 DEF MintKey, Goto, TypeOK, StatementsMatchRequest
    <3>3. \A m \in Modules : wr[p].rows[m] = Clean
      BY <3>1 DEF RowsHeld
    <3>4. pc'[p] = "commit" => Len(req[p].grants) = 0
      BY <3>2
    <3>5. QED
      BY <3>1, <3>2, <3>3, <3>4
  <2>2. CASE UpsertEntitlement(p) /\ ~Abort(p)
    <3> DEFINE gs == req[p].grants
               n  == loc[p].next
    <3>1. /\ pc[p] = "upsert" /\ req' = req /\ Runs(p)
          /\ pc'[p] = (IF LastGrant(p) THEN "commit" ELSE "upsert")
          /\ loc'[p] = [loc[p] EXCEPT !.next = @ + 1]
          /\ wr'[p].rows = [wr[p].rows EXCEPT ![TheGrant(p).module] = TheRow(p)]
          /\ TheRow(p) \in Row /\ TheGrant(p).module \in Modules
      BY <1>3, <2>2, UpsertMakes
    <3>2. gs \in Seq(Grant) /\ n \in 1 .. Len(gs) /\ loc'[p].next = n + 1
      <4>1. req[p] \in Requests /\ loc[p] \in Locals
        BY <3>1, RunningRequest DEF TypeOK
      <4>2. QED
        BY <3>1, <4>1, RequestFields DEF Locals, StatementsMatchRequest
    <3>3. TheGrant(p) = gs[n] /\ TheRow(p).kind = gs[n].kind /\ TheRow(p) # Clean
      BY <3>1, MarksApart DEF TheGrant, TheRow
    <3>4. So(p, gs)
      BY <1>1, <3>1
    <3>5. \A i \in 1 .. Len(gs) : gs[i].module \in Modules
      <4>1. \A i \in 1 .. Len(gs) : gs[i] \in Grant
        BY <3>2
      <4>2. \A g \in Grant : g.module \in Modules
        BY DEF Grant
      <4>3. QED
        BY <4>1, <4>2
    <3>6. pc'[p] = "commit" => loc'[p].next > Len(gs)
      BY <3>1, <3>2 DEF LastGrant
    <3>7. wr[p].rows \in [Modules -> Row \cup {NoRow, Clean}]
      BY DEF TypeOK, Writes
    <3> HIDE DEF gs, n
    <3>8. \A m \in Modules :
            wr'[p].rows[m] = IF m = gs[n].module THEN TheRow(p) ELSE wr[p].rows[m]
      BY <3>1, <3>3, <3>7
    <3>9. ASSUME NEW i \in 1 .. Len(gs), i < n + 1 PROVE wr'[p].rows[gs[i].module] # Clean
      <4>1. gs[i].module \in Modules /\ (i < n => wr[p].rows[gs[i].module] # Clean)
        BY <3>4, <3>5 DEF n
      <4>2. i < n \/ i = n
        BY <3>2, <3>9
      <4>3. QED
        BY <3>3, <3>8, <4>1, <4>2
    <3>10. ASSUME NEW m \in Modules, wr'[p].rows[m] # Clean
           PROVE  \E i \in 1 .. Len(gs) : gs[i].module = m /\ wr'[p].rows[m].kind = gs[i].kind
      <4>1. CASE m = gs[n].module
        BY <3>2, <3>3, <3>8, <4>1
      <4>2. CASE m # gs[n].module
        BY <3>4, <3>8, <3>10, <4>2
      <4>3. QED
        BY <4>1, <4>2
    <3>11. QED
      BY <3>1, <3>2, <3>6, <3>9, <3>10 DEF gs
  <2>3. CASE ~(MintKey(p) /\ ~Abort(p)) /\ ~(UpsertEntitlement(p) /\ ~Abort(p))
    <3>1. pc'[p] \notin {"upsert", "commit"} \/ req[p].op # "CreateKey" \/ req'[p] = None
      <4>1. CASE Abort(p)
        BY <4>1, AbortLeaves
      <4>2. CASE \E r \in Requests : Receive(p, r)
        BY <4>2 DEF Receive, Goto, TypeOK
      <4>3. CASE Commit(p)
        BY <4>3, CommitMakes
      <4>4. CASE ~Abort(p) /\ (ResolveKey(p) \/ GetEntitlement(p) \/ DeleteKeyRow(p)
                                \/ ScanEntitlements(p) \/ PurgeEntitlement(p))
        BY <4>4 DEF ResolveKey, GetEntitlement, DeleteKeyRow, ScanEntitlements,
           PurgeEntitlement, At, StatementsMatchRequest
      <4>5. CASE ShowCreatedKey(p)
        BY <4>5 DEF ShowCreatedKey, Goto, TypeOK
      <4>6. QED
        BY <2>3, <4>1, <4>2, <4>3, <4>4, <4>5 DEF Moves, Step, Fail, DeadlockVictim
    <3>2. CASE req'[p] = req[p] \/ req'[p] = None
      BY <1>3, <3>1, <3>2
    <3>3. CASE pc'[p] \notin {"upsert", "commit"}
      BY <1>3, <3>3
    <3>4. ~(\E r \in Requests : Receive(p, r)) => req'[p] = req[p] \/ req'[p] = None
      BY <2>3, AbortLeaves, CommitMakes, ScanMakes, PurgeMakes
      DEF Moves, Step, Fail, DeadlockVictim, ResolveKey, GetEntitlement, DeleteKeyRow, ShowCreatedKey, TypeOK
    <3>5. (\E r \in Requests : Receive(p, r)) => pc'[p] \notin {"upsert", "commit"}
      BY DEF Receive, Goto, TypeOK
    <3>6. QED
      BY <3>2, <3>3, <3>4, <3>5
  <2>4. QED
    BY <2>1, <2>2, <2>3
<1>4. QED
  BY <1>2, <1>3 DEF GrantsWritten

\* What is on record about a process after a step of another one.
LEMMA HistoryStays ==
  ASSUME TypeOK, NEW p \in Procs, Moves(p), NEW q \in Procs \ {p}
  PROVE  /\ q \in superseded => q \in superseded'
         /\ Commit(p) /\ Granting(q) /\ pc[q] = "upsert" /\ req[q].grant.module \in Written(p)
              => q \in superseded'
         /\ q \in late => q \in late'
         /\ ~Commit(p) => unseen'[q] = unseen[q]
<1>1. CASE Commit(p)
  BY <1>1 DEF Commit
<1>2. CASE Abort(p) /\ ~Commit(p)
  BY <1>2, AbortLeaves
<1>3. CASE (~Commit(p)) /\ (~Abort(p))
  <2>1. CASE ShowCreatedKey(p)
    BY <1>3, <2>1 DEF ShowCreatedKey, Forget, TypeOK
  <2>2. CASE ~ShowCreatedKey(p)
    <3>1. UNCHANGED <<superseded, unseen, late>>
      BY <1>3, <2>2 DEF Moves, Step, Fail, DeadlockVictim, Receive, MintKey, ResolveKey,
         GetEntitlement, UpsertEntitlement, PutRow, ScanEntitlements, PurgeEntitlement,
         DeleteKeyRow, history
    <3>2. QED
      BY <1>3, <3>1
  <2>3. QED
    BY <2>1, <2>2
<1>4. QED
  BY <1>1, <1>2, <1>3

LEMMA CurrentStep ==
  ASSUME TypeOK, StatementsMatchRequest, RowsHeld, CurrentIsCommitted, NEW p \in Procs, Moves(p)
  PROVE  CurrentIsCommitted'
<1> DEFINE Runs(q) == pc[q] \in {"upsert", "commit"} /\ req[q].op = "GrantModule"
           Cur(q, m) ==
             /\ q \notin superseded =>
                  loc[q].current = IF ents[m] = NoRow THEN Never ELSE ents[m].expires
             /\ pc[q] = "commit" =>
                  /\ Expiry(req[q].grant, loc[q].current, loc[q].now) \in Times \cup {Never}
                  /\ wr[q].rows[m] = [kind |-> req[q].grant.kind,
                                      expires |-> Expiry(req[q].grant, loc[q].current, loc[q].now)]
             /\ \A o \in Modules \ {m} : wr[q].rows[o] = Clean
<1>1. \A q \in Procs : Runs(q) => Cur(q, req[q].grant.module)
  BY DEF CurrentIsCommitted, TheExpiry, TheGrant
<1>2. \A q \in Procs : Runs(q) =>
        Running(q) /\ req[q] \in Requests /\ req[q].grant.module \in Modules
  <2>1. ASSUME NEW q \in Procs, Runs(q)
        PROVE  Running(q) /\ req[q] \in Requests /\ req[q].grant.module \in Modules
    <3>1. Running(q) /\ req[q] \in Requests
      BY <2>1, RunningRequest
    <3>2. req[q].grant \in Grant
      BY <2>1, <3>1, RequestFields
    <3>3. QED
      BY <3>1, <3>2 DEF Grant
  <2>2. QED
    BY <2>1
<1>3. ASSUME NEW q \in Procs \ {p}, Runs(q)' PROVE Cur(q, req[q].grant.module)'
  <2>1. /\ pc'[q] = pc[q] /\ req'[q] = req[q] /\ wr'[q] = wr[q]
        /\ loc'[q].current = loc[q].current /\ loc'[q].now = loc[q].now
    BY OthersStay, OthersNotes
  <2> DEFINE m == req[q].grant.module
  <2>2. Runs(q) /\ Cur(q, m) /\ m \in Modules /\ Running(q)
    BY <1>1, <1>2, <1>3, <2>1
  <2>3. ASSUME q \notin superseded' PROVE q \notin superseded /\ ents'[m] = ents[m]
    <3>1. CASE Commit(p)
      <4>1. q \notin superseded
        BY <2>3, HistoryStays
      <4>2. wr[p].rows[m] = Clean
        <5>1. CASE pc[q] = "upsert"
          BY <2>2, <2>3, <3>1, <5>1, HistoryStays DEF Written, Granting
        <5>2. CASE pc[q] = "commit"
          <6> DEFINE row == [kind    |-> req[q].grant.kind,
                             expires |-> Expiry(req[q].grant, loc[q].current, loc[q].now)]
          <6>1. req[q].grant \in Grant /\ loc[q].current \in Times \cup {Never} /\ loc[q].now \in Times
            BY <1>2, <2>2, RequestFields DEF TypeOK, Locals
          <6>2. wr[q].rows[m] = row /\ row \in Row
            BY <2>2, <5>2, <6>1, RowType
          <6>3. wr[q].rows[m] # Clean
            BY <6>2, MarksApart
          <6>4. QED
            BY <2>2, <6>3 DEF RowsHeld
        <5>3. QED
          BY <2>2, <5>1, <5>2
      <4>3. QED
        BY <2>2, <3>1, <4>1, <4>2, CommitMakes
    <3>2. CASE ~Commit(p)
      BY <2>3, <3>2, HistoryStays, TablesStay
    <3>3. QED
      BY <3>1, <3>2
  <2> HIDE DEF m
  <2>4. Cur(q, m)'
    BY <2>1, <2>2, <2>3 DEF m
  <2>5. QED
    BY <2>1, <2>4 DEF m
<1>4. ASSUME Runs(p)' PROVE Cur(p, req[p].grant.module)'
  <2>1. CASE GetEntitlement(p)
    <3> DEFINE m == req[p].grant.module
    <3>1. pc[p] = "get" /\ pc'[p] = "upsert" /\ req' = req /\ wr' = wr /\ ents' = ents
      BY <2>1 DEF GetEntitlement, At, Goto, Tables, TypeOK
    <3>2. \A o \in Modules : wr[p].rows[o] = Clean
      BY <3>1 DEF RowsHeld
    <3>3. m \in Modules
      BY <3>1, RunningRequest, RequestFields DEF StatementsMatchRequest, Grant
    <3>4. View(p)[m] = ents[m]
      BY <3>2, <3>3 DEF View
    <3>5. loc'[p].current = IF View(p)[m] = NoRow THEN Never ELSE View(p)[m].expires
      BY <2>1 DEF GetEntitlement, TypeOK, Locals
    <3>6. QED
      BY <3>1, <3>2, <3>4, <3>5
  <2>2. CASE UpsertEntitlement(p) /\ ~Abort(p)
    <3> DEFINE m == req[p].grant.module
    <3>1. /\ pc[p] = "upsert" /\ req' = req /\ Runs(p) /\ superseded' = superseded
          /\ loc'[p] = [loc[p] EXCEPT !.next = @ + 1]
          /\ wr'[p].rows = [wr[p].rows EXCEPT ![TheGrant(p).module] = TheRow(p)]
      BY <1>4, <2>2, UpsertMakes DEF history
    <3>2. TheGrant(p) = req[p].grant
      BY <3>1 DEF TheGrant
    <3>3. ents' = ents
      BY <2>2 DEF UpsertEntitlement, PutRow, Tables
    <3>4. loc'[p].current = loc[p].current /\ loc'[p].now = loc[p].now
      BY <3>1 DEF TypeOK, Locals
    <3>5. m \in Modules /\ Cur(p, m)
      BY <1>1, <1>2, <3>1
    <3>6. wr[p].rows \in [Modules -> Row \cup {NoRow, Clean}]
      BY DEF TypeOK, Writes
    <3>7. /\ Expiry(req[p].grant, loc[p].current, loc[p].now) \in Times \cup {Never}
          /\ wr'[p].rows[m] = [kind |-> req[p].grant.kind,
                               expires |-> Expiry(req[p].grant, loc[p].current, loc[p].now)]
      <4>1. TheExpiry(p) \in Times \cup {Never}
        BY <2>2, UpsertMakes
      <4>2. QED
        BY <3>1, <3>2, <3>5, <3>6, <4>1 DEF TheRow, TheExpiry
    <3>8. \A o \in Modules \ {m} : wr'[p].rows[o] = Clean
      BY <3>1, <3>2, <3>5, <3>6
    <3>9. QED
      BY <3>1, <3>3, <3>4, <3>5, <3>7, <3>8
  <2>3. CASE ~GetEntitlement(p) /\ ~(UpsertEntitlement(p) /\ ~Abort(p))
    <3>1. CASE Abort(p)
      BY <1>4, <3>1, AbortLeaves
    <3>2. CASE \E r \in Requests : Receive(p, r)
      BY <1>4, <3>2 DEF Receive, Goto, TypeOK
    <3>3. CASE Commit(p)
      BY <1>4, <3>3, CommitMakes
    <3>4. CASE ResolveKey(p) /\ ~Abort(p)
      BY <1>4, <3>4 DEF ResolveKey, Goto, TypeOK
    <3>5. CASE ShowCreatedKey(p)
      BY <1>4, <3>5 DEF ShowCreatedKey, Goto, TypeOK
    <3>6. CASE (MintKey(p) \/ DeleteKeyRow(p)) /\ ~Abort(p)
      BY <1>4, <3>6 DEF MintKey, DeleteKeyRow, At, StatementsMatchRequest
    <3>7. CASE ScanEntitlements(p) \/ PurgeEntitlement(p)
      <4>1. pc[p] \in {"scan", "purge"} /\ req' = req
        BY <3>7, ScanMakes, PurgeMakes
      <4>2. QED
        BY <1>4, <4>1 DEF StatementsMatchRequest
    <3>8. QED
      BY <2>3, <3>1, <3>2, <3>3, <3>4, <3>5, <3>6, <3>7
      DEF Moves, Step, Fail, DeadlockVictim
  <2>4. QED
    BY <2>1, <2>2, <2>3
<1>5. ASSUME NEW q \in Procs, Runs(q)' PROVE Cur(q, req[q].grant.module)'
  <2>1. CASE q = p
    BY <1>4, <1>5, <2>1
  <2>2. CASE q # p
    BY <1>3, <1>5, <2>2
  <2>3. QED
    BY <2>1, <2>2
<1>6. QED
  BY <1>5 DEF CurrentIsCommitted, TheExpiry, TheGrant

\* A request stays until it is answered.
LEMMA RequestStays ==
  ASSUME TypeOK, NEW p \in Procs, Moves(p), req'[p] # None, ~\E r \in Requests : Receive(p, r)
  PROVE  /\ req'[p] = req[p] /\ req[p] # None /\ pc[p] # "view" /\ ~Abort(p)
         /\ Commit(p) => pc'[p] = "view" /\ req[p].op = "CreateKey"
         /\ ~Commit(p) => late' = late
<1>1. ~Abort(p)
  BY AbortLeaves
<1>2. ~ShowCreatedKey(p)
  BY DEF ShowCreatedKey, TypeOK
<1>3. CASE Commit(p)
  <2>1. pc[p] = "commit" /\ req[p].op = "CreateKey" /\ pc'[p] = "view" /\ req'[p] = req[p]
    BY <1>3, CommitMakes
  <2>2. QED
    BY <1>1, <1>3, <2>1
<1>4. CASE MintKey(p) \/ ResolveKey(p) \/ GetEntitlement(p) \/ UpsertEntitlement(p) \/ DeleteKeyRow(p)
  BY <1>1, <1>4 DEF MintKey, ResolveKey, GetEntitlement, UpsertEntitlement, PutRow, DeleteKeyRow,
     Commit, At, history
<1>5. CASE ScanEntitlements(p) \/ PurgeEntitlement(p)
  BY <1>1, <1>5 DEF ScanEntitlements, PurgeEntitlement, Commit, At, history
<1>6. QED
  BY <1>1, <1>2, <1>3, <1>4, <1>5 DEF Moves, Step, Fail, DeadlockVictim

\* A grant that has resolved a key sees it go only in the COMMIT of a DeleteKey.
LEMMA LateStep ==
  ASSUME TypeOK, StatementsMatchRequest, LateRecorded, NEW p \in Procs, Moves(p)
  PROVE  LateRecorded'
<1> SUFFICES ASSUME ~key', NEW q \in Procs, Granting(q)', pc'[q] # "resolve"
             PROVE  q \in late'
  BY DEF LateRecorded
<1>1. req'[q] # None /\ req'[q].op = "GrantModule"
  BY DEF Granting, Running
<1>2. CASE q # p
  <2>1. Granting(q) /\ pc[q] # "resolve"
    BY <1>2, OthersStay DEF Granting, Running
  <2>2. CASE key
    <3>1. Commit(p)
      BY <2>2, TablesStay
    <3>2. wr[p].key \in {"clean", "inserted", "deleted"} /\ key \in BOOLEAN
      BY DEF TypeOK, Writes
    <3>3. wr[p].key = "deleted"
      BY <2>2, <3>1, <3>2, CommitMakes
    <3>4. QED
      BY <1>2, <2>1, <3>1, <3>3 DEF Commit
  <2>3. CASE ~key
    BY <1>2, <2>1, <2>3, HistoryStays DEF LateRecorded
  <2>4. QED
    BY <2>2, <2>3 DEF TypeOK
<1>3. CASE q = p
  <2>1. ~\E r \in Requests : Receive(p, r)
    <3>1. ASSUME NEW r \in Requests, Receive(p, r) PROVE FALSE
      <4>1. req'[p] = r /\ pc'[p] = IF r.op = "CreateKey" THEN "mint" ELSE "resolve"
        BY <3>1 DEF Receive, Goto, TypeOK
      <4>2. QED
        BY <1>1, <1>3, <4>1
    <3>2. QED
      BY <3>1
  <2>2. req'[p] = req[p] /\ req[p] # None /\ ~Abort(p) /\ ~Commit(p) /\ late' = late
    BY <1>1, <1>3, <2>1, RequestStays
  <2>3. ~key
    BY <2>2, TablesStay
  <2>4. pc[p] # "resolve"
    <3>1. pc[p] = "resolve" => ResolveKey(p)
      BY <2>1, <2>2, ScanMakes, PurgeMakes
      DEF Moves, Step, Fail, DeadlockVictim, MintKey, GetEntitlement, UpsertEntitlement,
        DeleteKeyRow, ShowCreatedKey, At
    <3>2. QED
      BY <2>2, <2>3, <3>1 DEF ResolveKey
  <2>5. QED
    BY <1>1, <1>3, <2>2, <2>3, <2>4 DEF LateRecorded, Granting, Running
<1>4. QED
  BY <1>2, <1>3

\* What COMMIT makes of the rows and of the strays.
LEMMA CommitRow ==
  ASSUME TypeOK, NEW p \in Procs, Commit(p), NEW m \in Modules
  PROVE  /\ wr[p].rows[m] = Clean => ents'[m] = ents[m] /\ m \notin Written(p)
         /\ wr[p].rows[m] # Clean => ents'[m] = wr[p].rows[m]
         /\ wr[p].rows[m] \notin {Clean, NoRow} <=> m \in Fresh(p)
         /\ wr[p].key = "deleted" => stray' = unseen[p]
         /\ wr[p].key = "clean" /\ ~key =>
              stray' = (stray \ Written(p)) \cup (IF p \in late THEN Fresh(p) ELSE {})
  BY CommitMakes DEF Commit, StraysAfter, Written, Fresh

LEMMA DeletesStep ==
  ASSUME TypeOK, StatementsMatchRequest, RowsHeld, DeletesSeeRows, NEW p \in Procs, Moves(p)
  PROVE  DeletesSeeRows'
<1> DEFINE Sees(q) ==
      /\ \A m \in loc[q].dead : wr[q].rows[m] = NoRow
      /\ pc[q] # "purge" => loc[q].todo = {}
      /\ pc[q] \in {"purge", "delkey", "commit"} /\ req[q].op = "DeleteKey" =>
           \A m \in Modules : ents[m] # NoRow =>
             m \in loc[q].todo \/ wr[q].rows[m] = NoRow \/ m \in unseen[q]
<1>1. \A q \in Procs : Sees(q)
  BY DEF DeletesSeeRows
<1>2. \A q \in Procs : loc[q] \in Locals /\ loc[q].dead \in SUBSET Modules
  BY DEF TypeOK, Locals
<1>3. ASSUME NEW q \in Procs \ {p} PROVE Sees(q)'
  <2>1. /\ pc'[q] = pc[q] /\ req'[q] = req[q] /\ wr'[q] = wr[q] /\ loc'[q].dead = loc[q].dead
        /\ loc'[q].todo = IF Commit(p) THEN loc[q].todo \ loc[p].dead ELSE loc[q].todo
    BY OthersStay, OthersNotes
  <2>2. Sees(q)
    BY <1>1
  <2>3. CASE ~Commit(p)
    BY <2>1, <2>2, <2>3, TablesStay, HistoryStays
  <2>4. CASE Commit(p)
    <3>1. ASSUME pc[q] \in {"purge", "delkey", "commit"}, req[q].op = "DeleteKey",
                 NEW m \in Modules, ents'[m] # NoRow
          PROVE  m \in loc'[q].todo \/ wr'[q].rows[m] = NoRow \/ m \in unseen'[q]
      <4>1. unseen'[q] = (unseen[q] \ Written(p)) \cup (Fresh(p) \ loc[q].todo)
        <5>1. Looked(q)
          BY <3>1, RunningRequest DEF Looked
        <5>2. QED
          BY <2>4, <5>1 DEF Commit
      <4>2. m \notin loc[p].dead
        BY <1>1, <2>4, <3>1, CommitRow, MarksApart
      <4>3. CASE wr[p].rows[m] = Clean
        <5>1. ents[m] # NoRow /\ m \notin Written(p)
          BY <2>4, <3>1, <4>3, CommitRow
        <5>2. QED
          BY <2>1, <2>2, <2>4, <3>1, <4>1, <4>2, <5>1
      <4>4. CASE wr[p].rows[m] # Clean
        <5>1. m \in Fresh(p)
          BY <2>4, <3>1, <4>4, CommitRow
        <5>2. QED
          BY <2>1, <2>4, <4>1, <4>2, <5>1
      <4>5. QED
        BY <4>3, <4>4
    <3>2. QED
      BY <2>1, <2>2, <3>1
  <2>5. QED
    BY <2>3, <2>4
<1>4. Sees(p)'
  <2>1. Sees(p) /\ loc[p] \in Locals
    BY <1>1, <1>2
  <2>2. CASE Abort(p) \/ Commit(p)
    <3>1. pc'[p] \in {"idle", "view"} /\ loc'[p] = NoLocals
      BY <2>2, AbortLeaves, CommitMakes
    <3>2. QED
      BY <3>1 DEF NoLocals
  <2>3. CASE /\ ~Abort(p)
             /\ \/ MintKey(p) \/ ResolveKey(p) \/ GetEntitlement(p) \/ ShowCreatedKey(p)
                \/ \E r \in Requests : Receive(p, r)
    <3>1. /\ wr'[p].rows = wr[p].rows /\ loc'[p].dead = loc[p].dead /\ loc'[p].todo = loc[p].todo
      BY <2>1, <2>3 DEF MintKey, ResolveKey, GetEntitlement, ShowCreatedKey, Receive, TypeOK, Locals, Writes
    <3>2. pc[p] \in {"mint", "resolve", "get", "view", "idle"}
      BY <2>3 DEF MintKey, ResolveKey, GetEntitlement, ShowCreatedKey, Receive, At
    <3>3. pc'[p] \in {"purge", "delkey", "commit"} => pc'[p] = "commit" /\ req'[p].op = "CreateKey"
      BY <2>3 DEF MintKey, ResolveKey, GetEntitlement, ShowCreatedKey, Receive, At, Goto, TypeOK,
        StatementsMatchRequest
    <3>4. QED
      BY <2>1, <3>1, <3>2, <3>3
  <2>4. CASE UpsertEntitlement(p) /\ ~Abort(p)
    <3>1. /\ pc[p] = "upsert" /\ pc'[p] \in {"upsert", "commit"} /\ req' = req
          /\ loc'[p] = [loc[p] EXCEPT !.next = @ + 1]
      BY <2>4, UpsertMakes
    <3>2. Writer(req[p])
      BY <3>1 DEF StatementsMatchRequest
    <3>3. loc[p].dead = {}
      <4>1. ASSUME NEW m \in loc[p].dead PROVE FALSE
        <5>1. m \in Modules /\ wr[p].rows[m] = NoRow
          BY <1>2, <2>1
        <5>2. QED
          BY <3>2, <5>1, MarksApart DEF RowsHeld
      <4>2. QED
        BY <4>1
    <3>4. loc'[p].dead = {} /\ loc'[p].todo = loc[p].todo
      BY <2>1, <3>1, <3>3 DEF Locals
    <3>5. QED
      BY <2>1, <3>1, <3>2, <3>4 DEF Writer
  <2>5. CASE ScanEntitlements(p)
    <3>1. /\ pc[p] = "scan" /\ req' = req /\ wr' = wr /\ loc'[p].dead = loc[p].dead
          /\ req[p].op = "DeleteKey" => loc'[p].todo = Granted(p)
          /\ loc'[p].todo # {} => pc'[p] = "purge"
      BY <2>5, ScanMakes
    <3>2. \A m \in Modules : ents[m] # NoRow => m \in Granted(p)
      BY <3>1 DEF RowsHeld, Granted, View
    <3>3. ents' = ents
      BY <2>5 DEF ScanEntitlements, Tables
    <3>4. QED
      BY <2>1, <3>1, <3>2, <3>3
  <2>6. CASE PurgeEntitlement(p)
    <3>1. /\ pc[p] = "purge" /\ req' = req
          /\ loc'[p].todo = loc[p].todo \ {loc[p].target}
          /\ loc'[p].dead = loc[p].dead \cup (loc[p].todo \cap {loc[p].target})
          /\ loc'[p].todo # {} => pc'[p] = "purge"
          /\ \A n \in Modules : wr'[p].rows[n] =
               IF n \in loc[p].todo \cap {loc[p].target} THEN NoRow ELSE wr[p].rows[n]
      BY <2>6, PurgeMakes
    <3>2. ents' = ents /\ unseen' = unseen
      BY <2>6 DEF PurgeEntitlement, Tables, history
    <3>3. loc[p].todo \in SUBSET Modules
      BY <2>1 DEF Locals
    <3>4. \A m \in loc'[p].dead : wr'[p].rows[m] = NoRow
      BY <1>2, <2>1, <3>1, <3>3
    <3>5. QED
      BY <2>1, <3>1, <3>2, <3>4
  <2>7. CASE DeleteKeyRow(p)
    <3>1. /\ pc[p] = "delkey" /\ pc'[p] = "commit" /\ UNCHANGED <<req, loc, ents, unseen>>
          /\ wr'[p].rows = wr[p].rows
      BY <2>7 DEF DeleteKeyRow, At, Goto, Tables, history, TypeOK, Writes
    <3>2. QED
      BY <2>1, <3>1
  <2>8. QED
    BY <2>2, <2>3, <2>4, <2>5, <2>6, <2>7 DEF Moves, Step, Fail, DeadlockVictim
<1>5. QED
  BY <1>3, <1>4 DEF DeletesSeeRows

\* An upsert pairs kind and expiry, so COMMIT does.
LEMMA KindStep ==
  ASSUME TypeOK, RowsHeld, KindMatchesExpiry, NEW p \in Procs, Moves(p)
  PROVE  KindMatchesExpiry'
<1>1. CASE ~Commit(p)
  BY <1>1, TablesStay DEF KindMatchesExpiry
<1>2. CASE Commit(p)
  <2>1. ASSUME NEW m \in Modules, ents'[m] # NoRow
        PROVE  ents'[m].kind = "perpetual" <=> ents'[m].expires = Never
    <3>1. CASE wr[p].rows[m] = Clean
      BY <1>2, <2>1, <3>1, CommitRow DEF KindMatchesExpiry
    <3>2. CASE wr[p].rows[m] # Clean
      <4>1. ents'[m] = wr[p].rows[m]
        BY <1>2, <3>2, CommitRow
      <4>2. QED
        BY <2>1, <3>2, <4>1 DEF RowsHeld
    <3>3. QED
      BY <3>1, <3>2
  <2>2. QED
    BY <2>1 DEF KindMatchesExpiry
<1>3. QED
  BY <1>1, <1>2

\* A key that goes leaves strays only, and without a key only strays come.
LEMMA OrphansStep ==
  ASSUME TypeOK, KeyHeld, RowsHeld, LateRecorded, DeletesSeeRows, OrphansCameLate,
         NEW p \in Procs, Moves(p)
  PROVE  OrphansCameLate'
<1>1. CASE ~Commit(p)
  BY <1>1, TablesStay DEF OrphansCameLate
<1>2. CASE Commit(p)
  <2>1. SUFFICES ASSUME ~key', NEW m \in Modules, ents'[m] # NoRow PROVE m \in stray'
    BY DEF OrphansCameLate
  <2>2. /\ pc[p] = "commit" /\ wr[p].key # "inserted" /\ (key => wr[p].key = "deleted")
        /\ Running(p)
    <3>1. pc[p] = "commit" /\ key' = (wr[p].key = "inserted" \/ (wr[p].key = "clean" /\ key))
      BY <1>2, CommitMakes
    <3>2. wr[p].key \in {"clean", "inserted", "deleted"} /\ key \in BOOLEAN
      BY DEF TypeOK, Writes
    <3>3. QED
      BY <2>1, <3>1, <3>2, RunningRequest
  <2>3. CASE key
    <3>1. wr[p].key = "deleted" /\ req[p].op = "DeleteKey" /\ stray' = unseen[p]
      BY <1>2, <2>2, <2>3, CommitRow DEF KeyHeld
    <3>2. CASE wr[p].rows[m] = Clean
      <4>1. ents[m] # NoRow /\ wr[p].rows[m] # NoRow
        BY <1>2, <2>1, <3>2, CommitRow, MarksApart
      <4>2. QED
        BY <2>2, <3>1, <4>1 DEF DeletesSeeRows
    <3>3. CASE wr[p].rows[m] # Clean
      <4>1. wr[p].rows[m] = NoRow
        BY <3>1, <3>3 DEF RowsHeld, Writer
      <4>2. QED
        BY <1>2, <2>1, <3>3, <4>1, CommitRow
    <3>4. QED
      BY <3>2, <3>3
  <2>4. CASE ~key
    <3>1. wr[p].key = "clean"
      BY <2>2, <2>4 DEF KeyHeld, TypeOK, Writes
    <3>2. stray' = (stray \ Written(p)) \cup (IF p \in late THEN Fresh(p) ELSE {})
      BY <1>2, <2>4, <3>1, CommitRow
    <3>3. CASE wr[p].rows[m] = Clean
      <4>1. ents[m] # NoRow /\ m \notin Written(p)
        BY <1>2, <2>1, <3>3, CommitRow
      <4>2. QED
        BY <2>4, <3>2, <4>1 DEF OrphansCameLate
    <3>4. CASE wr[p].rows[m] # Clean
      <4>1. m \in Fresh(p) /\ wr[p].rows[m] # NoRow
        BY <1>2, <2>1, <3>4, CommitRow
      <4>2. Writer(req[p])
        BY <3>4, <4>1 DEF RowsHeld
      <4>3. Granting(p)
        BY <2>2, <4>2 DEF KeyHeld, Writer, Granting, Running
      <4>4. p \in late
        BY <2>2, <2>4, <4>3 DEF LateRecorded
      <4>5. QED
        BY <3>2, <4>1, <4>4
    <3>5. QED
      BY <3>3, <3>4
  <2>5. QED
    BY <2>3, <2>4 DEF TypeOK
<1>3. QED
  BY <1>1, <1>2

-----------------------------------------------------------------------------
(* The invariant.                                                          *)

LEMMA InitInvariant ==
  ASSUME Init
  PROVE  IInv
<1>1. TypeOK
  <2>1. clock \in 0 .. MaxClock /\ key \in BOOLEAN
    <3>1. clock = 0 /\ key = FALSE
      BY DEF Init
    <3>2. 0 \in 0 .. MaxClock
      BY BoundsAssumption
    <3>3. QED
      BY <3>1, <3>2
  <2>2. ents \in [Modules -> Row \cup {NoRow}]
    BY DEF Init
  <2>3. pc \in [Procs -> Labels] /\ req \in [Procs -> Requests \cup {None}]
    BY DEF Init, Labels
  <2>4. \A p \in Procs : req[p] = None <=> pc[p] = "idle"
    BY DEF Init
  <2>5. loc \in [Procs -> Locals] /\ wr \in [Procs -> Writes]
    BY NoLocalsType DEF Init
  <2>6. QED
    BY <2>1, <2>2, <2>3, <2>4, <2>5 DEF Init, TypeOK
<1>2. \A p \in Procs : /\ pc[p] = "idle" /\ req[p] = None /\ loc[p] = NoLocals
                       /\ wr[p].key = "clean" /\ \A m \in Modules : wr[p].rows[m] = Clean
  BY DEF Init, NoWrites
<1>3. \A p \in Procs : loc[p].next = 1 /\ loc[p].todo = {} /\ loc[p].dead = {}
  <2>1. NoLocals.next = 1 /\ NoLocals.todo = {} /\ NoLocals.dead = {}
    BY DEF NoLocals
  <2>2. QED
    BY <1>2, <2>1
<1>4. StatementsMatchRequest /\ KeyHeld /\ RowsHeld /\ GrantsWritten /\ CurrentIsCommitted
  BY <1>2, <1>3 DEF StatementsMatchRequest, KeyHeld, RowsHeld, GrantsWritten, CurrentIsCommitted
<1>5. LateRecorded /\ DeletesSeeRows
  BY <1>2, <1>3 DEF LateRecorded, DeletesSeeRows, Granting, Running
<1>6. KindMatchesExpiry /\ OrphansCameLate
  BY DEF Init, KindMatchesExpiry, OrphansCameLate
<1>7. QED
  BY <1>1, <1>4, <1>5, <1>6 DEF IInv

LEMMA MoveType ==
  ASSUME TypeOK, StatementsMatchRequest, NEW p \in Procs, Moves(p)
  PROVE  TypeOK'
<1>1. CASE Abort(p)
  BY <1>1, AbortType
<1>2. CASE \E r \in Requests : Receive(p, r)
  BY <1>2, ReceiveType
<1>3. CASE Step(p)
  BY <1>3, StepType
<1>4. QED
  BY <1>1, <1>2, <1>3 DEF Moves, Fail, DeadlockVictim

\* What does not look at the clock keeps its value when only the clock moves.
LEMMA NothingMoves ==
  ASSUME IInv, UNCHANGED <<key, ents, pc, req, loc, wr, history>>, clock' \in 0 .. MaxClock
  PROVE  IInv'
<1> USE DEF history
<1>1. TypeOK'
  BY DEF IInv, TypeOK
<1>2. StatementsMatchRequest' /\ KeyHeld' /\ RowsHeld' /\ GrantsWritten'
  BY DEF IInv, StatementsMatchRequest, KeyHeld, RowsHeld, GrantsWritten
<1>3. CurrentIsCommitted'
  BY DEF IInv, CurrentIsCommitted, TheExpiry, TheGrant
<1>4. LateRecorded'
  BY DEF IInv, LateRecorded, Granting, Running
<1>5. DeletesSeeRows' /\ KindMatchesExpiry' /\ OrphansCameLate'
  BY DEF IInv, DeletesSeeRows, KindMatchesExpiry, OrphansCameLate
<1>6. QED
  BY <1>1, <1>2, <1>3, <1>4, <1>5 DEF IInv

LEMMA NextInvariant ==
  ASSUME IInv, [Next]_vars
  PROVE  IInv'
<1>1. ASSUME NEW p \in Procs, Moves(p)
      PROVE  IInv'
  <2>1. TypeOK' /\ StatementsMatchRequest'
    BY <1>1, MoveType, StatementsStep DEF IInv
  <2>2. KeyHeld' /\ RowsHeld'
    BY <1>1, KeyHeldStep, RowsHeldStep DEF IInv
  <2>3. GrantsWritten' /\ CurrentIsCommitted'
    BY <1>1, GrantsWrittenStep, CurrentStep DEF IInv
  <2>4. LateRecorded' /\ DeletesSeeRows'
    BY <1>1, LateStep, DeletesStep DEF IInv
  <2>5. KindMatchesExpiry' /\ OrphansCameLate'
    BY <1>1, KindStep, OrphansStep DEF IInv
  <2>6. QED
    BY <2>1, <2>2, <2>3, <2>4, <2>5 DEF IInv
<1>2. CASE Tick
  <2>1. clock' \in 0 .. MaxClock
    BY <1>2, BoundsAssumption DEF Tick, IInv, TypeOK
  <2>2. QED
    BY <1>2, <2>1, NothingMoves DEF Tick
<1>3. CASE UNCHANGED vars
  BY <1>3, NothingMoves DEF vars, IInv, TypeOK
<1>4. QED
  BY <1>1, <1>2, <1>3 DEF Next, Moves

\* The invariant holds of every behaviour.
THEOREM GrantsInvariant == Spec => []IInv
<1>1. Init => IInv
  BY InitInvariant
<1>2. IInv /\ [Next]_vars => IInv'
  BY NextInvariant
<1>3. QED
  BY <1>1, <1>2, PTL DEF Spec

\* An entitlement is perpetual exactly when it has no end, whatever grants, upserts
\* and aborts have led to it (models/entitlement.go).
THEOREM KindAlwaysMatches == Spec => []KindMatchesExpiry
<1>1. IInv => KindMatchesExpiry
  BY DEF IInv
<1>2. QED
  BY <1>1, GrantsInvariant, PTL

\* Without the key there are only rows its DeleteKey could not see, and rows of grants
\* that had resolved the key before it went (DeleteKey, admin.go).
THEOREM OrphansAlwaysCameLate == Spec => []OrphansCameLate
<1>1. IInv => OrphansCameLate
  BY DEF IInv
<1>2. QED
  BY <1>1, GrantsInvariant, PTL

-----------------------------------------------------------------------------
(* What a COMMIT does.                                                     *)

\* Only COMMIT takes CreateKey to its answer.
LEMMA ViewAfterCommit ==
  ASSUME TypeOK, [Next]_vars, NEW p \in Procs, pc[p] = "commit", pc'[p] = "view"
  PROVE  Commit(p) /\ req[p].op = "CreateKey" /\ Running(p) /\ req' = req
<1>1. PICK q \in Procs : Moves(q)
  BY DEF Next, Moves, Tick, vars
<1>2. q = p
  BY <1>1, OthersStay
<1>3. req'[p] # None
  <2>1. req[p] # None
    BY RunningRequest
  <2>2. CASE Abort(p) \/ ShowCreatedKey(p)
    BY <2>2 DEF Abort, ShowCreatedKey, Goto, TypeOK
  <2>3. CASE \E r \in Requests : Receive(p, r)
    BY <2>3 DEF Receive
  <2>4. CASE Commit(p)
    BY <2>1, <2>4, CommitMakes
  <2>5. CASE (~Abort(p)) /\ (ScanEntitlements(p) \/ PurgeEntitlement(p))
    BY <2>5, ScanMakes, PurgeMakes
  <2>6. CASE (~Abort(p)) /\ (MintKey(p) \/ ResolveKey(p) \/ GetEntitlement(p) \/ UpsertEntitlement(p)
                            \/ DeleteKeyRow(p))
    BY <2>6 DEF MintKey, ResolveKey, GetEntitlement, UpsertEntitlement, DeleteKeyRow, At
  <2>7. QED
    BY <1>1, <1>2, <2>2, <2>3, <2>4, <2>5, <2>6 DEF Moves, Step, Fail, DeadlockVictim
<1>4. Commit(p)
  <2>1. ~(\E r \in Requests : Receive(p, r)) /\ ~Abort(p)
    BY <1>1, <1>2, <1>3, AbortLeaves DEF Receive
  <2>2. QED
    BY <1>1, <1>2, <2>1, ScanMakes, PurgeMakes
    DEF Moves, Step, Fail, DeadlockVictim, MintKey, ResolveKey, GetEntitlement, UpsertEntitlement,
        DeleteKeyRow, ShowCreatedKey, At
<1>5. QED
  BY <1>4, CommitMakes, RunningRequest DEF Commit

\* A key appears with all of its grants, and only where there is none.
THEOREM KeysCreatedWhole == Spec => CreatedWhole
<1> DEFINE Whole(p) ==
      /\ ~key /\ key'
      /\ \A i \in 1 .. Len(req[p].grants) : ents'[req[p].grants[i].module] # NoRow
      /\ \A m \in Modules : ents'[m] # NoRow =>
           \/ \E i \in 1 .. Len(req[p].grants) :
                req[p].grants[i].module = m /\ ents'[m].kind = req[p].grants[i].kind
           \/ m \in stray
<1>1. ASSUME IInv, [Next]_vars, NEW p \in Procs, pc[p] = "commit", pc'[p] = "view"
      PROVE  Whole(p)
  <2>1. Commit(p) /\ req[p].op = "CreateKey" /\ Running(p) /\ req[p] \in Requests
    BY <1>1, ViewAfterCommit, RunningRequest DEF IInv
  <2>2. wr[p].key = "inserted" /\ ~key
    BY <1>1, <2>1 DEF IInv, KeyHeld, Running
  <2>3. key'
    BY <1>1, <2>1, <2>2, CommitMakes DEF IInv
  <2>4. TypeOK /\ RowsHeld /\ Writer(req[p])
    BY <1>1, <2>1 DEF IInv, Writer
  <2>5. \A m \in Modules :
          /\ wr[p].rows[m] = Clean => ents'[m] = ents[m]
          /\ wr[p].rows[m] # Clean => ents'[m] = wr[p].rows[m] /\ ents'[m] # NoRow
    BY <2>1, <2>4, CommitRow DEF RowsHeld
  <2> DEFINE gs == req[p].grants
  <2>6. /\ \A i \in 1 .. Len(gs) : wr[p].rows[gs[i].module] # Clean
        /\ \A m \in Modules : wr[p].rows[m] # Clean =>
             \E i \in 1 .. Len(gs) : gs[i].module = m /\ wr[p].rows[m].kind = gs[i].kind
    <3>1. loc[p].next \in Nat /\ gs \in Seq(Grant)
      BY <2>1, <2>4, RequestFields DEF TypeOK, Locals
    <3>2. loc[p].next > Len(gs) /\ Len(gs) \in Nat
      BY <1>1, <2>1, <3>1 DEF IInv, GrantsWritten, Running
    <3>3. \A i \in 1 .. Len(gs) : i < loc[p].next
      BY <3>1, <3>2
    <3>4. QED
      BY <1>1, <2>1, <3>3 DEF IInv, GrantsWritten, Running
  <2>7. \A i \in 1 .. Len(gs) : gs[i].module \in Modules
    <3>1. gs \in Seq(Grant)
      BY <2>1, RequestFields
    <3>2. \A i \in 1 .. Len(gs) : gs[i] \in Grant
      BY <3>1
    <3>3. QED
      BY <3>2 DEF Grant
  <2>8. \A m \in Modules : ents[m] # NoRow => m \in stray
    BY <1>1, <2>2 DEF IInv, OrphansCameLate
  <2> HIDE DEF gs
  <2>9. \A i \in 1 .. Len(gs) : ents'[gs[i].module] # NoRow
    BY <2>5, <2>6, <2>7
  <2>10. \A m \in Modules : ents'[m] # NoRow =>
           \/ \E i \in 1 .. Len(gs) : gs[i].module = m /\ ents'[m].kind = gs[i].kind
           \/ m \in stray
    BY <2>5, <2>6, <2>8
  <2>11. QED
    BY <2>2, <2>3, <2>9, <2>10 DEF gs
<1>2. IInv /\ [Next]_vars =>
        [\A p \in Procs : pc[p] = "commit" /\ pc'[p] = "view" => Whole(p)]_vars
  BY <1>1
<1>3. QED
  BY <1>2, GrantsInvariant, PTL DEF Spec, CreatedWhole

\* A grant of days loses none, unless another transaction has changed its row meanwhile.
THEOREM ExtensionsCount == Spec => ExtensionLostOnlyToOverlap
<1> DEFINE Extends(p, m) ==
      ents'[m].expires = req[p].grant.days +
        (IF ents[m] = NoRow THEN loc[p].now ELSE Later(ents[m].expires, loc[p].now))
<1>1. ASSUME IInv, NEW p \in Procs, Commit(p), req[p].op = "GrantModule", req[p].grant.days > 0,
             p \notin superseded
      PROVE  Extends(p, req[p].grant.module)
  <2> DEFINE g == req[p].grant
             m == g.module
             c == loc[p].current
             n == loc[p].now
  <2>1. TypeOK /\ pc[p] = "commit" /\ g \in Grant /\ m \in Modules /\ g.days \in Nat
    <3>1. TypeOK /\ pc[p] = "commit"
      BY <1>1, CommitMakes DEF IInv
    <3>2. g \in Grant
      BY <1>1, <3>1, RunningRequest, RequestFields
    <3>3. QED
      BY <3>1, <3>2 DEF Grant
  <2>2. c \in Times \cup {Never} /\ n \in Times
    BY <2>1 DEF TypeOK, Locals
  <2>3. /\ c = IF ents[m] = NoRow THEN Never ELSE ents[m].expires
        /\ Expiry(g, c, n) \in Times \cup {Never}
        /\ wr[p].rows[m] = [kind |-> g.kind, expires |-> Expiry(g, c, n)]
    BY <1>1, <2>1 DEF IInv, CurrentIsCommitted, TheExpiry, TheGrant
  <2>4. wr[p].rows[m] # Clean
    <3>1. [kind |-> g.kind, expires |-> Expiry(g, c, n)] \in Row
      BY <2>1, <2>2, <2>3, RowType
    <3>2. QED
      BY <2>3, <3>1, MarksApart
  <2>5. ents'[m].expires = Expiry(g, c, n)
    BY <1>1, <2>1, <2>3, <2>4, CommitRow
  <2>6. Expiry(g, c, n) = Later(c, n) + g.days
    BY <1>1, <2>1, <2>2, <2>3, RowType
  <2>7. n \in Nat /\ Later(Never, n) = n /\ Later(c, n) \in Nat
    BY <2>2, BoundsAssumption, MarksAssumption DEF Times, Later
  <2>8. Later(c, n) = IF ents[m] = NoRow THEN n ELSE Later(ents[m].expires, n)
    BY <2>3, <2>7
  <2> HIDE DEF g, m, c, n
  <2>9. ents'[m].expires = g.days + (IF ents[m] = NoRow THEN n ELSE Later(ents[m].expires, n))
    BY <2>1, <2>5, <2>6, <2>7, <2>8
  <2>10. QED
    BY <2>9 DEF g, m, n
<1>2. IInv /\ [Next]_vars =>
        [\A p \in Procs :
           Commit(p) /\ req[p].op = "GrantModule" /\ req[p].grant.days > 0 /\ p \notin superseded =>
           Extends(p, req[p].grant.module)]_vars
  BY <1>1
<1>3. QED
  BY <1>2, GrantsInvariant, PTL DEF Spec, ExtensionLostOnlyToOverlap

-----------------------------------------------------------------------------
(* Deadlocks.                                                              *)

\* Whom a process waits for, if that one waits too and deletes no key, is a
\* CreateKey that has inserted the key.
LEMMA AwaitedCreates ==
  ASSUME IInv, NEW p \in Procs, NEW q \in WaitsFor(p), WaitsFor(q) # {},
         req[p].op # "DeleteKey", req[q].op # "DeleteKey"
  PROVE  q \in Procs \ {p} /\ wr[q].key = "inserted"
<1>1. TypeOK /\ StatementsMatchRequest /\ KeyHeld /\ RowsHeld
  BY DEF IInv
<1>2. pc[p] # "delkey"
  BY <1>1 DEF StatementsMatchRequest
<1>3. q \in Procs \ {p}
  BY DEF WaitsFor, KeyWriters, RowWriters
<1>4. pc[q] \in {"mint", "upsert", "purge"}
  BY <1>1, <1>3 DEF WaitsFor, StatementsMatchRequest
<1>5. CASE pc[p] = "mint"
  <2>1. wr[q].key # "clean"
    BY <1>5 DEF WaitsFor, KeyWriters
  <2>2. wr[q].key \in {"clean", "inserted", "deleted"}
    BY <1>1, <1>3 DEF TypeOK, Writes
  <2>3. QED
    BY <1>1, <1>3, <2>1, <2>2 DEF KeyHeld
<1>6. CASE pc[p] # "mint"
  <2>1. \E m : q \in RowWriters(p, m) /\ m \in Modules
    <3>1. CASE pc[p] = "upsert"
      BY <1>1, <3>1, GrantType DEF WaitsFor
    <3>2. CASE pc[p] = "purge"
      BY <1>1, <3>2 DEF WaitsFor, TypeOK, Locals
    <3>3. QED
      BY <1>2, <1>6, <3>1, <3>2 DEF WaitsFor
  <2>2. PICK m \in Modules : wr[q].rows[m] # Clean
    BY <2>1 DEF RowWriters
  <2>3. req[q].op = "CreateKey" /\ pc[q] \in {"upsert", "purge"}
    BY <1>1, <1>3, <1>4, <2>2 DEF RowsHeld
  <2>4. pc[q] = "upsert" /\ req[q] # None
    BY <1>1, <1>3, <2>3, RunningRequest DEF StatementsMatchRequest
  <2>5. QED
    BY <1>1, <1>3, <2>3, <2>4 DEF KeyHeld
<1>7. QED
  BY <1>3, <1>5, <1>6

\* Processes that wait in a ring have a DeleteKey among them.
THEOREM RingsAlwaysContainDeleteKey == Spec => []RingsContainDeleteKey
<1>1. ASSUME IInv PROVE RingsContainDeleteKey
  <2>1. SUFFICES ASSUME NEW S \in SUBSET Procs, S # {}, \A p \in S : WaitsFor(p) \cap S # {},
                        \A p \in S : req[p].op # "DeleteKey"
                 PROVE  FALSE
    BY DEF RingsContainDeleteKey
  <2>2. PICK p \in S : TRUE
    BY <2>1
  <2>3. PICK q \in S : q \in WaitsFor(p)
    BY <2>1, <2>2
  <2>4. PICK r \in S : r \in WaitsFor(q)
    BY <2>1, <2>3
  <2>5. WaitsFor(q) # {} /\ WaitsFor(r) # {}
    BY <2>1, <2>3, <2>4
  <2>6. wr[q].key = "inserted"
    BY <1>1, <2>1, <2>2, <2>3, <2>5, AwaitedCreates
  <2>7. r # q /\ wr[r].key = "inserted"
    BY <1>1, <2>1, <2>3, <2>4, <2>5, AwaitedCreates
  <2>8. QED
    BY <1>1, <2>1, <2>3, <2>4, <2>6, <2>7 DEF IInv, KeyHeld
<1>2. QED
  BY <1>1, GrantsInvariant, PTL

=============================================================================
