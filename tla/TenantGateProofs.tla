-------------------------- MODULE TenantGateProofs --------------------------
(* Proofs about TenantGate, for every set of processes, tenants and requests. *)
EXTENDS TenantGate, TLAPS

-----------------------------------------------------------------------------
(* Type correctness.                                                       *)

\* The fields of a request, by its operation.
LEMMA RequestFields ==
  ASSUME NEW r \in Requests
  PROVE  /\ r.op \in {"Call", "Create", "Update", "Get", "Delete", "List"}
         /\ r.op = "Call" => r.tenant \in Tenants \cup {None}
         /\ r.op = "Create" => r.tenant \in Tenants \cup {None}
         /\ r.op \in {"Update", "Get", "Delete"} => r.tenant \in Keys
         /\ r.op # "Call" => r.scope \in Scopes
         /\ r # None
  BY RequestsAssumption DEF Request

LEMMA NoLocalsType == NoLocals \in Locals
  BY DEF NoLocals, Locals, appKeyGenAttempts

\* Who owns a row.
LEMMA OwnerType ==
  ASSUME NEW a \in App
  PROVE  /\ Owner(a) \in Keys
         /\ a.key \in Keys /\ a.tenant \in Keys \cup {Null} /\ a.disabled \in BOOLEAN
         /\ a.tenant \in {Null, a.key} \/ (a.key \in Minted /\ a.tenant \in Tenants)
         /\ a # NoRow
  BY MarksAssumption DEF App, Owner

LEMMA RowType ==
  ASSUME TypeOK, NEW i \in Rows
  PROVE  i \in Ids /\ apps[i] \in App
  BY DEF TypeOK, Rows

\* The tenant of a new configuration row.
LEMMA ClampType ==
  ASSUME NEW scope \in Scopes \ {None}, NEW requested \in Tenants \cup {None}, NEW k \in Minted
  PROVE  /\ Clamp(scope, requested, k) \in Tenants \cup {k}
         /\ scope # Platform => Clamp(scope, requested, k) = scope
<1>1. CASE scope # Platform
  BY <1>1 DEF Clamp, Scopes
<1>2. CASE scope = Platform /\ requested # None
  BY <1>2 DEF Clamp
<1>3. CASE scope = Platform /\ requested = None
  BY <1>3 DEF Clamp
<1>4. QED
  BY <1>1, <1>2, <1>3

\* What an answered request leaves, and that nobody else notices.
LEMMA AnswerLeaves ==
  ASSUME TypeOK, NEW p \in Procs, pc[p] # "idle",
         NEW code \in Codes, NEW seen \in SUBSET Keys, Answer(p, code, seen)
  PROVE  /\ pc'[p] = "idle" /\ req'[p] = None /\ loc'[p] = NoLocals
         /\ reply'[p].code = code /\ reply'[p].seen = seen
         /\ req[p].op = "Call" => reply'[p].scope = None
         /\ req[p].op # "Call" => reply'[p].scope = req[p].scope
         /\ pc' \in [Procs -> Labels] /\ req' \in [Procs -> Requests \cup {None}]
         /\ \A q \in Procs : req'[q] = None <=> pc'[q] = "idle"
         /\ loc' \in [Procs -> Locals]
         /\ reply' \in [Procs -> [code : Codes, scope : Scopes, seen : SUBSET Keys]]
<1>1. req[p] \in Requests
  BY DEF TypeOK
<1>2. (IF req[p].op = "Call" THEN None ELSE req[p].scope) \in Scopes
  BY <1>1, RequestFields DEF Scopes
<1>3. reply' \in [Procs -> [code : Codes, scope : Scopes, seen : SUBSET Keys]]
  BY <1>2 DEF Answer, TypeOK
<1>4. QED
  BY <1>3, NoLocalsType DEF Answer, Goto, TypeOK, Labels

\* A statement that goes on to the next one.
LEMMA GoOn ==
  ASSUME TypeOK, NEW p \in Procs, pc[p] # "idle", NEW label \in Labels \ {"idle"}, Goto(p, label),
         req' = req, reply' = reply, UNCHANGED <<removals, barred, admissible>>,
         NEW l \in Locals, loc' = [loc EXCEPT ![p] = l],
         apps' \in [Ids -> App \cup {NoRow}], nextId' \in 1 .. MaxApps + 1
  PROVE  TypeOK'
  BY DEF TypeOK, Goto

LEMMA LocalsUpdate ==
  ASSUME NEW l \in Locals, NEW k \in Minted, NEW t \in Keys, NEW i \in Ids, NEW d \in BOOLEAN
  PROVE  /\ [l EXCEPT !.minted = k, !.tenant = t] \in Locals
         /\ [l EXCEPT !.id = i, !.tenant = t, !.disabled = d] \in Locals
         /\ [l EXCEPT !.ensured = TRUE] \in Locals
         /\ l.tries + 1 < appKeyGenAttempts => [l EXCEPT !.tries = @ + 1] \in Locals
         /\ l.disabled \in BOOLEAN /\ l.tenant \in Keys \cup {None}
         /\ l.minted \in Minted \cup {None} /\ l.id \in Ids \cup {None}
<1>1. l.tries + 1 < appKeyGenAttempts => l.tries + 1 \in 0 .. appKeyGenAttempts
  BY DEF Locals, appKeyGenAttempts
<1>2. QED
  BY <1>1 DEF Locals

\* One INSERT: a row of a well-formed kind at the next id, under no key that
\* another row has.
Inserts(p) ==
  \E k, t \in Keys :
    /\ Conflicts(k, t) = {} /\ loc[p].tenant = t /\ Insert(k, t)
    /\ \/ pc[p] = "ensure" /\ pc'[p] = "tenant" /\ k = t /\ t \in Tenants
       \/ pc[p] = "create" /\ pc'[p] = "idle" /\ k \in Minted /\ t \in Tenants \cup {k}

\* What a request reads: it answers or goes on, and the registry stays.
LEMMA UseRowStep ==
  ASSUME TypeOK, NEW p \in Procs, pc[p] \in {"tenant", "key"}, NEW i \in Rows, UseRow(p, i)
  PROVE  /\ UNCHANGED Registry
         /\ \/ \E code \in Codes \ {"absent"}, seen \in SUBSET Keys : Answer(p, code, seen)
            \/ /\ req[p].op \in {"Update", "Delete"} /\ Authorized(req[p].scope, apps[i])
               /\ Goto(p, IF req[p].op = "Update" THEN "update" ELSE "delete")
               /\ UNCHANGED <<req, reply>>
               /\ \E d \in BOOLEAN :
                    loc' = [loc EXCEPT ![p] = [loc[p] EXCEPT !.id = i, !.tenant = Owner(apps[i]),
                                                             !.disabled = d]]
<1>1. apps[i] \in App /\ Owner(apps[i]) \in Keys /\ apps[i].disabled \in BOOLEAN
  BY RowType, OwnerType
<1>2. /\ "unauthorized" \in Codes \ {"absent"} /\ "admitted" \in Codes \ {"absent"}
      /\ "bad_request" \in Codes \ {"absent"} /\ "not_found" \in Codes \ {"absent"}
      /\ "ok" \in Codes \ {"absent"}
      /\ {} \in SUBSET Keys /\ {Owner(apps[i])} \in SUBSET Keys
  BY <1>1 DEF Codes
<1>3. CASE req[p].op = "Call" /\ Refuse(p, IF apps[i].disabled THEN "unauthorized" ELSE "admitted")
  BY <1>2, <1>3 DEF Refuse
<1>4. CASE Refuse(p, "bad_request") \/ Refuse(p, "not_found")
  BY <1>2, <1>4 DEF Refuse
<1>5. CASE Answer(p, "ok", {Owner(apps[i])}) /\ UNCHANGED Registry
  BY <1>2, <1>5
<1>6. CASE /\ req[p].op \in {"Update", "Delete"} /\ Authorized(req[p].scope, apps[i])
           /\ loc' = [loc EXCEPT ![p].id = i,
                                 ![p].tenant = Owner(apps[i]),
                                 ![p].disabled = IF req[p].op = "Update" /\ req[p].disabled # "absent"
                                                 THEN req[p].disabled = "yes" ELSE apps[i].disabled]
           /\ Goto(p, IF req[p].op = "Update" THEN "update" ELSE "delete")
           /\ UNCHANGED <<Registry, req, reply>>
  <2> DEFINE d == IF req[p].op = "Update" /\ req[p].disabled # "absent"
                  THEN req[p].disabled = "yes" ELSE apps[i].disabled
  <2>1. d \in BOOLEAN
    BY <1>1
  <2>2. loc' = [loc EXCEPT ![p] = [loc[p] EXCEPT !.id = i, !.tenant = Owner(apps[i]), !.disabled = d]]
    BY <1>6 DEF TypeOK
  <2> HIDE DEF d
  <2>3. QED
    BY <1>6, <2>1, <2>2
<1>7. QED
  BY <1>3, <1>4, <1>5, <1>6 DEF UseRow

-----------------------------------------------------------------------------
(* What one step of one process changes.                                   *)

\* A request works for a tenant that the gate or the operator's scope allows.
LEMMA CreatesFor ==
  ASSUME TypeOK, StatementsMatchRequest, NEW p \in Procs, pc[p] # "idle", pc[p] # "mint",
         req[p].op = "Create"
  PROVE  /\ loc[p].minted \in Minted /\ loc[p].tenant \in Tenants \cup {loc[p].minted}
         /\ req[p].scope # Platform => loc[p].tenant = req[p].scope
<1>1. req[p] \in Requests
  BY DEF TypeOK
<1>2. req[p].scope \in Scopes \ {None} /\ req[p].tenant \in Tenants \cup {None}
  BY <1>1, RequestFields DEF StatementsMatchRequest, Identified
<1>3. loc[p].minted \in Minted /\ loc[p].tenant = Clamp(req[p].scope, req[p].tenant, loc[p].minted)
  BY DEF StatementsMatchRequest
<1>4. QED
  BY <1>2, <1>3, ClampType

LEMMA CallsFor ==
  ASSUME TypeOK, StatementsMatchRequest, NEW p \in Procs, pc[p] # "idle", req[p].op = "Call"
  PROVE  loc[p].tenant = req[p].tenant /\ loc[p].tenant \in Tenants
<1>1. req[p] \in Requests
  BY DEF TypeOK
<1>2. QED
  BY <1>1, RequestFields DEF StatementsMatchRequest, Identified

\* A statement changes the registry by one of the three writes, or not at all.
LEMMA RegistrySteps ==
  ASSUME IInv, NEW p \in Procs, Step(p)
  PROVE  \/ UNCHANGED Registry
         \/ Inserts(p)
         \/ UpdateApp(p)
         \/ DeleteApp(p)
<1> USE DEF IInv
<1>1. CASE MintAppKey(p) \/ ListApps(p) \/ Fail(p)
  BY <1>1 DEF MintAppKey, ListApps, Fail, Refuse
<1>2. CASE SelectByTenant(p)
  BY <1>2, UseRowStep DEF SelectByTenant, ByTenant, Refuse
<1>3. CASE SelectByKey(p)
  BY <1>3, UseRowStep DEF SelectByKey, ByKey, Refuse
<1>4. CASE EnsureTenantApp(p)
  <2>1. pc[p] = "ensure" /\ pc'[p] = "tenant" /\ loc[p].tenant \in Tenants
    BY <1>4, CallsFor DEF EnsureTenantApp, Goto, TypeOK, StatementsMatchRequest
  <2>2. loc[p].tenant \in Keys
    BY <2>1 DEF Keys
  <2>3. CASE Conflicts(loc[p].tenant, loc[p].tenant) # {}
    BY <1>4, <2>3 DEF EnsureTenantApp
  <2>4. CASE Conflicts(loc[p].tenant, loc[p].tenant) = {}
    BY <1>4, <2>1, <2>2, <2>4 DEF EnsureTenantApp, Inserts
  <2>5. QED
    BY <2>3, <2>4
<1>5. CASE CreateApp(p)
  <2>1. CASE Refuse(p, "internal")
    BY <2>1 DEF Refuse
  <2>2. ASSUME ~ Refuse(p, "internal") PROVE Inserts(p)
    <3>1. pc[p] = "create" /\ pc'[p] = "idle" /\ req[p].op = "Create"
      BY <1>5, <2>2 DEF CreateApp, Answer, Goto, TypeOK, StatementsMatchRequest
    <3>2. loc[p].minted \in Minted /\ loc[p].tenant \in Tenants \cup {loc[p].minted}
      BY <3>1, CreatesFor
    <3>3. loc[p].minted \in Keys /\ loc[p].tenant \in Keys
      BY <3>2 DEF Keys
    <3>4. QED
      BY <1>5, <2>2, <3>1, <3>2, <3>3 DEF CreateApp, Inserts
  <2>3. QED
    BY <2>1, <2>2
<1>6. QED
  BY <1>1, <1>2, <1>3, <1>4, <1>5 DEF Step

\* A step of p leaves the other processes alone.
LEMMA OthersStay ==
  ASSUME TypeOK, NEW p \in Procs, Step(p) \/ \E r \in Requests : Receive(p, r),
         NEW q \in Procs \ {p}
  PROVE  pc'[q] = pc[q] /\ req'[q] = req[q] /\ loc'[q] = loc[q] /\ reply'[q] = reply[q]
<1>1. ASSUME NEW code, NEW seen, Answer(p, code, seen)
      PROVE  pc'[q] = pc[q] /\ req'[q] = req[q] /\ loc'[q] = loc[q] /\ reply'[q] = reply[q]
  BY <1>1 DEF Answer, Goto, TypeOK
<1>2. ASSUME NEW r \in Requests, Receive(p, r)
      PROVE  pc'[q] = pc[q] /\ req'[q] = req[q] /\ loc'[q] = loc[q] /\ reply'[q] = reply[q]
  BY <1>2 DEF Receive, Goto, TypeOK
<1>3. CASE MintAppKey(p) \/ ListApps(p) \/ Fail(p) \/ UpdateApp(p) \/ DeleteApp(p)
  BY <1>1, <1>3 DEF MintAppKey, ListApps, Fail, Refuse, UpdateApp, DeleteApp, Goto, TypeOK
<1>4. CASE EnsureTenantApp(p) \/ CreateApp(p)
  BY <1>1, <1>4 DEF EnsureTenantApp, CreateApp, Refuse, Goto, TypeOK
<1>5. ASSUME NEW i \in Rows, pc[p] \in {"tenant", "key"}, UseRow(p, i)
      PROVE  pc'[q] = pc[q] /\ req'[q] = req[q] /\ loc'[q] = loc[q] /\ reply'[q] = reply[q]
  <2>1. CASE \E code \in Codes \ {"absent"}, seen \in SUBSET Keys : Answer(p, code, seen)
    BY <1>1, <2>1
  <2>2. CASE ~ \E code \in Codes \ {"absent"}, seen \in SUBSET Keys : Answer(p, code, seen)
    <3>1. /\ Goto(p, IF req[p].op = "Update" THEN "update" ELSE "delete")
          /\ UNCHANGED <<req, reply>>
          /\ \E d \in BOOLEAN :
               loc' = [loc EXCEPT ![p] = [loc[p] EXCEPT !.id = i, !.tenant = Owner(apps[i]),
                                                        !.disabled = d]]
      BY <1>5, <2>2, UseRowStep
    <3>2. QED
      BY <3>1 DEF Goto, TypeOK
  <2>3. QED
    BY <2>1, <2>2
<1>6. CASE SelectByTenant(p)
  BY <1>5, <1>6 DEF SelectByTenant, ByTenant, Goto, TypeOK
<1>7. CASE SelectByKey(p)
  BY <1>1, <1>5, <1>7 DEF SelectByKey, ByKey, Refuse, Goto, TypeOK
<1>8. QED
  BY <1>2, <1>3, <1>4, <1>6, <1>7 DEF Step

\* The row that an INSERT writes.
LEMMA InsertedRow ==
  ASSUME TypeOK, IndexesHold, NEW k \in Keys, NEW t \in Keys,
         k = t \/ (k \in Minted /\ t \in Tenants), Insert(k, t)
  PROVE  /\ nextId \in Ids /\ nextId \notin Rows /\ Rows' = Rows \cup {nextId}
         /\ apps'[nextId] = [key |-> k, tenant |-> t, disabled |-> FALSE]
         /\ apps'[nextId] \in App /\ Owner(apps'[nextId]) = t
         /\ \A i \in Ids \ {nextId} : apps'[i] = apps[i]
         /\ apps' \in [Ids -> App \cup {NoRow}] /\ nextId' = nextId + 1
         /\ nextId' \in 1 .. MaxApps + 1
<1> DEFINE row == [key |-> k, tenant |-> t, disabled |-> FALSE]
<1>1. row \in App /\ Owner(row) = t
  BY MarksAssumption DEF App, Owner
<1>2. row # NoRow
  BY <1>1, MarksAssumption
<1>3. nextId \in Ids /\ nextId \notin Rows
  BY IdsAssumption DEF Insert, TypeOK, Ids, IndexesHold
<1>4. apps' = [apps EXCEPT ![nextId] = row] /\ nextId' = nextId + 1 /\ nextId <= MaxApps
  BY DEF Insert
<1> HIDE DEF row
<1>5. Rows' = Rows \cup {nextId}
  BY <1>2, <1>3, <1>4 DEF Rows, TypeOK
<1>6. nextId' \in 1 .. MaxApps + 1
  BY <1>4, IdsAssumption DEF TypeOK
<1>7. QED
  BY <1>1, <1>3, <1>4, <1>5, <1>6 DEF TypeOK, row

\* The row that an UPDATE writes, if it still exists.
LEMMA UpdatedRow ==
  ASSUME TypeOK, NEW p \in Procs, UpdateApp(p)
  PROVE  /\ apps' \in [Ids -> App \cup {NoRow}] /\ Rows' = Rows
         /\ \A i \in Rows : /\ apps'[i].key = apps[i].key /\ apps'[i].tenant = apps[i].tenant
                            /\ Owner(apps'[i]) = Owner(apps[i])
         /\ \A i \in Ids : i # loc[p].id => apps'[i] = apps[i]
         /\ barred' \in SUBSET Tenants /\ admissible' \in SUBSET Procs
<1>1. CASE loc[p].id \notin Rows
  BY <1>1 DEF UpdateApp, Rows, TypeOK
<1>2. CASE loc[p].id \in Rows
  <2> DEFINE i == loc[p].id
             row == [apps[i] EXCEPT !.disabled = loc[p].disabled]
  <2>1. apps[i] \in App /\ i \in Ids /\ loc[p].disabled \in BOOLEAN
    BY <1>2, RowType DEF TypeOK, Locals
  <2>2. row \in App /\ row.key = apps[i].key /\ row.tenant = apps[i].tenant
    BY <2>1 DEF App
  <2>3. row # NoRow /\ Owner(row) = Owner(apps[i])
    BY <2>2, MarksAssumption DEF Owner
  <2>4. apps' = [apps EXCEPT ![i] = row]
    BY <1>2 DEF UpdateApp
  <2>7. barred' \in SUBSET Tenants /\ admissible' \in SUBSET Procs
    BY <1>2 DEF UpdateApp, Bar, Unbar, TypeOK
  <2> HIDE DEF row, i
  <2>5. Rows' = Rows
    BY <2>1, <2>3, <2>4, <1>2 DEF Rows, TypeOK, i
  <2>6. QED
    BY <2>1, <2>2, <2>3, <2>4, <2>5, <2>7 DEF TypeOK, i, Rows
<1>3. QED
  BY <1>1, <1>2

\* The row that a DELETE takes away.
LEMMA DeletedRow ==
  ASSUME TypeOK, NEW p \in Procs, DeleteApp(p)
  PROVE  /\ apps' \in [Ids -> App \cup {NoRow}] /\ Rows' = Rows \ {loc[p].id}
         /\ \A i \in Ids : i \in Rows' => apps'[i] = apps[i]
         /\ \A i \in Ids : i # loc[p].id => apps'[i] = apps[i]
         /\ removals \subseteq removals' /\ removals' \subseteq Procs
         /\ barred' \in SUBSET Tenants /\ admissible' \in SUBSET Procs
         /\ loc[p].id \in Rows =>
              \A q \in Procs : loc[q].tenant = Owner(apps[loc[p].id]) => q \in removals'
  BY DEF DeleteApp, Unbar, Rows, TypeOK

\* What every step keeps of a row that stays: its app key, its owner, and its
\* tenant once it has one.
RowKept(i) ==
  /\ apps'[i].key = apps[i].key
  /\ Owner(apps'[i]) = Owner(apps[i])
  /\ apps[i].tenant # Null => apps'[i].tenant = apps[i].tenant

LEMMA BackfilledRows ==
  ASSUME TypeOK, Backfill
  PROVE  /\ apps' \in [Ids -> App \cup {NoRow}] /\ Rows' = Rows
         /\ \A i \in Rows : RowKept(i) /\ apps'[i].disabled = apps[i].disabled
         /\ \A i \in Rows : apps'[i].tenant # Null
<1> DEFINE filled(a) == [a EXCEPT !.tenant = Owner(a)]
<1>1. ASSUME NEW a \in App
      PROVE  /\ filled(a) \in App /\ filled(a) # NoRow /\ filled(a).key = a.key
             /\ Owner(filled(a)) = Owner(a) /\ filled(a).disabled = a.disabled
             /\ filled(a).tenant = Owner(a) /\ Owner(a) # Null
             /\ a.tenant # Null => filled(a).tenant = a.tenant
  <2>1. Owner(a) \in Keys /\ Owner(a) # Null
    BY OwnerType, MarksAssumption
  <2>2. Owner(a) = a.key \/ Owner(a) = a.tenant
    BY DEF Owner
  <2>3. filled(a) \in App
    BY <2>1, <2>2 DEF App
  <2>4. filled(a).tenant = Owner(a) /\ filled(a).key = a.key /\ filled(a).disabled = a.disabled
    BY DEF App
  <2>5. QED
    BY <2>1, <2>3, <2>4, MarksAssumption DEF Owner
<1> HIDE DEF filled
<1>2. apps' = [i \in Ids |-> IF i \in Rows THEN filled(apps[i]) ELSE NoRow]
  BY DEF Backfill, filled
<1>3. Rows' = Rows
  BY <1>1, <1>2, RowType DEF Rows
<1>4. QED
  BY <1>1, <1>2, <1>3, RowType DEF RowKept

LEMMA AnswerType ==
  ASSUME TypeOK, NEW p \in Procs, pc[p] # "idle",
         NEW code \in Codes, NEW seen \in SUBSET Keys, Answer(p, code, seen),
         apps' \in [Ids -> App \cup {NoRow}], nextId' \in 1 .. MaxApps + 1,
         removals' \in SUBSET Procs, barred' \in SUBSET Tenants, admissible' \in SUBSET Procs
  PROVE  TypeOK'
  BY AnswerLeaves DEF TypeOK

LEMMA RefuseType ==
  ASSUME TypeOK, NEW p \in Procs, pc[p] # "idle", NEW code \in Codes, Refuse(p, code)
  PROVE  TypeOK'
<1>1. Answer(p, code, {}) /\ UNCHANGED Registry
  BY DEF Refuse
<1>2. /\ apps' \in [Ids -> App \cup {NoRow}] /\ nextId' \in 1 .. MaxApps + 1
      /\ removals' \in SUBSET Procs /\ barred' \in SUBSET Tenants /\ admissible' \in SUBSET Procs
  BY <1>1 DEF Registry, TypeOK
<1>3. QED
  BY <1>1, <1>2, AnswerType

LEMMA ReceiveType ==
  ASSUME TypeOK, NEW p \in Procs, NEW r \in Requests, Receive(p, r)
  PROVE  TypeOK'
<1> DEFINE Replies == [code : Codes, scope : Scopes, seen : SUBSET Keys]
<1>1. NoReply \in Replies /\ [NoReply EXCEPT !.code = "unauthorized"] \in Replies
  BY DEF NoReply, Codes, Scopes
<1>2. reply' \in [Procs -> Replies]
  BY <1>1 DEF Receive, TypeOK
<1>3. CASE UNCHANGED <<pc, req, loc>>
  BY <1>2, <1>3 DEF Receive, TypeOK
<1>4. CASE /\ req' = [req EXCEPT ![p] = r] /\ Goto(p, FirstStatement(r))
           /\ loc' = [loc EXCEPT ![p].tenant = IF r.op \in {"Create", "List"} THEN None ELSE r.tenant]
  <2>1. FirstStatement(r) \in Labels \ {"idle"}
    BY RequestFields DEF FirstStatement, Labels
  <2>2. (IF r.op \in {"Create", "List"} THEN None ELSE r.tenant) \in Keys \cup {None}
    BY RequestFields DEF Keys
  <2>3. loc' \in [Procs -> Locals]
    BY <1>4, <2>2 DEF TypeOK, Locals
  <2>4. QED
    BY <1>2, <1>4, <2>1, <2>3, RequestFields DEF Receive, Goto, TypeOK
<1>5. QED
  BY <1>3, <1>4 DEF Receive

LEMMA UseRowType ==
  ASSUME TypeOK, NEW p \in Procs, pc[p] \in {"tenant", "key"}, NEW i \in Rows, UseRow(p, i)
  PROVE  TypeOK'
<1>1. /\ apps' \in [Ids -> App \cup {NoRow}] /\ nextId' \in 1 .. MaxApps + 1
      /\ UNCHANGED <<removals, barred, admissible>>
      /\ removals' \in SUBSET Procs /\ barred' \in SUBSET Tenants /\ admissible' \in SUBSET Procs
  BY UseRowStep DEF Registry, TypeOK
<1>2. CASE \E code \in Codes \ {"absent"}, seen \in SUBSET Keys : Answer(p, code, seen)
  BY <1>1, <1>2, AnswerType
<1>3. CASE ~ \E code \in Codes \ {"absent"}, seen \in SUBSET Keys : Answer(p, code, seen)
  <2>1. PICK d \in BOOLEAN :
          /\ Goto(p, IF req[p].op = "Update" THEN "update" ELSE "delete")
          /\ UNCHANGED <<req, reply>>
          /\ loc' = [loc EXCEPT ![p] = [loc[p] EXCEPT !.id = i, !.tenant = Owner(apps[i]),
                                                      !.disabled = d]]
    BY <1>3, UseRowStep
  <2>2. i \in Ids /\ Owner(apps[i]) \in Keys /\ loc[p] \in Locals
    BY RowType, OwnerType DEF TypeOK
  <2>3. [loc[p] EXCEPT !.id = i, !.tenant = Owner(apps[i]), !.disabled = d] \in Locals
    BY <2>2 DEF Locals
  <2>4. (IF req[p].op = "Update" THEN "update" ELSE "delete") \in Labels \ {"idle"}
    BY DEF Labels
  <2>5. QED
    BY <1>1, <2>1, <2>3, <2>4, GoOn
<1>4. QED
  BY <1>2, <1>3

LEMMA StepType ==
  ASSUME IInv, NEW p \in Procs, Step(p)
  PROVE  TypeOK'
<1>1. TypeOK /\ IndexesHold /\ StatementsMatchRequest /\ LoadedRowsKeepTheirTenant
  BY DEF IInv
<1>2. loc[p] \in Locals /\ apps \in [Ids -> App \cup {NoRow}] /\ nextId \in 1 .. MaxApps + 1
      /\ removals \in SUBSET Procs /\ barred \in SUBSET Tenants /\ admissible \in SUBSET Procs
      /\ {} \in SUBSET Keys
  BY <1>1 DEF TypeOK
<1>3. ASSUME NEW label \in Labels \ {"idle"}, Goto(p, label), pc[p] # "idle",
             UNCHANGED <<req, loc, reply>>, UNCHANGED Registry
      PROVE  TypeOK'
  BY <1>1, <1>3 DEF Registry, Goto, TypeOK
<1>4. CASE MintAppKey(p)
  <2>1. PICK k \in Minted :
          \/ /\ loc' = [loc EXCEPT ![p].minted = k,
                                   ![p].tenant = Clamp(req[p].scope, req[p].tenant, k)]
             /\ Goto(p, "tenant") /\ UNCHANGED <<Registry, req, reply>>
          \/ /\ loc[p].tries + 1 < appKeyGenAttempts
             /\ loc' = [loc EXCEPT ![p].tries = @ + 1] /\ UNCHANGED <<Registry, pc, req, reply>>
          \/ Refuse(p, "internal")
    BY <1>4 DEF MintAppKey
  <2>2. pc[p] = "mint" /\ req[p].op = "Create" /\ req[p] \in Requests
    BY <1>1, <1>4 DEF MintAppKey, StatementsMatchRequest, TypeOK
  <2>3. CASE Refuse(p, "internal")
    BY <1>1, <2>2, <2>3, RefuseType DEF Codes
  <2>4. CASE /\ loc[p].tries + 1 < appKeyGenAttempts
             /\ loc' = [loc EXCEPT ![p].tries = @ + 1] /\ UNCHANGED <<Registry, pc, req, reply>>
    <3>1. loc[p].tries \in 0 .. 3
      BY <1>2 DEF Locals, appKeyGenAttempts
    <3>2. loc[p].tries + 1 \in 0 .. appKeyGenAttempts
      BY <2>4, <3>1 DEF appKeyGenAttempts
    <3>3. loc' \in [Procs -> Locals]
      BY <1>1, <2>4, <3>2 DEF TypeOK, Locals
    <3>4. QED
      BY <1>1, <2>4, <3>3 DEF TypeOK, Registry
  <2>5. CASE /\ loc' = [loc EXCEPT ![p].minted = k,
                                   ![p].tenant = Clamp(req[p].scope, req[p].tenant, k)]
             /\ Goto(p, "tenant") /\ UNCHANGED <<Registry, req, reply>>
    <3>1. req[p].scope \in Scopes \ {None} /\ req[p].tenant \in Tenants \cup {None}
      BY <1>1, <2>2, RequestFields DEF StatementsMatchRequest, Identified
    <3>2. Clamp(req[p].scope, req[p].tenant, k) \in Keys
      BY <2>1, <3>1, ClampType DEF Keys
    <3>3. loc' \in [Procs -> Locals]
      BY <1>1, <2>1, <2>5, <3>2 DEF TypeOK, Locals
    <3>4. QED
      BY <1>1, <2>2, <2>5, <3>3 DEF TypeOK, Registry, Goto, Labels
  <2>6. QED
    BY <2>1, <2>3, <2>4, <2>5
<1>5. CASE SelectByTenant(p)
  BY <1>1, <1>3, <1>5, UseRowType DEF SelectByTenant, ByTenant, Labels
<1>6. CASE SelectByKey(p)
  <2>1. "absent" \in Codes /\ "not_found" \in Codes /\ "ensure" \in Labels \ {"idle"}
        /\ "create" \in Labels \ {"idle"}
    BY DEF Codes, Labels
  <2>2. QED
    BY <1>1, <1>3, <1>6, <2>1, UseRowType, RefuseType DEF SelectByKey, ByKey
<1>7. CASE EnsureTenantApp(p)
  <2>1. [loc[p] EXCEPT !.ensured = TRUE] \in Locals
    BY <1>2 DEF Locals
  <2>2. /\ loc' = [loc EXCEPT ![p] = [loc[p] EXCEPT !.ensured = TRUE]]
        /\ pc[p] = "ensure" /\ Goto(p, "tenant")
        /\ UNCHANGED <<req, reply, removals, barred, admissible>>
    BY <1>1, <1>7 DEF EnsureTenantApp, TypeOK, Registry, Insert
  <2>3. apps' \in [Ids -> App \cup {NoRow}] /\ nextId' \in 1 .. MaxApps + 1
    <3>1. CASE UNCHANGED Registry
      BY <1>2, <3>1 DEF Registry
    <3>2. CASE Insert(loc[p].tenant, loc[p].tenant)
      <4>1. loc[p].tenant \in Keys
        BY <1>1, <2>2, CallsFor DEF StatementsMatchRequest, Keys
      <4>2. QED
        BY <1>1, <3>2, <4>1, InsertedRow
    <3>3. QED
      BY <1>7, <3>1, <3>2 DEF EnsureTenantApp
  <2>4. QED
    BY <1>1, <2>1, <2>2, <2>3, GoOn DEF Labels
<1>8. CASE CreateApp(p)
  <2>1. pc[p] = "create" /\ "internal" \in Codes /\ "ok" \in Codes
    BY <1>8 DEF CreateApp, Codes
  <2>2. loc[p].minted \in Minted /\ loc[p].tenant \in Tenants \cup {loc[p].minted}
    BY <1>1, <2>1, CreatesFor DEF StatementsMatchRequest
  <2>3. CASE Refuse(p, "internal")
    BY <1>1, <2>1, <2>3, RefuseType
  <2>4. CASE Insert(loc[p].minted, loc[p].tenant) /\ Answer(p, "ok", {loc[p].tenant})
    <3>1. apps' \in [Ids -> App \cup {NoRow}] /\ nextId' \in 1 .. MaxApps + 1
      BY <1>1, <2>2, <2>4, InsertedRow DEF Keys
    <3>2. /\ {loc[p].tenant} \in SUBSET Keys /\ removals' \in SUBSET Procs
          /\ barred' \in SUBSET Tenants /\ admissible' \in SUBSET Procs
      BY <1>2, <2>2, <2>4 DEF Keys, Insert
    <3>3. QED
      BY <1>1, <2>1, <2>4, <3>1, <3>2, AnswerType
  <2>5. QED
    BY <1>8, <2>3, <2>4 DEF CreateApp
<1>9. CASE UpdateApp(p)
  <2>1. "ok" \in Codes /\ pc[p] = "update" /\ {loc[p].tenant} \in SUBSET Keys
    BY <1>1, <1>9 DEF UpdateApp, LoadedRowsKeepTheirTenant, Codes
  <2>2. Answer(p, "ok", {loc[p].tenant}) /\ nextId' = nextId /\ removals' = removals
    BY <1>9 DEF UpdateApp
  <2>3. QED
    BY <1>1, <1>2, <1>9, <2>1, <2>2, UpdatedRow, AnswerType
<1>10. CASE DeleteApp(p)
  <2>1. "ok" \in Codes /\ pc[p] = "delete" /\ Answer(p, "ok", {}) /\ nextId' = nextId
    BY <1>10 DEF DeleteApp, Codes
  <2>2. QED
    BY <1>1, <1>2, <1>10, <2>1, DeletedRow, AnswerType
<1>11. CASE ListApps(p)
  <2> DEFINE shown == {Owner(apps[i]) : i \in {j \in Rows : Authorized(req[p].scope, apps[j])}}
  <2>1. shown \in SUBSET Keys
    BY <1>1, RowType, OwnerType
  <2>2. "ok" \in Codes /\ pc[p] # "idle" /\ Answer(p, "ok", shown) /\ UNCHANGED Registry
    BY <1>11 DEF ListApps, Codes
  <2> HIDE DEF shown
  <2>3. QED
    BY <1>1, <1>2, <2>1, <2>2, AnswerType DEF Registry
<1>12. CASE Fail(p)
  BY <1>1, <1>12, RefuseType DEF Fail, Codes
<1>13. QED
  BY <1>4, <1>5, <1>6, <1>7, <1>8, <1>9, <1>10, <1>11, <1>12 DEF Step

-----------------------------------------------------------------------------
(* What every step leaves of the registry.                                 *)

\* A row that is inserted has a key and an owner of its own.
LEMMA NewRow ==
  ASSUME IInv, NEW p \in Procs, Inserts(p)
  PROVE  /\ nextId \in Ids /\ nextId \notin Rows /\ Rows' = Rows \cup {nextId}
         /\ nextId' = nextId + 1 /\ UNCHANGED <<removals, barred, admissible>>
         /\ apps'[nextId] \in App /\ Owner(apps'[nextId]) = loc[p].tenant
         /\ apps'[nextId].tenant # Null /\ ~ apps'[nextId].disabled
         /\ \A j \in Rows : /\ apps'[j] = apps[j] /\ apps[j].key # apps'[nextId].key
                            /\ Owner(apps[j]) # Owner(apps'[nextId])
<1>1. PICK k \in Keys, t \in Keys :
        /\ Conflicts(k, t) = {} /\ loc[p].tenant = t /\ Insert(k, t)
        /\ \/ pc[p] = "ensure" /\ pc'[p] = "tenant" /\ k = t /\ t \in Tenants
           \/ pc[p] = "create" /\ pc'[p] = "idle" /\ k \in Minted /\ t \in Tenants \cup {k}
  BY DEF Inserts
<1>2. TypeOK /\ IndexesHold /\ NoUnmappedDuplicate
  BY DEF IInv
<1>3. k = t \/ (k \in Minted /\ t \in Tenants)
  BY <1>1
<1>4. /\ nextId \in Ids /\ nextId \notin Rows /\ Rows' = Rows \cup {nextId}
      /\ apps'[nextId] = [key |-> k, tenant |-> t, disabled |-> FALSE]
      /\ apps'[nextId] \in App /\ Owner(apps'[nextId]) = t
      /\ \A i \in Ids \ {nextId} : apps'[i] = apps[i]
      /\ nextId' = nextId + 1
  BY <1>1, <1>2, <1>3, InsertedRow
<1>5. t # Null
  BY <1>1, MarksAssumption
<1>6. ASSUME NEW j \in Rows
      PROVE  apps'[j] = apps[j] /\ apps[j].key # k /\ Owner(apps[j]) # t
  <2>1. j \in Ids \ {nextId}
    BY <1>4 DEF Rows
  <2>2. apps[j].key # k /\ apps[j].tenant # t
    BY <1>1 DEF Conflicts, ByKey, ByTenant
  <2>3. apps[j].key = t => apps[j].tenant # Null
    BY <1>1, <1>2, <2>2 DEF NoUnmappedDuplicate
  <2>4. QED
    BY <1>4, <2>1, <2>2, <2>3 DEF Owner
<1>7. UNCHANGED <<removals, barred, admissible>>
  BY <1>1 DEF Insert
<1>8. /\ apps'[nextId].key = k /\ apps'[nextId].tenant = t /\ ~ apps'[nextId].disabled
      /\ loc[p].tenant = t
  BY <1>1, <1>4
<1>9. QED
  BY <1>4, <1>5, <1>6, <1>7, <1>8

\* Rows that stay keep their identity, a row goes by a DELETE and comes by an
\* INSERT.
LEMMA RegistryChange ==
  ASSUME IInv, Next
  PROVE  /\ \A i \in Rows \cap Rows' : RowKept(i)
         /\ \A i \in Rows \ Rows' : \E p \in Procs : DeleteApp(p) /\ loc[p].id = i
         /\ \A i \in Rows' \ Rows : i = nextId /\ \E p \in Procs : Inserts(p)
         /\ nextId <= nextId'
<1> DEFINE Change == /\ \A i \in Rows \cap Rows' : RowKept(i)
                     /\ \A i \in Rows \ Rows' : \E p \in Procs : DeleteApp(p) /\ loc[p].id = i
                     /\ \A i \in Rows' \ Rows : i = nextId /\ \E p \in Procs : Inserts(p)
                     /\ nextId <= nextId'
<1>1. TypeOK
  BY DEF IInv
<1>2. nextId \in Nat
  BY <1>1, IdsAssumption DEF TypeOK
<1>3. ASSUME apps' = apps, nextId' = nextId PROVE Change
  BY <1>2, <1>3 DEF Rows, RowKept, Owner
<1>4. ASSUME NEW p \in Procs, Step(p) PROVE Change
  <2>1. CASE UNCHANGED Registry
    BY <1>3, <2>1 DEF Registry
  <2>2. CASE Inserts(p)
    BY <1>2, <2>2, NewRow DEF RowKept
  <2>3. CASE UpdateApp(p)
    <3>1. nextId' = nextId
      BY <2>3 DEF UpdateApp
    <3>2. QED
      BY <1>1, <1>2, <2>3, <3>1, UpdatedRow DEF RowKept
  <2>4. CASE DeleteApp(p)
    <3>1. nextId' = nextId
      BY <2>4 DEF DeleteApp
    <3>2. ASSUME NEW i \in Rows \cap Rows' PROVE apps'[i] = apps[i]
      BY <1>1, <2>4, DeletedRow DEF Rows
    <3>3. QED
      BY <1>1, <1>2, <2>4, <3>1, <3>2, DeletedRow DEF RowKept, Owner
  <2>5. QED
    BY <1>4, <2>1, <2>2, <2>3, <2>4, RegistrySteps
<1>5. ASSUME NEW p \in Procs, NEW r \in Requests, Receive(p, r) PROVE Change
  BY <1>3, <1>5 DEF Receive
<1>6. CASE Backfill
  <2>1. nextId' = nextId
    BY <1>6 DEF Backfill
  <2>2. QED
    BY <1>1, <1>2, <1>6, <2>1, BackfilledRows
<1>7. QED
  BY <1>4, <1>5, <1>6 DEF Next

LEMMA NextIdType ==
  ASSUME IInv, Next
  PROVE  nextId' \in Nat
<1>1. nextId \in Nat
  BY IdsAssumption DEF IInv, TypeOK
<1>2. ASSUME NEW p \in Procs, Step(p) PROVE nextId' \in Nat
  <2>1. UNCHANGED Registry \/ UpdateApp(p) \/ DeleteApp(p) => nextId' = nextId
    BY DEF Registry, UpdateApp, DeleteApp
  <2>2. Inserts(p) => nextId' = nextId + 1
    BY NewRow
  <2>3. QED
    BY <1>1, <1>2, <2>1, <2>2, RegistrySteps
<1>3. QED
  BY <1>1, <1>2 DEF Next, Receive, Backfill

LEMMA RegistryInv ==
  ASSUME IInv, Next
  PROVE  IndexesHold' /\ OneRowPerTenant'
<1>1. TypeOK /\ IndexesHold /\ OneRowPerTenant
  BY DEF IInv
<1>2. nextId' \in Nat
  BY NextIdType
<1>3. ASSUME NEW i \in Rows', NEW j \in Rows', i # j
      PROVE  apps'[i].key # apps'[j].key /\ Owner(apps'[i]) # Owner(apps'[j])
  <2>1. CASE i \in Rows /\ j \in Rows
    <3>1. RowKept(i) /\ RowKept(j)
      BY <2>1, RegistryChange
    <3>2. QED
      BY <1>1, <1>3, <2>1, <3>1 DEF RowKept, IndexesHold, OneRowPerTenant
  <2>2. CASE i \notin Rows
    <3>1. PICK p \in Procs : i = nextId /\ Inserts(p)
      BY <2>2, RegistryChange
    <3>2. j \in Rows
      BY <1>3, <3>1, NewRow
    <3>3. QED
      BY <3>1, <3>2, NewRow
  <2>3. CASE j \notin Rows
    <3>1. PICK p \in Procs : j = nextId /\ Inserts(p)
      BY <2>3, RegistryChange
    <3>2. i \in Rows
      BY <1>3, <3>1, NewRow
    <3>3. QED
      BY <3>1, <3>2, NewRow
  <2>4. QED
    BY <2>1, <2>2, <2>3
<1>4. ASSUME NEW i \in Rows' PROVE i < nextId'
  <2>1. CASE i \in Rows
    <3>1. i < nextId /\ i \in Nat /\ nextId \in Nat
      BY <1>1, <2>1, IdsAssumption DEF IndexesHold, Rows, Ids, TypeOK
    <3>2. QED
      BY <1>2, <3>1, RegistryChange
  <2>2. CASE i \notin Rows
    <3>1. PICK p \in Procs : i = nextId /\ Inserts(p)
      BY <2>2, RegistryChange
    <3>2. nextId \in Nat
      BY <1>1, IdsAssumption DEF TypeOK
    <3>3. QED
      BY <3>1, <3>2, NewRow
  <2>3. QED
    BY <2>1, <2>2
<1>5. QED
  BY <1>3, <1>4 DEF IndexesHold, OneRowPerTenant

-----------------------------------------------------------------------------
(* The moves of a process, and the parts of the invariant.                 *)

Answers(p) ==
  \E code \in Codes, seen \in SUBSET Keys :
    /\ Answer(p, code, seen)
    /\ code = "absent" => /\ pc[p] = "key" /\ loc[p].ensured /\ ByKey(loc[p].tenant) = {}
                          /\ UNCHANGED Registry
    /\ req[p].op # "Call" /\ req[p].scope # Platform => seen \subseteq {req[p].scope}

Mints(p) ==
  /\ pc[p] = "mint" /\ UNCHANGED <<Registry, req, reply>>
  /\ \/ UNCHANGED pc /\ loc' = [loc EXCEPT ![p].tries = @ + 1]
     \/ /\ Goto(p, "tenant")
        /\ \E k \in Minted : loc' = [loc EXCEPT ![p].minted = k,
                                       ![p].tenant = Clamp(req[p].scope, req[p].tenant, k)]

Loads(p) ==
  \E i \in Rows, d \in BOOLEAN :
    /\ pc[p] \in {"tenant", "key"} /\ UNCHANGED <<Registry, req, reply>>
    /\ req[p].op \in {"Update", "Delete"} /\ Authorized(req[p].scope, apps[i])
    /\ Goto(p, IF req[p].op = "Update" THEN "update" ELSE "delete")
    /\ loc' = [loc EXCEPT ![p] = [loc[p] EXCEPT !.id = i, !.tenant = Owner(apps[i]),
                                                !.disabled = d]]

Misses(p) ==
  /\ UNCHANGED <<Registry, req, loc, reply>>
  /\ \/ pc[p] = "tenant" /\ ByTenant(loc[p].tenant) = {} /\ Goto(p, "key")
     \/ pc[p] = "key" /\ ByKey(loc[p].tenant) = {} /\ req[p].op = "Call" /\ Goto(p, "ensure")
     \/ pc[p] = "key" /\ ByKey(loc[p].tenant) = {} /\ req[p].op = "Create" /\ Goto(p, "create")

LEMMA AuthorizedOwner ==
  ASSUME NEW scope, NEW a, Authorized(scope, a), scope # Platform
  PROVE  Owner(a) = scope
  BY DEF Authorized

LEMMA UseRowMoves ==
  ASSUME TypeOK, NEW p \in Procs, pc[p] \in {"tenant", "key"}, NEW i \in Rows, UseRow(p, i)
  PROVE  Answers(p) \/ Loads(p)
<1>1. apps[i] \in App /\ Owner(apps[i]) \in Keys
  BY RowType, OwnerType
<1>2. /\ "unauthorized" \in Codes /\ "admitted" \in Codes /\ "bad_request" \in Codes
      /\ "not_found" \in Codes /\ "ok" \in Codes
      /\ {} \in SUBSET Keys /\ {Owner(apps[i])} \in SUBSET Keys
  BY <1>1 DEF Codes
<1>3. ASSUME NEW code \in Codes \ {"absent"}, Refuse(p, code) PROVE Answers(p)
  BY <1>2, <1>3 DEF Refuse, Answers
<1>4. CASE Refuse(p, IF apps[i].disabled THEN "unauthorized" ELSE "admitted")
  BY <1>2, <1>3, <1>4
<1>5. CASE Refuse(p, "bad_request") \/ Refuse(p, "not_found")
  BY <1>2, <1>3, <1>5
<1>6. CASE Answer(p, "ok", {Owner(apps[i])}) /\ Authorized(req[p].scope, apps[i])
  BY <1>2, <1>6, AuthorizedOwner DEF Answers
<1>7. CASE req[p].op \in {"Update", "Delete"} /\ Authorized(req[p].scope, apps[i])
  <2>1. CASE \E code \in Codes \ {"absent"}, seen \in SUBSET Keys : Answer(p, code, seen)
    <3>1. req'[p] # req[p]
      BY <2>1, AnswerLeaves DEF TypeOK
    <3>2. \E code \in Codes \ {"absent"} : Refuse(p, code)
      BY <1>2, <1>7, <3>1 DEF UseRow
    <3>3. QED
      BY <1>3, <3>2
  <2>2. CASE ~ \E code \in Codes \ {"absent"}, seen \in SUBSET Keys : Answer(p, code, seen)
    <3>1. PICK d \in BOOLEAN :
            /\ Goto(p, IF req[p].op = "Update" THEN "update" ELSE "delete")
            /\ UNCHANGED <<req, reply>>
            /\ loc' = [loc EXCEPT ![p] = [loc[p] EXCEPT !.id = i, !.tenant = Owner(apps[i]),
                                                        !.disabled = d]]
      BY <2>2, UseRowStep
    <3>2. UNCHANGED Registry
      BY UseRowStep
    <3>3. QED
      BY <1>7, <3>1, <3>2 DEF Loads
  <2>3. QED
    BY <2>1, <2>2
<1>8. QED
  BY <1>4, <1>5, <1>6, <1>7 DEF UseRow

LEMMA Moves ==
  ASSUME IInv, NEW p \in Procs, Step(p)
  PROVE  Answers(p) \/ Mints(p) \/ Loads(p) \/ Misses(p) \/ EnsureTenantApp(p)
<1>1. TypeOK /\ StatementsMatchRequest /\ LoadedRowsKeepTheirTenant
  BY DEF IInv
<1>2. /\ "internal" \in Codes /\ "not_found" \in Codes /\ "ok" \in Codes /\ "absent" \in Codes
      /\ {} \in SUBSET Keys
  BY DEF Codes
<1>3. ASSUME NEW code \in Codes \ {"absent"}, Refuse(p, code) PROVE Answers(p)
  BY <1>2, <1>3 DEF Refuse, Answers
<1>4. CASE MintAppKey(p)
  BY <1>2, <1>3, <1>4 DEF MintAppKey, Mints, Goto
<1>5. CASE SelectByTenant(p)
  BY <1>1, <1>5, UseRowMoves DEF SelectByTenant, ByTenant, Misses
<1>6. CASE SelectByKey(p)
  <2>1. CASE \E i \in ByKey(loc[p].tenant) : UseRow(p, i)
    BY <1>1, <1>6, <2>1, UseRowMoves DEF SelectByKey, ByKey
  <2>2. CASE Refuse(p, "not_found")
    BY <1>2, <1>3, <2>2
  <2>3. CASE loc[p].ensured /\ ByKey(loc[p].tenant) = {} /\ Refuse(p, "absent")
    BY <1>2, <1>6, <2>3 DEF SelectByKey, Refuse, Answers
  <2>4. QED
    BY <1>6, <2>1, <2>2, <2>3 DEF SelectByKey, Misses
<1>7. CASE CreateApp(p)
  <2>1. CASE Refuse(p, "internal")
    BY <1>2, <1>3, <2>1
  <2>2. CASE Answer(p, "ok", {loc[p].tenant})
    <3>1. pc[p] = "create" /\ req[p].op = "Create"
      BY <1>1, <1>7 DEF CreateApp, StatementsMatchRequest
    <3>2. /\ loc[p].minted \in Minted /\ loc[p].tenant \in Tenants \cup {loc[p].minted}
          /\ req[p].scope # Platform => loc[p].tenant = req[p].scope
      BY <1>1, <3>1, CreatesFor
    <3>3. {loc[p].tenant} \in SUBSET Keys
      BY <3>2 DEF Keys
    <3>4. QED
      BY <1>2, <2>2, <3>2, <3>3 DEF Answers
  <2>3. QED
    BY <1>7, <2>1, <2>2 DEF CreateApp
<1>8. CASE UpdateApp(p)
  <2>1. /\ Answer(p, "ok", {loc[p].tenant}) /\ {loc[p].tenant} \in SUBSET Keys
        /\ req[p].scope # Platform => loc[p].tenant = req[p].scope
    BY <1>1, <1>8 DEF UpdateApp, LoadedRowsKeepTheirTenant
  <2>2. QED
    BY <1>2, <2>1 DEF Answers
<1>9. CASE DeleteApp(p)
  BY <1>2, <1>9 DEF DeleteApp, Answers
<1>10. CASE ListApps(p)
  <2> DEFINE shown == {Owner(apps[i]) : i \in {j \in Rows : Authorized(req[p].scope, apps[j])}}
  <2>1. shown \in SUBSET Keys
    BY <1>1, RowType, OwnerType
  <2>2. req[p].scope # Platform => shown \subseteq {req[p].scope}
    BY AuthorizedOwner
  <2>3. Answer(p, "ok", shown)
    BY <1>10 DEF ListApps
  <2> HIDE DEF shown
  <2>4. QED
    BY <1>2, <2>1, <2>2, <2>3 DEF Answers
<1>11. CASE Fail(p)
  BY <1>2, <1>3, <1>11 DEF Fail
<1>12. QED
  BY <1>4, <1>5, <1>6, <1>7, <1>8, <1>9, <1>10, <1>11 DEF Step

\* What a move leaves of the process that makes it.
LEMMA AnswersLeave ==
  ASSUME TypeOK, NEW p \in Procs, pc[p] # "idle", Answers(p)
  PROVE  pc'[p] = "idle" /\ loc'[p] = NoLocals
  BY AnswerLeaves DEF Answers

LEMMA StatementsInv ==
  ASSUME IInv, NEW p \in Procs, Step(p) \/ \E r \in Requests : Receive(p, r)
  PROVE  StatementsMatchRequest'
<1> DEFINE Matches(q) ==
      /\ loc[q].ensured => pc[q] # "idle" /\ req[q].op = "Call"
      /\ pc[q] # "idle" =>
           /\ Identified(req[q])
           /\ pc[q] = "ensure" => req[q].op = "Call"
           /\ pc[q] \in {"mint", "create"} => req[q].op = "Create"
           /\ pc[q] = "update" => req[q].op = "Update"
           /\ pc[q] = "delete" => req[q].op = "Delete"
           /\ pc[q] = "list" <=> req[q].op = "List"
           /\ req[q].op = "Call" => loc[q].tenant = req[q].tenant
           /\ req[q].op = "Create" /\ pc[q] # "mint" =>
                /\ loc[q].minted \in Minted
                /\ loc[q].tenant = Clamp(req[q].scope, req[q].tenant, loc[q].minted)
<1>1. TypeOK /\ Matches(p)
  BY DEF IInv, StatementsMatchRequest
<1>2. Matches(p)'
  <2>1. CASE Answers(p) /\ pc[p] # "idle"
    BY <1>1, <2>1, AnswersLeave DEF NoLocals
  <2>2. CASE Mints(p)
    <3>1. /\ pc[p] = "mint" /\ req' = req /\ req[p].op = "Create" /\ Identified(req[p])
          /\ pc'[p] \in {"mint", "tenant"}
      BY <1>1, <2>2 DEF Mints, Goto, TypeOK
    <3>2. pc'[p] # "mint" =>
            \E k \in Minted : loc'[p].minted = k /\ loc'[p].tenant = Clamp(req[p].scope, req[p].tenant, k)
      <4>1. CASE pc' = pc
        BY <3>1, <4>1
      <4>2. ASSUME NEW k \in Minted, NEW t,
                   loc' = [loc EXCEPT ![p].minted = k, ![p].tenant = t]
            PROVE  loc'[p].minted = k /\ loc'[p].tenant = t
        BY <1>1, <4>2 DEF TypeOK, Locals
      <4>3. QED
        BY <2>2, <4>1, <4>2 DEF Mints
    <3>3. loc'[p].ensured = loc[p].ensured
      <4>1. ASSUME NEW k, NEW t, loc' = [loc EXCEPT ![p].minted = k, ![p].tenant = t]
            PROVE  loc'[p].ensured = loc[p].ensured
        BY <1>1, <4>1 DEF TypeOK, Locals
      <4>2. CASE loc' = [loc EXCEPT ![p].tries = @ + 1]
        BY <1>1, <4>2 DEF TypeOK, Locals
      <4>3. QED
        BY <2>2, <4>1, <4>2 DEF Mints
    <3>4. QED
      BY <1>1, <3>1, <3>2, <3>3
  <2>3. CASE Loads(p)
    <3>1. /\ pc[p] \in {"tenant", "key"} /\ req' = req /\ req[p].op \in {"Update", "Delete"}
          /\ pc'[p] = IF req[p].op = "Update" THEN "update" ELSE "delete"
      BY <1>1, <2>3 DEF Loads, Goto, TypeOK
    <3>2. loc'[p].ensured = loc[p].ensured
      BY <1>1, <2>3 DEF Loads, TypeOK, Locals
    <3>3. QED
      BY <1>1, <3>1, <3>2
  <2>4. CASE Misses(p)
    BY <1>1, <2>4 DEF Misses, Goto, TypeOK
  <2>5. CASE EnsureTenantApp(p)
    <3>1. pc[p] = "ensure" /\ pc'[p] = "tenant" /\ req' = req /\ loc'[p].tenant = loc[p].tenant
      BY <1>1, <2>5 DEF EnsureTenantApp, Goto, TypeOK, Locals
    <3>2. QED
      BY <1>1, <3>1
  <2>6. ASSUME NEW r \in Requests, Receive(p, r) PROVE Matches(p)'
    <3>1. CASE UNCHANGED <<pc, req, loc>>
      BY <1>1, <3>1
    <3>2. CASE /\ Identified(r) /\ req' = [req EXCEPT ![p] = r] /\ Goto(p, FirstStatement(r))
               /\ loc' = [loc EXCEPT ![p].tenant =
                            IF r.op \in {"Create", "List"} THEN None ELSE r.tenant]
      <4>1. /\ req'[p] = r /\ pc'[p] = FirstStatement(r)
            /\ r.op = "Call" => loc'[p].tenant = r.tenant
            /\ loc'[p].ensured = loc[p].ensured /\ ~ loc[p].ensured
        BY <1>1, <2>6, <3>2 DEF Receive, TypeOK, Goto, Locals
      <4>2. /\ FirstStatement(r) \in {"tenant", "mint", "list"}
            /\ FirstStatement(r) = "mint" <=> r.op = "Create"
            /\ FirstStatement(r) = "list" <=> r.op = "List"
        BY RequestFields DEF FirstStatement
      <4>3. QED
        BY <3>2, <4>1, <4>2
    <3>3. QED
      BY <2>6, <3>1, <3>2 DEF Receive
  <2>7. Step(p) => pc[p] # "idle"
    BY DEF Step, MintAppKey, SelectByTenant, SelectByKey, EnsureTenantApp, CreateApp, UpdateApp,
       DeleteApp, ListApps, Fail
  <2>8. QED
    BY <2>1, <2>2, <2>3, <2>4, <2>5, <2>6, <2>7, Moves
<1>3. ASSUME NEW q \in Procs \ {p} PROVE Matches(q)'
  <2>1. pc'[q] = pc[q] /\ req'[q] = req[q] /\ loc'[q] = loc[q]
    BY <1>1, OthersStay
  <2>2. Matches(q)
    BY DEF IInv, StatementsMatchRequest
  <2>3. QED
    BY <2>1, <2>2
<1>4. QED
  BY <1>2, <1>3 DEF StatementsMatchRequest

\* A process that waits keeps the row it loaded, and its tenant.
LEMMA LoadedInv ==
  ASSUME IInv, Next
  PROVE  LoadedRowsKeepTheirTenant'
<1> DEFINE Loaded(q) ==
      pc[q] \in {"update", "delete"} =>
        /\ loc[q].id \in Ids /\ loc[q].id < nextId
        /\ loc[q].tenant \in Keys
        /\ req[q].scope # Platform => loc[q].tenant = req[q].scope
        /\ loc[q].id \in Rows => Owner(apps[loc[q].id]) = loc[q].tenant
<1>1. /\ TypeOK /\ IndexesHold /\ nextId \in Nat /\ nextId' \in Nat /\ nextId <= nextId'
  <2>1. TypeOK /\ IndexesHold /\ nextId \in Nat
    BY IdsAssumption DEF IInv, TypeOK
  <2>2. nextId' \in Nat
    BY NextIdType
  <2>3. QED
    BY <2>1, <2>2, RegistryChange
<1>2. ASSUME NEW q \in Procs, pc'[q] = pc[q], req'[q] = req[q], loc'[q] = loc[q]
      PROVE  Loaded(q)'
  <2>1. Loaded(q)
    BY DEF IInv, LoadedRowsKeepTheirTenant
  <2>2. ASSUME NEW i \in Ids, i < nextId, i \in Rows'
        PROVE  i \in Rows /\ Owner(apps'[i]) = Owner(apps[i])
    <3>1. i # nextId
      BY <1>1, <2>2 DEF Ids
    <3>2. QED
      BY <2>2, <3>1, RegistryChange DEF RowKept
  <2>3. ASSUME NEW i \in Ids, i < nextId PROVE i < nextId'
    BY <1>1, <2>3 DEF Ids
  <2>4. QED
    BY <1>2, <2>1, <2>2, <2>3
<1>3. ASSUME NEW p \in Procs, Step(p) PROVE Loaded(p)'
  <2>1. CASE Answers(p)
    <3>1. pc[p] # "idle"
      BY <1>3 DEF Step, MintAppKey, SelectByTenant, SelectByKey, EnsureTenantApp, CreateApp,
         UpdateApp, DeleteApp, ListApps, Fail
    <3>2. QED
      BY <1>1, <2>1, <3>1, AnswersLeave
  <2>2. CASE Mints(p) \/ Misses(p) \/ EnsureTenantApp(p)
    BY <1>1, <2>2 DEF Mints, Misses, EnsureTenantApp, Goto, TypeOK
  <2>3. CASE Loads(p)
    <3>1. PICK i \in Rows, d \in BOOLEAN :
            /\ UNCHANGED <<Registry, req, reply>> /\ Authorized(req[p].scope, apps[i])
            /\ loc' = [loc EXCEPT ![p] = [loc[p] EXCEPT !.id = i, !.tenant = Owner(apps[i]),
                                                        !.disabled = d]]
      BY <2>3 DEF Loads
    <3>2. loc'[p].id = i /\ loc'[p].tenant = Owner(apps[i])
      BY <1>1, <3>1 DEF TypeOK, Locals
    <3>3. i \in Ids /\ i < nextId /\ Owner(apps[i]) \in Keys
      BY <1>1, RowType, OwnerType DEF IndexesHold
    <3>4. req[p].scope # Platform => Owner(apps[i]) = req[p].scope
      BY <3>1, AuthorizedOwner
    <3>5. QED
      BY <3>1, <3>2, <3>3, <3>4 DEF Registry
  <2>4. QED
    BY <1>3, <2>1, <2>2, <2>3, Moves
<1>4. ASSUME NEW p \in Procs, NEW r \in Requests, Receive(p, r) PROVE Loaded(p)'
  <2>1. CASE UNCHANGED <<pc, req, loc>>
    BY <1>2, <2>1
  <2>2. CASE Goto(p, FirstStatement(r))
    BY <1>1, <2>2, RequestFields DEF Goto, FirstStatement, TypeOK
  <2>3. QED
    BY <1>4, <2>1, <2>2 DEF Receive
<1>5. CASE Backfill
  BY <1>2, <1>5 DEF Backfill, LoadedRowsKeepTheirTenant
<1>6. CASE \E p \in Procs : Step(p) \/ \E r \in Requests : Receive(p, r)
  <2>1. PICK p \in Procs : Step(p) \/ \E r \in Requests : Receive(p, r)
    BY <1>6
  <2>2. ASSUME NEW q \in Procs PROVE Loaded(q)'
    BY <1>1, <1>2, <1>3, <1>4, <2>1, OthersStay
  <2>3. QED
    BY <2>2 DEF LoadedRowsKeepTheirTenant
<1>7. QED
  BY <1>5, <1>6 DEF Next

LEMMA NoUnmappedInv ==
  ASSUME IInv, Next
  PROVE  NoUnmappedDuplicate'
<1>1. TypeOK /\ NoUnmappedDuplicate /\ StatementsMatchRequest
  BY DEF IInv
<1>2. ASSUME NEW q \in Procs, pc'[q] = "create", NEW i \in Rows, i \in Rows',
             apps'[i].key = loc'[q].tenant
      PROVE  apps[i].tenant # Null
  <2>1. apps[i].key = loc'[q].tenant
    BY <1>2, RegistryChange DEF RowKept
  <2>2. CASE pc[q] = "create" /\ loc'[q] = loc[q]
    BY <1>1, <2>1, <2>2 DEF NoUnmappedDuplicate
  <2>3. CASE Step(q)
    <3>1. ~ Answers(q)
      <4>1. pc[q] # "idle"
        BY <2>3 DEF Step, MintAppKey, SelectByTenant, SelectByKey, EnsureTenantApp, CreateApp,
           UpdateApp, DeleteApp, ListApps, Fail
      <4>2. QED
        BY <1>1, <1>2, <4>1, AnswersLeave
    <3>2. ~ Mints(q) /\ ~ Loads(q) /\ ~ EnsureTenantApp(q)
      BY <1>1, <1>2 DEF Mints, Loads, EnsureTenantApp, Goto, TypeOK
    <3>3. ByKey(loc[q].tenant) = {} /\ loc' = loc
      <4>1. Misses(q)
        BY <2>3, <3>1, <3>2, Moves
      <4>2. QED
        BY <1>1, <1>2, <4>1 DEF Misses, Goto, TypeOK
    <3>4. QED
      BY <2>1, <3>3 DEF ByKey
  <2>4. CASE \E r \in Requests : Receive(q, r)
    BY <1>1, <1>2, <2>4, RequestFields DEF Receive, Goto, FirstStatement, TypeOK
  <2>5. CASE Backfill
    BY <1>2, <2>2, <2>5 DEF Backfill
  <2>6. ASSUME NEW p \in Procs \ {q}, Step(p) \/ \E r \in Requests : Receive(p, r)
        PROVE  apps[i].tenant # Null
    BY <1>1, <1>2, <2>2, <2>6, OthersStay
  <2>7. QED
    BY <2>3, <2>4, <2>5, <2>6 DEF Next
<1>3. ASSUME NEW q \in Procs, NEW i \in Rows', pc'[q] = "create", apps'[i].key = loc'[q].tenant
      PROVE  apps'[i].tenant # Null
  <2>1. CASE i \in Rows
    BY <1>2, <1>3, <2>1, RegistryChange DEF RowKept
  <2>2. CASE i \notin Rows
    <3>1. \E p \in Procs : Inserts(p) /\ i = nextId
      BY <1>3, <2>2, RegistryChange
    <3>2. QED
      BY <3>1, NewRow
  <2>3. QED
    BY <2>1, <2>2
<1>4. QED
  BY <1>3 DEF NoUnmappedDuplicate

\* The history of removals grows while a request runs.
LEMMA RemovalsGrow ==
  ASSUME IInv, NEW p \in Procs, Step(p)
  PROVE  removals \subseteq removals'
<1>1. TypeOK
  BY DEF IInv
<1>2. CASE UNCHANGED Registry
  BY <1>2 DEF Registry
<1>3. CASE Inserts(p)
  BY <1>3, NewRow
<1>4. CASE UpdateApp(p)
  BY <1>4 DEF UpdateApp
<1>5. CASE DeleteApp(p)
  BY <1>1, <1>5, DeletedRow
<1>6. QED
  BY <1>2, <1>3, <1>4, <1>5, RegistrySteps

\* A row that somebody's tenant owns stays, or its removal is remembered.
LEMMA RowStaysOrIsRemoved ==
  ASSUME IInv, Next, NEW q \in Procs, NEW i \in Rows, Owner(apps[i]) = loc[q].tenant,
         q \notin removals'
  PROVE  i \in Rows' /\ RowKept(i)
<1>1. TypeOK
  BY DEF IInv
<1>2. i \in Rows'
  <2>1. SUFFICES ASSUME i \notin Rows' PROVE FALSE
    OBVIOUS
  <2>2. PICK p \in Procs : DeleteApp(p) /\ loc[p].id = i
    BY <2>1, RegistryChange
  <2>3. QED
    BY <1>1, <2>2, DeletedRow
<1>3. QED
  BY <1>2, RegistryChange

LEMMA EnsuredInv ==
  ASSUME IInv, Next
  PROVE  EnsuredRowFound'
<1> DEFINE Found(q) ==
      loc[q].ensured /\ pc[q] \in {"tenant", "key"} /\ q \notin removals =>
        \E i \in Rows : /\ Owner(apps[i]) = loc[q].tenant
                        /\ pc[q] = "key" => apps[i].key = loc[q].tenant
<1>1. TypeOK /\ StatementsMatchRequest /\ (\A q \in Procs : Found(q))
  BY DEF IInv, EnsuredRowFound
<1>2. ASSUME NEW q \in Procs, pc'[q] = pc[q], loc'[q] = loc[q], q \in removals => q \in removals'
      PROVE  Found(q)'
  BY <1>1, <1>2, RowStaysOrIsRemoved DEF RowKept
<1>3. ASSUME NEW p \in Procs, Step(p) PROVE Found(p)'
  <2>1. CASE Answers(p)
    <3>1. pc[p] # "idle"
      BY <1>3 DEF Step, MintAppKey, SelectByTenant, SelectByKey, EnsureTenantApp, CreateApp,
         UpdateApp, DeleteApp, ListApps, Fail
    <3>2. QED
      BY <1>1, <2>1, <3>1, AnswersLeave
  <2>2. CASE Mints(p)
    <3>1. pc[p] = "mint" /\ req' = req /\ pc'[p] # "idle"
      BY <1>1, <2>2 DEF Mints, Goto, TypeOK
    <3>2. req[p].op = "Create" /\ StatementsMatchRequest'
      BY <1>1, <1>3, <3>1, StatementsInv DEF StatementsMatchRequest
    <3>3. ~ loc'[p].ensured
      BY <3>1, <3>2 DEF StatementsMatchRequest
    <3>4. QED
      BY <3>3
  <2>3. CASE Loads(p)
    BY <1>1, <2>3 DEF Loads, Goto, TypeOK
  <2>4. CASE Misses(p)
    <3>1. /\ UNCHANGED <<apps, removals>> /\ loc' = loc /\ Rows' = Rows
      BY <2>4 DEF Misses, Registry, Rows
    <3>2. SUFFICES ASSUME pc'[p] \in {"tenant", "key"}, loc[p].ensured, p \notin removals
                   PROVE  Found(p)'
      BY <3>1
    <3>3. pc[p] = "tenant" /\ pc'[p] = "key" /\ ByTenant(loc[p].tenant) = {}
      BY <1>1, <2>4, <3>2 DEF Misses, Goto, TypeOK
    <3>4. PICK i \in Rows : Owner(apps[i]) = loc[p].tenant
      BY <1>1, <3>2, <3>3
    <3>5. apps[i].key = loc[p].tenant
      BY <3>3, <3>4 DEF ByTenant, Owner
    <3>6. Owner(apps'[i]) = loc'[p].tenant /\ apps'[i].key = loc'[p].tenant
      BY <3>1, <3>4, <3>5
    <3>7. QED
      BY <3>1, <3>6
  <2>5. CASE EnsureTenantApp(p)
    <3> DEFINE t == loc[p].tenant
    <3>1. pc[p] = "ensure" /\ pc'[p] = "tenant" /\ loc'[p].tenant = t
      BY <1>1, <2>5 DEF EnsureTenantApp, Goto, TypeOK, Locals
    <3>2. t \in Tenants /\ t \in Keys /\ t \notin Minted /\ t # Null
      BY <1>1, <3>1, CallsFor, KeysAssumption, MarksAssumption DEF StatementsMatchRequest, Keys
    <3>3. CASE Conflicts(t, t) # {}
      <4>1. UNCHANGED Registry
        BY <2>5, <3>3 DEF EnsureTenantApp
      <4>2. PICK i \in Rows : apps[i].key = t \/ apps[i].tenant = t
        BY <3>3 DEF Conflicts, ByKey, ByTenant
      <4>3. apps[i] \in App
        BY <1>1, RowType
      <4>4. Owner(apps[i]) = t
        BY <3>2, <4>2, <4>3, OwnerType DEF Owner
      <4>5. i \in Rows' /\ Owner(apps'[i]) = t
        BY <4>1, <4>4 DEF Registry, Rows, Owner
      <4>6. QED
        BY <3>1, <4>5
    <3>4. CASE Conflicts(t, t) = {}
      <4>1. Inserts(p)
        BY <2>5, <3>1, <3>2, <3>4 DEF EnsureTenantApp, Inserts
      <4>2. nextId \in Rows' /\ Owner(apps'[nextId]) = t
        BY <4>1, NewRow
      <4>3. QED
        BY <3>1, <4>2
    <3>5. QED
      BY <3>3, <3>4
  <2>6. QED
    BY <1>3, <2>1, <2>2, <2>3, <2>4, <2>5, Moves
<1>4. ASSUME NEW p \in Procs, NEW r \in Requests, Receive(p, r) PROVE Found(p)'
  <2>1. ~ loc[p].ensured /\ loc[p] \in Locals
    BY <1>1, <1>4 DEF Receive, StatementsMatchRequest, TypeOK
  <2>2. ~ loc'[p].ensured
    BY <1>1, <1>4, <2>1 DEF Receive, TypeOK, Locals
  <2>3. QED
    BY <2>2
<1>5. CASE Backfill
  BY <1>2, <1>5 DEF Backfill, EnsuredRowFound
<1>6. CASE \E p \in Procs : Step(p) \/ \E r \in Requests : Receive(p, r)
  <2>1. PICK p \in Procs : Step(p) \/ \E r \in Requests : Receive(p, r)
    BY <1>6
  <2>2. ASSUME NEW q \in Procs \ {p} PROVE Found(q)'
    <3>1. pc'[q] = pc[q] /\ loc'[q] = loc[q]
      BY <1>1, <2>1, OthersStay
    <3>2. q \in removals => q \in removals'
      BY <2>1, RemovalsGrow DEF Receive
    <3>3. QED
      BY <1>2, <3>1, <3>2
  <2>3. ASSUME NEW q \in Procs PROVE Found(q)'
    BY <1>3, <1>4, <2>1, <2>2
  <2>4. QED
    BY <2>3 DEF EnsuredRowFound
<1>7. QED
  BY <1>5, <1>6 DEF Next

LEMMA RepliesInv ==
  ASSUME IInv, Next
  PROVE  SeesOwnTenant' /\ AbsentMeansDeleted'
<1> DEFINE Good(q) == /\ reply[q].scope \in Tenants => reply[q].seen \subseteq {reply[q].scope}
                      /\ reply[q].code = "absent" => q \in removals
<1>1. TypeOK /\ (\A q \in Procs : Good(q))
  BY DEF IInv, SeesOwnTenant, AbsentMeansDeleted
<1>2. ASSUME NEW q \in Procs, reply'[q] = reply[q], q \in removals => q \in removals'
      PROVE  Good(q)'
  BY <1>1, <1>2
<1>3. ASSUME NEW p \in Procs, Step(p) PROVE Good(p)'
  <2>1. pc[p] # "idle"
    BY <1>3 DEF Step, MintAppKey, SelectByTenant, SelectByKey, EnsureTenantApp, CreateApp,
       UpdateApp, DeleteApp, ListApps, Fail
  <2>2. CASE Answers(p)
    <3>1. PICK code \in Codes, seen \in SUBSET Keys :
            /\ Answer(p, code, seen)
            /\ code = "absent" => /\ pc[p] = "key" /\ loc[p].ensured /\ ByKey(loc[p].tenant) = {}
                                  /\ UNCHANGED Registry
            /\ req[p].op # "Call" /\ req[p].scope # Platform => seen \subseteq {req[p].scope}
      BY <2>2 DEF Answers
    <3>2. /\ reply'[p].code = code /\ reply'[p].seen = seen
          /\ req[p].op = "Call" => reply'[p].scope = None
          /\ req[p].op # "Call" => reply'[p].scope = req[p].scope
      BY <1>1, <2>1, <3>1, AnswerLeaves
    <3>3. Platform \notin Tenants /\ None \notin Tenants
      BY MarksAssumption DEF Keys
    <3>4. code = "absent" => p \in removals'
      <4>1. SUFFICES ASSUME code = "absent", p \notin removals PROVE FALSE
        BY <3>1 DEF Registry
      <4>2. \E i \in Rows : apps[i].key = loc[p].tenant
        BY <3>1, <4>1 DEF IInv, EnsuredRowFound
      <4>3. QED
        BY <3>1, <4>1, <4>2 DEF ByKey
    <3>5. QED
      BY <3>1, <3>2, <3>3, <3>4
  <2>3. CASE ~ Answers(p)
    <3>1. reply' = reply
      BY <1>3, <2>3, Moves DEF Mints, Loads, Misses, EnsureTenantApp
    <3>2. QED
      BY <1>2, <1>3, <3>1, RemovalsGrow
  <2>4. QED
    BY <2>2, <2>3
<1>4. ASSUME NEW p \in Procs, NEW r \in Requests, Receive(p, r) PROVE Good(p)'
  <2>1. reply'[p].seen = {} /\ reply'[p].code # "absent"
    BY <1>1, <1>4 DEF Receive, NoReply, TypeOK
  <2>2. QED
    BY <2>1
<1>5. CASE Backfill
  BY <1>2, <1>5 DEF Backfill, SeesOwnTenant, AbsentMeansDeleted
<1>6. CASE \E p \in Procs : Step(p) \/ \E r \in Requests : Receive(p, r)
  <2>1. PICK p \in Procs : Step(p) \/ \E r \in Requests : Receive(p, r)
    BY <1>6
  <2>2. ASSUME NEW q \in Procs \ {p} PROVE Good(q)'
    <3>1. q \in removals => q \in removals'
      BY <2>1, RemovalsGrow DEF Receive
    <3>2. QED
      BY <1>1, <1>2, <2>1, <3>1, OthersStay
  <2>3. ASSUME NEW q \in Procs PROVE Good(q)'
    BY <1>3, <1>4, <2>1, <2>2
  <2>4. QED
    BY <2>3 DEF SeesOwnTenant, AbsentMeansDeleted
<1>7. QED
  BY <1>5, <1>6 DEF Next

-----------------------------------------------------------------------------
(* Doors.                                                                  *)

\* The door of a tenant is the one row it owns.
LEMMA DoorIsOwned ==
  ASSUME TypeOK, OneRowPerTenant, NEW t \in Tenants
  PROVE  Door(t) = {i \in Rows : Owner(apps[i]) = t}
<1>1. ASSUME NEW i \in Rows
      PROVE  /\ apps[i].tenant = t => Owner(apps[i]) = t
             /\ Owner(apps[i]) = t => apps[i].tenant = t \/ apps[i].key = t
             /\ apps[i].key = t => Owner(apps[i]) = t
  <2>1. /\ apps[i].tenant \in {Null, apps[i].key} \/ (apps[i].key \in Minted /\ apps[i].tenant \in Tenants)
    BY RowType, OwnerType
  <2>2. t \notin Minted /\ t # Null
    BY KeysAssumption, MarksAssumption DEF Keys
  <2>3. QED
    BY <2>1, <2>2 DEF Owner
<1>2. CASE ByTenant(t) = {}
  BY <1>1, <1>2 DEF Door, ByTenant, ByKey
<1>3. CASE ByTenant(t) # {}
  <2>1. PICK j \in Rows : apps[j].tenant = t
    BY <1>3 DEF ByTenant
  <2>2. ASSUME NEW i \in Rows, Owner(apps[i]) = t PROVE i = j
    BY <1>1, <2>1, <2>2 DEF OneRowPerTenant
  <2>3. QED
    BY <1>1, <1>3, <2>1, <2>2 DEF Door, ByTenant
<1>4. QED
  BY <1>2, <1>3

\* What a step makes of the tenants that are barred, and of the calls under way.
LEMMA BarsMove ==
  ASSUME IInv, NEW p \in Procs, Step(p)
  PROVE  /\ admissible \subseteq admissible'
         /\ \A q \in Procs : pc[q] # "idle" /\ req[q].op = "Call" /\ req[q].tenant \in barred =>
              req[q].tenant \in barred' \/ q \in admissible'
         /\ \A t \in barred' : \E i \in Rows' : Owner(apps'[i]) = t /\ apps'[i].disabled
<1>1. TypeOK /\ \A t \in barred : \E i \in Rows : Owner(apps[i]) = t /\ apps[i].disabled
  BY DEF IInv, BarsRecorded
<1>2. CASE UNCHANGED Registry
  BY <1>1, <1>2 DEF Registry, Rows, Owner
<1>3. CASE Inserts(p)
  BY <1>1, <1>3, NewRow
<1>4. CASE UpdateApp(p) /\ loc[p].id \notin Rows
  BY <1>1, <1>4 DEF UpdateApp, Rows, Owner
<1>5. CASE UpdateApp(p) /\ loc[p].id \in Rows
  <2> DEFINE i == loc[p].id
             o == Owner(apps[i])
  <2>1. /\ i \in Rows /\ Rows' = Rows /\ \A j \in Rows : Owner(apps'[j]) = Owner(apps[j])
        /\ \A j \in Rows \ {i} : apps'[j] = apps[j]
    BY <1>1, <1>5, UpdatedRow DEF Rows
  <2>2. apps'[i].disabled = loc[p].disabled
    <3>1. apps[i] \in App /\ i \in Ids
      BY <1>1, <2>1, RowType
    <3>2. QED
      BY <1>1, <1>5, <3>1 DEF UpdateApp, TypeOK, App
  <2>3. CASE loc[p].disabled
    <3>1. barred' = barred \cup ({o} \cap Tenants) /\ admissible' = admissible
      BY <1>5, <2>3 DEF UpdateApp, Bar
    <3> HIDE DEF i, o
    <3>2. ASSUME NEW t \in barred' PROVE \E j \in Rows' : Owner(apps'[j]) = t /\ apps'[j].disabled
      <4>1. CASE t = o
        BY <2>1, <2>2, <2>3, <4>1 DEF o
      <4>2. CASE t # o
        <5>1. PICK j \in Rows : Owner(apps[j]) = t /\ apps[j].disabled
          BY <1>1, <3>1, <3>2, <4>2
        <5>2. QED
          BY <2>1, <4>2, <5>1 DEF o
      <4>3. QED
        BY <4>1, <4>2
    <3>3. QED
      BY <3>1, <3>2
  <2>4. CASE ~ loc[p].disabled
    <3>1. Unbar(o)
      BY <1>5, <2>4 DEF UpdateApp
    <3> HIDE DEF i, o
    <3>2. ASSUME NEW t \in barred' PROVE \E j \in Rows' : Owner(apps'[j]) = t /\ apps'[j].disabled
      <4>1. t \in barred /\ t # o
        BY <3>1, <3>2 DEF Unbar
      <4>2. PICK j \in Rows : Owner(apps[j]) = t /\ apps[j].disabled
        BY <1>1, <4>1
      <4>3. QED
        BY <2>1, <4>1, <4>2 DEF o
    <3>3. QED
      BY <3>1, <3>2 DEF Unbar
  <2>5. QED
    BY <2>3, <2>4
<1>6. CASE DeleteApp(p)
  <2>1. CASE loc[p].id \notin Rows
    <3>1. barred' = barred /\ admissible' = admissible
      BY <1>6, <2>1 DEF DeleteApp
    <3>2. Rows' = Rows /\ \A j \in Rows : apps'[j] = apps[j]
      BY <1>1, <1>6, <2>1, DeletedRow DEF Rows
    <3>3. QED
      BY <1>1, <3>1, <3>2 DEF Owner
  <2>2. CASE loc[p].id \in Rows
    <3> DEFINE o == Owner(apps[loc[p].id])
    <3>1. Unbar(o)
      BY <1>6, <2>2 DEF DeleteApp
    <3>2. Rows' = Rows \ {loc[p].id} /\ \A j \in Rows' : apps'[j] = apps[j]
      BY <1>1, <1>6, DeletedRow DEF Rows
    <3> HIDE DEF o
    <3>3. ASSUME NEW t \in barred' PROVE \E j \in Rows' : Owner(apps'[j]) = t /\ apps'[j].disabled
      <4>1. t \in barred /\ t # o
        BY <3>1, <3>3 DEF Unbar
      <4>2. PICK j \in Rows : Owner(apps[j]) = t /\ apps[j].disabled
        BY <1>1, <4>1
      <4>3. j \in Rows' /\ apps'[j] = apps[j]
        BY <3>2, <4>1, <4>2 DEF o
      <4>4. QED
        BY <4>2, <4>3 DEF Owner
    <3>4. QED
      BY <3>1, <3>3 DEF Unbar
  <2>3. QED
    BY <2>1, <2>2
<1>7. QED
  BY <1>2, <1>3, <1>4, <1>5, <1>6, RegistrySteps

\* A call that is admitted has just read its tenant's row, and it was not disabled.
LEMMA AdmittedRow ==
  ASSUME IInv, NEW p \in Procs, Step(p), reply'[p] # reply[p], reply'[p].code = "admitted"
  PROVE  /\ pc[p] # "idle" /\ req[p].op = "Call" /\ UNCHANGED Registry
         /\ \E i \in Rows : Owner(apps[i]) = req[p].tenant /\ ~ apps[i].disabled
<1>1. TypeOK /\ StatementsMatchRequest
  BY DEF IInv
<1>2. ASSUME NEW code, NEW seen, Answer(p, code, seen) PROVE code = "admitted"
  BY <1>1, <1>2 DEF Answer, TypeOK
<1>3. ASSUME NEW i \in Rows, pc[p] \in {"tenant", "key"}, UseRow(p, i)
      PROVE  req[p].op = "Call" /\ ~ apps[i].disabled /\ UNCHANGED Registry
  <2>1. reply' # reply
    OBVIOUS
  <2>2. QED
    BY <1>2, <1>3, <2>1 DEF UseRow, Refuse
<1>4. CASE SelectByTenant(p)
  <2>1. PICK i \in ByTenant(loc[p].tenant) : UseRow(p, i)
    BY <1>4 DEF SelectByTenant
  <2>2. i \in Rows /\ pc[p] = "tenant" /\ apps[i].tenant = loc[p].tenant
    BY <1>4, <2>1 DEF SelectByTenant, ByTenant
  <2>3. req[p].op = "Call" /\ ~ apps[i].disabled /\ UNCHANGED Registry
    BY <1>3, <2>1, <2>2
  <2>4. loc[p].tenant = req[p].tenant /\ loc[p].tenant \in Tenants
    BY <1>1, <2>2, <2>3, CallsFor
  <2>5. Owner(apps[i]) = req[p].tenant
    BY <2>2, <2>4, MarksAssumption DEF Owner, Keys
  <2>6. QED
    BY <2>2, <2>3, <2>5
<1>5. CASE SelectByKey(p)
  <2>1. PICK i \in ByKey(loc[p].tenant) : UseRow(p, i)
    BY <1>2, <1>5 DEF SelectByKey, Refuse
  <2>2. i \in Rows /\ pc[p] = "key" /\ apps[i].key = loc[p].tenant
    BY <1>5, <2>1 DEF SelectByKey, ByKey
  <2>3. req[p].op = "Call" /\ ~ apps[i].disabled /\ UNCHANGED Registry
    BY <1>3, <2>1, <2>2
  <2>4. loc[p].tenant = req[p].tenant /\ loc[p].tenant \in Tenants
    BY <1>1, <2>2, <2>3, CallsFor
  <2>5. apps[i].tenant \in {Null, apps[i].key}
    BY <1>1, <2>2, <2>4, RowType, OwnerType, KeysAssumption
  <2>6. Owner(apps[i]) = req[p].tenant
    BY <2>2, <2>4, <2>5 DEF Owner
  <2>7. QED
    BY <2>2, <2>3, <2>6
<1>6. CASE MintAppKey(p) \/ CreateApp(p) \/ UpdateApp(p) \/ DeleteApp(p) \/ ListApps(p) \/ Fail(p)
  BY <1>2, <1>6 DEF MintAppKey, CreateApp, UpdateApp, DeleteApp, ListApps, Fail, Refuse
<1>7. CASE EnsureTenantApp(p)
  BY <1>7 DEF EnsureTenantApp
<1>8. QED
  BY <1>4, <1>5, <1>6, <1>7 DEF Step

LEMMA BarsInv ==
  ASSUME IInv, Next
  PROVE  BarsRecorded'
<1> DEFINE Out(q) == pc[q] # "idle" /\ req[q].op = "Call" =>
                       req[q].tenant \in barred \/ q \in admissible
           In(q)  == reply[q].code = "admitted" => q \in admissible
           Shut   == \A t \in barred : \E i \in Rows : Owner(apps[i]) = t /\ apps[i].disabled
<1>1. TypeOK /\ Shut /\ \A q \in Procs : Out(q) /\ In(q)
  BY DEF IInv, BarsRecorded
<1>2. CASE Backfill
  <2>1. UNCHANGED <<pc, req, reply, barred, admissible>>
    BY <1>2 DEF Backfill
  <2>2. Shut'
    BY <1>1, <1>2, <2>1, BackfilledRows DEF RowKept
  <2>3. QED
    BY <1>1, <2>1, <2>2 DEF BarsRecorded
<1>3. ASSUME NEW p \in Procs, NEW r \in Requests, Receive(p, r) PROVE BarsRecorded'
  <2>1. Shut'
    BY <1>1, <1>3 DEF Receive, Rows, Owner
  <2>2. ASSUME NEW q \in Procs \ {p} PROVE (Out(q) /\ In(q))'
    <3>1. pc'[q] = pc[q] /\ req'[q] = req[q] /\ reply'[q] = reply[q]
      BY <1>1, <1>3, OthersStay
    <3>2. barred' = barred /\ (q \in admissible => q \in admissible')
      BY <1>3 DEF Receive
    <3>3. QED
      BY <1>1, <3>1, <3>2
  <2>3. In(p)'
    BY <1>1, <1>3 DEF Receive, NoReply, TypeOK
  <2>4. Out(p)'
    <3>1. pc'[p] # "idle" => req'[p] = r
      BY <1>1, <1>3 DEF Receive, TypeOK
    <3>2. barred' = barred /\ (r.op = "Call" /\ r.tenant \notin barred => p \in admissible')
      BY <1>3 DEF Receive
    <3>3. QED
      BY <3>1, <3>2
  <2>5. QED
    BY <2>1, <2>2, <2>3, <2>4 DEF BarsRecorded
<1>4. ASSUME NEW p \in Procs, Step(p) PROVE BarsRecorded'
  <2>1. Shut' /\ admissible \subseteq admissible'
    BY <1>4, BarsMove
  <2>2. ASSUME NEW q \in Procs, pc'[q] # "idle" => pc[q] # "idle" /\ req'[q] = req[q] PROVE Out(q)'
    <3>1. Out(q)
      BY <1>1
    <3>2. pc[q] # "idle" /\ req[q].op = "Call" /\ req[q].tenant \in barred =>
            req[q].tenant \in barred' \/ q \in admissible'
      BY <1>4, BarsMove
    <3>3. QED
      BY <2>1, <2>2, <3>1, <3>2
  <2>3. ASSUME NEW q \in Procs \ {p} PROVE (Out(q) /\ In(q))'
    <3>1. pc'[q] = pc[q] /\ req'[q] = req[q] /\ reply'[q] = reply[q]
      BY <1>1, <1>4, OthersStay
    <3>2. QED
      BY <1>1, <2>1, <2>2, <3>1
  <2>4. Out(p)'
    <3>1. pc[p] # "idle"
      BY <1>4 DEF Step, MintAppKey, SelectByTenant, SelectByKey, EnsureTenantApp, CreateApp,
         UpdateApp, DeleteApp, ListApps, Fail
    <3>2. CASE Answers(p)
      <4>1. pc'[p] = "idle"
        BY <1>1, <3>1, <3>2, AnswerLeaves DEF Answers
      <4>2. QED
        BY <4>1
    <3>3. CASE ~ Answers(p)
      <4>1. req' = req
        BY <1>4, <3>3, Moves DEF Mints, Loads, Misses, EnsureTenantApp
      <4>2. QED
        BY <2>2, <3>1, <4>1
    <3>4. QED
      BY <3>2, <3>3
  <2>5. In(p)'
    <3>1. CASE reply'[p] = reply[p]
      BY <1>1, <2>1, <3>1
    <3>2. CASE reply'[p] # reply[p]
      <4>1. SUFFICES ASSUME reply'[p].code = "admitted" PROVE p \in admissible'
        OBVIOUS
      <4>2. /\ pc[p] # "idle" /\ req[p].op = "Call" /\ UNCHANGED Registry
            /\ \E i \in Rows : Owner(apps[i]) = req[p].tenant /\ ~ apps[i].disabled
        BY <1>4, <3>2, <4>1, AdmittedRow
      <4>3. req[p].tenant \notin barred
        BY <1>1, <4>2 DEF IInv, OneRowPerTenant
      <4>4. Out(p)
        BY <1>1
      <4>5. QED
        BY <2>1, <4>2, <4>3, <4>4
    <3>3. QED
      BY <3>1, <3>2
  <2>6. QED
    BY <2>1, <2>3, <2>4, <2>5 DEF BarsRecorded
<1>5. QED
  BY <1>2, <1>3, <1>4 DEF Next

-----------------------------------------------------------------------------
(* The theorems.                                                           *)

LEMMA InitInv ==
  ASSUME Init
  PROVE  IInv
<1>1. TypeOK
  BY NoLocalsType DEF Init, TypeOK, Labels, NoReply, Codes, Scopes
<1>2. /\ StatementsMatchRequest /\ LoadedRowsKeepTheirTenant /\ NoUnmappedDuplicate
      /\ EnsuredRowFound /\ SeesOwnTenant /\ AbsentMeansDeleted
  BY DEF Init, NoLocals, NoReply, StatementsMatchRequest, LoadedRowsKeepTheirTenant,
     NoUnmappedDuplicate, EnsuredRowFound, SeesOwnTenant, AbsentMeansDeleted
<1>3. BarsRecorded
  BY DEF Init, NoReply, BarsRecorded
<1>4. QED
  BY <1>1, <1>2, <1>3 DEF Init, IInv

LEMMA NextInv ==
  ASSUME IInv, Next
  PROVE  IInv'
<1>1. IndexesHold' /\ OneRowPerTenant'
  BY RegistryInv
<1>2. TypeOK'
  <2>1. CASE Backfill
    BY <2>1, BackfilledRows DEF IInv, Backfill, TypeOK
  <2>2. QED
    BY <2>1, StepType, ReceiveType DEF Next, IInv
<1>3. StatementsMatchRequest'
  <2>1. CASE Backfill
    BY <2>1 DEF IInv, Backfill, StatementsMatchRequest
  <2>2. QED
    BY <2>1, StatementsInv DEF Next
<1>4. QED
  BY <1>1, <1>2, <1>3, LoadedInv, NoUnmappedInv, EnsuredInv, BarsInv, RepliesInv DEF IInv

LEMMA StutterInv ==
  ASSUME IInv, UNCHANGED vars
  PROVE  IInv'
  BY DEF IInv, vars, TypeOK, IndexesHold, OneRowPerTenant, Rows, Owner, StatementsMatchRequest,
     LoadedRowsKeepTheirTenant, NoUnmappedDuplicate, EnsuredRowFound, BarsRecorded,
     SeesOwnTenant, AbsentMeansDeleted

\* The inductive invariant holds for every set of tenants, processes and
\* requests, whatever the migration and the operators do in between.
THEOREM GateInvariant == Spec => []IInv
<1>1. Init => IInv
  BY InitInv
<1>2. IInv /\ [Next]_vars => IInv'
  BY NextInv, StutterInv
<1>3. QED
  BY <1>1, <1>2, PTL DEF Spec

\* One row per tenant, although the duplicate check of CreateTenantConfig and
\* its INSERT are separate statements and NULL tenants escape the unique index.
THEOREM OneRow == Spec => []OneRowPerTenant
<1>1. IInv => OneRowPerTenant
  BY DEF IInv
<1>2. QED
  BY <1>1, GateInvariant, PTL

\* No reply shows a scoped operator a row of another tenant.
THEOREM ScopesHold == Spec => []SeesOwnTenant
<1>1. IInv => SeesOwnTenant
  BY DEF IInv
<1>2. QED
  BY <1>1, GateInvariant, PTL

\* "row absent after insert" is answered only when an operator deleted the row
\* during the call.
THEOREM AbsentOnlyIfDeleted == Spec => []AbsentMeansDeleted
<1>1. IInv => AbsentMeansDeleted
  BY DEF IInv
<1>2. QED
  BY <1>1, GateInvariant, PTL

\* What one step does to the rows a process may touch.
LEMMA StepKeeps ==
  ASSUME IInv, Next, NEW p \in Procs, NEW i \in Ids,
         pc[p] # "idle", pc'[p] # pc[p], apps'[i] # apps[i]
  PROVE  LET changed == {apps[i], apps'[i]} \ {NoRow} IN
         /\ req[p].op = "Call" => apps[i] = NoRow /\ Owner(apps'[i]) = req[p].tenant
         /\ req[p].op # "Call" /\ req[p].scope # Platform =>
              \A a \in changed : Owner(a) = req[p].scope
<1> DEFINE changed == {apps[i], apps'[i]} \ {NoRow}
<1>1. TypeOK /\ StatementsMatchRequest /\ LoadedRowsKeepTheirTenant
  BY DEF IInv
<1>2. Step(p)
  <2>1. ~ Backfill
    BY DEF Backfill
  <2>2. ~ \E r \in Requests : Receive(p, r)
    BY DEF Receive
  <2>3. ASSUME NEW q \in Procs \ {p} PROVE ~ (Step(q) \/ \E r \in Requests : Receive(q, r))
    BY <1>1, OthersStay
  <2>4. QED
    BY <2>1, <2>2, <2>3 DEF Next
<1>3. ~ UNCHANGED Registry
  BY DEF Registry
<1>4. CASE Inserts(p)
  <2>1. i = nextId /\ i \notin Rows
    <3>1. ASSUME i # nextId PROVE FALSE
      <4>1. i \in Rows \/ i \in Rows'
        BY DEF Rows
      <4>2. i \in Rows
        BY <1>4, <3>1, <4>1, NewRow
      <4>3. QED
        BY <1>4, <4>2, NewRow
    <3>2. QED
      BY <1>4, <3>1, NewRow
  <2>2. apps[i] = NoRow /\ Owner(apps'[i]) = loc[p].tenant
    BY <1>4, <2>1, NewRow DEF Rows
  <2>3. \/ pc[p] = "ensure" /\ req[p].op = "Call"
        \/ pc[p] = "create" /\ req[p].op = "Create"
    BY <1>1, <1>4 DEF Inserts, StatementsMatchRequest
  <2>4. QED
    BY <1>1, <2>2, <2>3, CallsFor, CreatesFor
<1>5. CASE UpdateApp(p)
  <2>1. i = loc[p].id /\ pc[p] = "update" /\ req[p].op = "Update"
    BY <1>1, <1>5, UpdatedRow DEF UpdateApp, StatementsMatchRequest
  <2>2. i \in Rows
    BY <1>5, <2>1 DEF UpdateApp
  <2>3. /\ Owner(apps[i]) = loc[p].tenant /\ Owner(apps'[i]) = loc[p].tenant
        /\ req[p].scope # Platform => loc[p].tenant = req[p].scope
    BY <1>1, <1>5, <2>1, <2>2, UpdatedRow DEF LoadedRowsKeepTheirTenant
  <2>4. QED
    BY <2>1, <2>3
<1>6. CASE DeleteApp(p)
  <2>1. i = loc[p].id /\ pc[p] = "delete" /\ req[p].op = "Delete"
    BY <1>1, <1>6, DeletedRow DEF DeleteApp, StatementsMatchRequest
  <2>2. i \in Rows /\ apps'[i] = NoRow
    BY <1>1, <1>6, <2>1 DEF DeleteApp, Rows, TypeOK
  <2>3. /\ Owner(apps[i]) = loc[p].tenant
        /\ req[p].scope # Platform => loc[p].tenant = req[p].scope
    BY <1>1, <2>1, <2>2 DEF LoadedRowsKeepTheirTenant
  <2>4. QED
    BY <2>1, <2>2, <2>3
<1>7. QED
  BY <1>2, <1>3, <1>4, <1>5, <1>6, RegistrySteps

\* An operator writes only rows of its scope, and a call adds only its tenant's.
THEOREM WritesKeepToTheirTenant == Spec => StepsKeepToTheirTenant
<1> DEFINE Keeps ==
      \A p \in Procs, i \in Ids :
        pc[p] # "idle" /\ pc'[p] # pc[p] /\ apps'[i] # apps[i] =>
          LET changed == {apps[i], apps'[i]} \ {NoRow} IN
          /\ req[p].op = "Call" => apps[i] = NoRow /\ Owner(apps'[i]) = req[p].tenant
          /\ req[p].op # "Call" /\ req[p].scope # Platform =>
               \A a \in changed : Owner(a) = req[p].scope
<1>1. IInv /\ Next => Keeps
  BY StepKeeps
<1>2. IInv /\ [Next]_vars => [Keeps]_vars
  BY <1>1
<1>3. QED
  BY <1>2, GateInvariant, PTL DEF Spec, StepsKeepToTheirTenant

\* A tenant that an operator has barred stays out until an operator enables or
\* deletes its row, and a call is admitted only if its tenant was not barred all along.
THEOREM BarredTenantsStayOut == Spec => []BarredStayOut
<1>1. ASSUME IInv PROVE BarredStayOut
  <2>1. TypeOK /\ OneRowPerTenant /\ BarsRecorded
    BY <1>1 DEF IInv
  <2>2. ASSUME NEW t \in barred PROVE Closed(t)
    <3>1. t \in Tenants
      BY <2>1, <2>2 DEF TypeOK
    <3>2. QED
      BY <2>1, <2>2, <3>1, DoorIsOwned DEF BarsRecorded, Closed
  <2>3. QED
    BY <2>1, <2>2 DEF BarsRecorded, BarredStayOut
<1>2. QED
  BY <1>1, GateInvariant, PTL

=============================================================================
