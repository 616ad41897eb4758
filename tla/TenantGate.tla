----------------------------- MODULE TenantGate -----------------------------
(***************************************************************************)
(* The gate of the data plane and its registry, license_apps.              *)
(*                                                                         *)
(* Every call of a client passes tenantres.Require, which resolves the     *)
(* gate row of the trusted tenant key and creates it on first sight;       *)
(* operators create, edit, list and delete the rows in their scope.  There *)
(* are no transactions here: each statement commits by itself, and what a  *)
(* request has read may be gone at its next statement.                     *)
(***************************************************************************)
EXTENDS Naturals

CONSTANTS
  Procs,          \* goroutines serving requests
  Tenants,        \* well-formed tenant keys (ten_...)
  Minted,         \* app keys the service can mint (lic_...)
  MaxApps,        \* bound of the row ids ever given out
  Requests,       \* the requests clients and operators send
  Platform,       \* the scope of a platform operator without a tenant choice
  Null,           \* SQL NULL, in tenant_key
  NoRow,          \* no row with this id
  None            \* absent: identity, credential, selector, request

Keys == Tenants \cup Minted

Ids == 1 .. MaxApps

appKeyGenAttempts == 3

\* An app key of a tenant's shape is the tenant's own; a minted one is mapped to
\* its tenant, to its own literal or, before the backfill, not at all.
App ==
  {a \in [key : Keys, tenant : Keys \cup {Null}, disabled : BOOLEAN] :
     a.tenant \in {Null, a.key} \/ (a.key \in Minted /\ a.tenant \in Tenants)}

Scopes == Tenants \cup {Platform, None}

Request ==
  [op : {"Call"}, tenant : Tenants \cup {None}]
    \cup [op : {"Create"}, scope : Scopes, tenant : Tenants \cup {None}]
    \cup [op : {"Update"}, scope : Scopes, tenant : Keys, disabled : {"absent", "yes", "no"}]
    \cup [op : {"Get", "Delete"}, scope : Scopes, tenant : Keys]
    \cup [op : {"List"}, scope : Scopes]

ASSUME IdsAssumption      == MaxApps \in Nat
ASSUME KeysAssumption     == Tenants \cap Minted = {}
ASSUME MarksAssumption    == /\ {Null, None, Platform} \cap Keys = {}
                             /\ Platform # None /\ NoRow \notin App
ASSUME RequestsAssumption == Requests \subseteq Request /\ None \notin Requests

VARIABLES
  apps,           \* license_apps: id -> row or NoRow
  nextId,         \* the next value of the id sequence
  pc,             \* the statement each process is at
  req,            \* the request each process serves, or None
  loc,            \* values the handler keeps between statements
  reply,          \* the last answer of each process
  removals,       \* history: whose tenant's row was deleted during the request
  barred,         \* history: tenants whose row an operator has disabled, and since
                  \* then neither enabled nor deleted
  admissible      \* history: calls whose tenant was not barred at some moment

vars == <<apps, nextId, pc, req, loc, reply, removals, barred, admissible>>

Rows == {i \in Ids : apps[i] # NoRow}

\* AppTenantKey
Owner(a) == IF a.tenant # Null THEN a.tenant ELSE a.key

ByTenant(t) == {i \in Rows : apps[i].tenant = t}
ByKey(k)    == {i \in Rows : apps[i].key = k}

Codes == {"none", "admitted", "ok", "unauthorized", "not_found", "bad_request",
          "absent", "internal"}

Labels == {"idle", "mint", "tenant", "key", "ensure", "create", "update", "delete", "list"}

Locals == [tenant : Keys \cup {None}, minted : Minted \cup {None},
           tries : 0 .. appKeyGenAttempts, ensured : BOOLEAN,
           id : Ids \cup {None}, disabled : BOOLEAN]

NoLocals == [tenant |-> None, minted |-> None, tries |-> 0, ensured |-> FALSE,
             id |-> None, disabled |-> FALSE]

NoReply == [code |-> "none", scope |-> None, seen |-> {}]

TypeOK ==
  /\ apps \in [Ids -> App \cup {NoRow}]
  /\ nextId \in 1 .. MaxApps + 1
  /\ pc \in [Procs -> Labels]
  /\ req \in [Procs -> Requests \cup {None}]
  /\ \A p \in Procs : req[p] = None <=> pc[p] = "idle"
  /\ loc \in [Procs -> Locals]
  /\ reply \in [Procs -> [code : Codes, scope : Scopes, seen : SUBSET Keys]]
  /\ removals \in SUBSET Procs
  /\ barred \in SUBSET Tenants
  /\ admissible \in SUBSET Procs

\* No two rows of one tenant: a tenant has one door, and the backfill meets no
\* duplicate.
OneRowPerTenant ==
  \A i, j \in Rows : i # j => Owner(apps[i]) # Owner(apps[j])

\* The unique index on app_key, and ids from a sequence.
IndexesHold ==
  /\ \A i, j \in Rows : i # j => apps[i].key # apps[j].key
  /\ \A i \in Rows : i < nextId

\* A registry that earlier releases and the migration have left.
Init ==
  /\ apps \in [Ids -> App \cup {NoRow}]
  /\ nextId \in 1 .. MaxApps + 1
  /\ IndexesHold /\ OneRowPerTenant
  /\ pc = [p \in Procs |-> "idle"]
  /\ req = [p \in Procs |-> None]
  /\ loc = [p \in Procs |-> NoLocals]
  /\ reply = [p \in Procs |-> NoReply]
  /\ removals = {} /\ admissible = {}
  /\ barred = {t \in Tenants : \E i \in Rows : Owner(apps[i]) = t /\ apps[i].disabled}

-----------------------------------------------------------------------------

Goto(p, label) == pc' = [pc EXCEPT ![p] = label]

Answer(p, code, seen) ==
  /\ reply' = [reply EXCEPT ![p] =
                 [code  |-> code, seen |-> seen,
                  scope |-> IF req[p].op = "Call" THEN None ELSE req[p].scope]]
  /\ Goto(p, "idle")
  /\ req' = [req EXCEPT ![p] = None]
  /\ loc' = [loc EXCEPT ![p] = NoLocals]

Registry == <<apps, nextId, removals, barred, admissible>>

Refuse(p, code) == Answer(p, code, {}) /\ UNCHANGED Registry

\* An operator disables a row of tenant t, or enables or deletes it.
Bar(t) == barred' = barred \cup ({t} \cap Tenants) /\ UNCHANGED admissible

Unbar(t) ==
  /\ barred' = barred \ {t}
  /\ admissible' = admissible \cup {q \in Procs : pc[q] # "idle" /\ req[q].op = "Call"
                                                    /\ req[q].tenant = t}

\* INSERT with the next id.
Insert(key, tenant) ==
  /\ nextId <= MaxApps
  /\ apps' = [apps EXCEPT ![nextId] = [key |-> key, tenant |-> tenant, disabled |-> FALSE]]
  /\ nextId' = nextId + 1
  /\ UNCHANGED <<removals, barred, admissible>>

-----------------------------------------------------------------------------
(* A request arrives.                                                      *)

\* Require and scopeFromCtx fail closed without a trusted identity.
FirstStatement(r) ==
  CASE r.op = "Call"   -> "tenant"
    [] r.op = "Create" -> "mint"
    [] r.op = "List"   -> "list"
    [] r.op \in {"Get", "Update", "Delete"} -> "tenant"

Identified(r) == IF r.op = "Call" THEN r.tenant # None ELSE r.scope # None

Receive(p, r) ==
  /\ pc[p] = "idle"
  /\ removals' = removals \ {p}
  /\ admissible' = IF r.op = "Call" /\ r.tenant \notin barred THEN admissible \cup {p}
                                                              ELSE admissible \ {p}
  /\ UNCHANGED <<apps, nextId, barred>>
  /\ \/ /\ ~Identified(r)
        /\ reply' = [reply EXCEPT ![p] = [NoReply EXCEPT !.code = "unauthorized"]]
        /\ UNCHANGED <<pc, req, loc>>
     \/ /\ Identified(r)
        /\ req' = [req EXCEPT ![p] = r]
        /\ Goto(p, FirstStatement(r))
        /\ loc' = [loc EXCEPT ![p].tenant = IF r.op \in {"Create", "List"} THEN None ELSE r.tenant]
        /\ reply' = [reply EXCEPT ![p] = NoReply]

-----------------------------------------------------------------------------
(* CreateTenantConfig: the app key.                                        *)

\* Bug: the body wins over the injected scope.
ClampBodyWins(scope, requested, appKey) ==
  CASE requested # None                     -> requested
    [] requested = None /\ scope # Platform -> scope
    [] OTHER                                -> appKey

\* clampTenantKey: the body never wins over an injected scope.
Clamp(scope, requested, appKey) ==
  CASE scope # Platform                     -> scope
    [] scope = Platform /\ requested # None -> requested
    [] OTHER                                -> appKey

\* mintUniqueAppKey: one candidate.
MintAppKey(p) ==
  /\ pc[p] = "mint"
  /\ \E k \in Minted :
       \/ /\ ByKey(k) = {}
          /\ loc' = [loc EXCEPT ![p].minted = k,
                                ![p].tenant = Clamp(req[p].scope, req[p].tenant, k)]
          /\ Goto(p, "tenant")
          /\ UNCHANGED <<Registry, req, reply>>
       \/ /\ ByKey(k) # {} /\ loc[p].tries + 1 < appKeyGenAttempts
          /\ loc' = [loc EXCEPT ![p].tries = @ + 1]
          /\ UNCHANGED <<Registry, pc, req, reply>>
       \/ /\ ByKey(k) # {} /\ loc[p].tries + 1 = appKeyGenAttempts
          /\ Refuse(p, "internal")

-----------------------------------------------------------------------------
(* GetAppForTenant, and what its callers make of the row.                  *)

\* Bug: the row that was loaded is not compared with the scope.
AuthorizedAnyRow(scope, a) == TRUE

\* authorizeAppTenant
Authorized(scope, a) == scope = Platform \/ Owner(a) = scope

UseRow(p, i) ==
  LET a == apps[i]
      r == req[p]
  IN \/ /\ r.op = "Call"
        /\ Refuse(p, IF a.disabled THEN "unauthorized" ELSE "admitted")
     \/ /\ r.op = "Create"
        /\ Refuse(p, "bad_request")
     \/ /\ r.op \in {"Get", "Update", "Delete"} /\ ~Authorized(r.scope, a)
        /\ Refuse(p, "not_found")
     \/ /\ r.op = "Get" /\ Authorized(r.scope, a)
        /\ Answer(p, "ok", {Owner(a)})
        /\ UNCHANGED Registry
     \/ /\ r.op \in {"Update", "Delete"} /\ Authorized(r.scope, a)
        /\ loc' = [loc EXCEPT ![p].id = i,
                              ![p].tenant = Owner(a),
                              ![p].disabled = IF r.op = "Update" /\ r.disabled # "absent"
                                              THEN r.disabled = "yes" ELSE a.disabled]
        /\ Goto(p, IF r.op = "Update" THEN "update" ELSE "delete")
        /\ UNCHANGED <<Registry, req, reply>>

\* First statement: the row mapped to the tenant.
SelectByTenant(p) ==
  /\ pc[p] = "tenant"
  /\ \/ \E i \in ByTenant(loc[p].tenant) : UseRow(p, i)
     \/ /\ ByTenant(loc[p].tenant) = {}
        /\ Goto(p, "key")
        /\ UNCHANGED <<Registry, req, loc, reply>>

\* Bug: no fallback to the app key's literal.
SelectByTenantOnly(p) ==
  /\ pc[p] = "key"
  /\ \/ req[p].op = "Call" /\ ~loc[p].ensured
        /\ Goto(p, "ensure") /\ UNCHANGED <<Registry, req, loc, reply>>
     \/ req[p].op = "Call" /\ loc[p].ensured /\ Refuse(p, "absent")
     \/ req[p].op = "Create"
        /\ Goto(p, "create") /\ UNCHANGED <<Registry, req, loc, reply>>
     \/ req[p].op \in {"Get", "Update", "Delete"} /\ Refuse(p, "not_found")

\* Second statement: the row whose app key is the tenant's literal; without it,
\* a call creates the row once and looks again.
SelectByKey(p) ==
  /\ pc[p] = "key"
  /\ \/ \E i \in ByKey(loc[p].tenant) : UseRow(p, i)
     \/ /\ ByKey(loc[p].tenant) = {}
        /\ \/ /\ req[p].op = "Call" /\ ~loc[p].ensured
              /\ Goto(p, "ensure")
              /\ UNCHANGED <<Registry, req, loc, reply>>
           \/ /\ req[p].op = "Call" /\ loc[p].ensured
              /\ Refuse(p, "absent")
           \/ /\ req[p].op = "Create"
              /\ Goto(p, "create")
              /\ UNCHANGED <<Registry, req, loc, reply>>
           \/ /\ req[p].op \in {"Get", "Update", "Delete"}
              /\ Refuse(p, "not_found")

-----------------------------------------------------------------------------
(* The statements that write.                                              *)

Conflicts(key, tenant) == ByKey(key) \cup ByTenant(tenant)

\* Bug: the conflict resets the row to its defaults.
EnsureTenantAppResetting(p) ==
  LET t == loc[p].tenant IN
  /\ pc[p] = "ensure"
  /\ IF Conflicts(t, t) # {}
     THEN /\ apps' = [i \in Ids |-> IF i \in Conflicts(t, t)
                                    THEN [apps[i] EXCEPT !.disabled = FALSE] ELSE apps[i]]
          /\ UNCHANGED <<nextId, removals, barred, admissible>>
     ELSE Insert(t, t)
  /\ loc' = [loc EXCEPT ![p].ensured = TRUE]
  /\ Goto(p, "tenant")
  /\ UNCHANGED <<req, reply>>

\* INSERT ... ON CONFLICT DO NOTHING, on either unique key.
EnsureTenantApp(p) ==
  LET t == loc[p].tenant IN
  /\ pc[p] = "ensure"
  /\ IF Conflicts(t, t) # {} THEN UNCHANGED Registry ELSE Insert(t, t)
  /\ loc' = [loc EXCEPT ![p].ensured = TRUE]
  /\ Goto(p, "tenant")
  /\ UNCHANGED <<req, reply>>

\* INSERT, which a unique index may refuse.
CreateApp(p) ==
  LET k == loc[p].minted
      t == loc[p].tenant
  IN /\ pc[p] = "create"
     /\ \/ Conflicts(k, t) # {} /\ Refuse(p, "internal")
        \/ Conflicts(k, t) = {} /\ Insert(k, t) /\ Answer(p, "ok", {t})

\* UPDATE by id of name and disabled; no row, nothing written, and no error.
UpdateApp(p) ==
  /\ pc[p] = "update"
  /\ \/ /\ loc[p].id \in Rows
        /\ apps' = [apps EXCEPT ![loc[p].id].disabled = loc[p].disabled]
        /\ IF loc[p].disabled THEN Bar(Owner(apps[loc[p].id])) ELSE Unbar(Owner(apps[loc[p].id]))
     \/ loc[p].id \notin Rows /\ UNCHANGED <<apps, barred, admissible>>
  /\ Answer(p, "ok", {loc[p].tenant})
  /\ UNCHANGED <<nextId, removals>>

\* DELETE by id.
DeleteApp(p) ==
  LET gone == {loc[p].id} \cap Rows IN
  /\ pc[p] = "delete"
  /\ apps' = [i \in Ids |-> IF i \in gone THEN NoRow ELSE apps[i]]
  /\ removals' = removals \cup {q \in Procs : \E i \in gone : loc[q].tenant = Owner(apps[i])}
  /\ \/ \E i \in gone : Unbar(Owner(apps[i]))
     \/ gone = {} /\ UNCHANGED <<barred, admissible>>
  /\ Answer(p, "ok", {})
  /\ UNCHANGED nextId

\* ListTenantConfigs shows the rows visible in the scope.
ListApps(p) ==
  /\ pc[p] = "list"
  /\ Answer(p, "ok", {Owner(apps[i]) : i \in {j \in Rows : Authorized(req[p].scope, apps[j])}})
  /\ UNCHANGED Registry

\* A statement fails; what earlier ones wrote stays.
Fail(p) == pc[p] # "idle" /\ Refuse(p, "internal")

-----------------------------------------------------------------------------

\* The migration of a new release: rows without a tenant get their app key's
\* literal.  A duplicate fails the statement, and with it the migration.
Backfill ==
  LET filled == [i \in Ids |-> IF i \in Rows THEN [apps[i] EXCEPT !.tenant = Owner(apps[i])]
                               ELSE NoRow] IN
  /\ \A i, j \in Rows : i # j => filled[i].tenant # filled[j].tenant
  /\ apps' = filled
  /\ UNCHANGED <<nextId, pc, req, loc, reply, removals, barred, admissible>>

Step(p) ==
  \/ MintAppKey(p) \/ SelectByTenant(p) \/ SelectByKey(p)
  \/ EnsureTenantApp(p) \/ CreateApp(p) \/ UpdateApp(p) \/ DeleteApp(p) \/ ListApps(p)
  \/ Fail(p)

Next ==
  \/ \E p \in Procs : Step(p) \/ \E r \in Requests : Receive(p, r)
  \/ Backfill

Spec == Init /\ [][Next]_vars

-----------------------------------------------------------------------------
(* Properties.                                                             *)

\* The row that a call of tenant t resolves to.
Door(t) == IF ByTenant(t) # {} THEN ByTenant(t) ELSE ByKey(t)

Closed(t) == \E i \in Door(t) : apps[i].disabled

\* A tenant that an operator has barred stays out until an operator writes
\* disabled=false or deletes its row: what calls, creations and the migration do in
\* any number of steps leaves the door closed, and no call is admitted that was
\* under way only while its tenant was barred.
BarredStayOut ==
  /\ \A t \in barred : Closed(t)
  /\ \A p \in Procs : reply[p].code = "admitted" => p \in admissible

\* A scoped operator's request changes only rows of its tenant, although it
\* reads, decides and writes in separate statements; a client's call only adds
\* its own tenant's row.
StepsKeepToTheirTenant ==
  [][\A p \in Procs, i \in Ids :
       pc[p] # "idle" /\ pc'[p] # pc[p] /\ apps'[i] # apps[i] =>
         LET changed == {apps[i], apps'[i]} \ {NoRow} IN
         /\ req[p].op = "Call" => apps[i] = NoRow /\ Owner(apps'[i]) = req[p].tenant
         /\ req[p].op # "Call" /\ req[p].scope # Platform =>
              \A a \in changed : Owner(a) = req[p].scope]_vars

\* An operator is shown only rows of its scope, whatever selector it sends.
SeesOwnTenant ==
  \A p \in Procs : reply[p].scope \in Tenants => reply[p].seen \subseteq {reply[p].scope}

\* A first-sight call fails for want of its row only if an operator has deleted
\* the row during the call: racing replicas converge on one row.
AbsentMeansDeleted ==
  \A p \in Procs : reply[p].code = "absent" => p \in removals

-----------------------------------------------------------------------------
(* The inductive invariant of the proofs.                                  *)

\* Each statement belongs to a request with an identity, and the tenant a
\* request works for is fixed by who sends it.
StatementsMatchRequest ==
  \A p \in Procs :
    /\ loc[p].ensured => pc[p] # "idle" /\ req[p].op = "Call"
    /\ pc[p] # "idle" =>
         /\ Identified(req[p])
         /\ pc[p] = "ensure" => req[p].op = "Call"
         /\ pc[p] \in {"mint", "create"} => req[p].op = "Create"
         /\ pc[p] = "update" => req[p].op = "Update"
         /\ pc[p] = "delete" => req[p].op = "Delete"
         /\ pc[p] = "list" <=> req[p].op = "List"
         /\ req[p].op = "Call" => loc[p].tenant = req[p].tenant
         /\ req[p].op = "Create" /\ pc[p] # "mint" =>
              /\ loc[p].minted \in Minted
              /\ loc[p].tenant = Clamp(req[p].scope, req[p].tenant, loc[p].minted)

\* The row a request is about to write by id is, if it still exists, the row it
\* was authorized for: ids are never given out twice, tenants never change.
LoadedRowsKeepTheirTenant ==
  \A p \in Procs : pc[p] \in {"update", "delete"} =>
    /\ loc[p].id \in Ids /\ loc[p].id < nextId
    /\ loc[p].tenant \in Keys
    /\ req[p].scope # Platform => loc[p].tenant = req[p].scope
    /\ loc[p].id \in Rows => Owner(apps[loc[p].id]) = loc[p].tenant

\* The duplicate check of CreateTenantConfig stays valid where the unique index
\* does not look: no row without a tenant appears later.
NoUnmappedDuplicate ==
  \A p \in Procs, i \in Rows :
    pc[p] = "create" /\ apps[i].key = loc[p].tenant => apps[i].tenant # Null

\* Between the first-sight insert and the second look the row is there, under
\* the key the next statement asks for, unless an operator deletes it.
EnsuredRowFound ==
  \A p \in Procs : loc[p].ensured /\ pc[p] \in {"tenant", "key"} /\ p \notin removals =>
    \E i \in Rows : /\ Owner(apps[i]) = loc[p].tenant
                    /\ pc[p] = "key" => apps[i].key = loc[p].tenant

\* The row of a barred tenant is there, and disabled; while a call is under way its
\* tenant is barred or has been seen not to be, and the latter if it was admitted.
BarsRecorded ==
  /\ \A t \in barred : \E i \in Rows : Owner(apps[i]) = t /\ apps[i].disabled
  /\ \A p \in Procs :
       /\ pc[p] # "idle" /\ req[p].op = "Call" => req[p].tenant \in barred \/ p \in admissible
       /\ reply[p].code = "admitted" => p \in admissible

IInv ==
  /\ TypeOK
  /\ IndexesHold
  /\ OneRowPerTenant
  /\ StatementsMatchRequest
  /\ LoadedRowsKeepTheirTenant
  /\ NoUnmappedDuplicate
  /\ EnsuredRowFound
  /\ BarsRecorded
  /\ SeesOwnTenant
  /\ AbsentMeansDeleted

=============================================================================
