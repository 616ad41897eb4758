------------------------------- MODULE Grants -------------------------------
(***************************************************************************)
(* The entitlements of one license key, statement by statement.            *)
(*                                                                         *)
(* CreateKey mints the key and writes its grants in one transaction.       *)
(* GrantModule reads the module's row and writes it back with a new        *)
(* expiry, RevokeModule deletes it, DeleteKey deletes all rows and the     *)
(* key.  None of them locks the key row before it has to, so they meet     *)
(* only in the entitlement rows and in the unique index of the key hash.   *)
(* One hash is modelled: requests on different hashes share no row.  The   *)
(* rows of the slots are in Slots.tla.                                     *)
(***************************************************************************)
EXTENDS Naturals, Sequences

CONSTANTS
  Procs,          \* goroutines serving requests
  Modules,        \* modules of the product
  MaxClock,       \* bound of the clock
  MaxTime,        \* the last time the database can store
  Requests,       \* the requests operators send
  NoRow,          \* no such row
  Never,          \* NULL, in expires_at
  Bad,            \* an invalid grant
  Clean,          \* no uncommitted write
  None            \* no process, request, module or time

Times == 0 .. MaxTime

Kinds == {"perpetual", "subscription", "trial"}

keyGenAttempts == 3

Row == [kind : Kinds, expires : Times \cup {Never}]

\* days is 0 and until is None where the request leaves them out.
Grant == [module : Modules, kind : Kinds \cup {"unknown"}, days : Nat,
          until : Times \cup {None}]

Request ==
  [op : {"CreateKey"}, grants : Seq(Grant)]
    \cup [op : {"GrantModule"}, grant : Grant]
    \cup [op : {"RevokeModule"}, module : Modules]
    \cup [op : {"DeleteKey"}]

ASSUME BoundsAssumption   == MaxClock \in Nat /\ MaxTime \in Nat /\ MaxClock <= MaxTime
ASSUME MarksAssumption    == /\ {Never, Bad, None} \cap Nat = {} /\ Never # Bad
                             /\ {NoRow, Clean} \cap Row = {} /\ NoRow # Clean
ASSUME NoneAssumption     == None \notin Procs \cup Modules
ASSUME RequestsAssumption == Requests \subseteq Request /\ None \notin Requests

VARIABLES
  clock,          \* the service's clock
  key,            \* whether the key row is committed
  ents,           \* committed entitlement rows of the key: module -> row or NoRow
  pc,             \* the statement each process is at
  req,            \* the request each process serves, or None
  loc,            \* values the handler keeps between statements
  wr,             \* uncommitted writes of each process
  superseded,     \* history: grants whose row has changed since they read it
  unseen,         \* history: modules whose row was committed after the DELETE of a
                  \* DeleteKey looked, and that it will not visit
  late,           \* history: grants that resolved the key before its deletion
  stray           \* history: modules with a row that a deletion of the key did not
                  \* see, or that a late grant has added

history == <<superseded, unseen, late, stray>>

vars == <<clock, key, ents, pc, req, loc, wr, history>>

Labels == {"idle", "mint", "resolve", "get", "upsert", "scan", "purge", "delkey",
           "commit", "view"}

\* next: the grant CreateKey is at; todo, target, dead: rows a DELETE has still
\* to visit, the one it is at, and those it has deleted.
Locals == [now : Times, attempt : 0 .. keyGenAttempts, next : Nat \ {0},
           current : Times \cup {Never}, todo : SUBSET Modules,
           target : Modules \cup {None}, dead : SUBSET Modules]

NoLocals == [now |-> 0, attempt |-> 0, next |-> 1, current |-> Never,
             todo |-> {}, target |-> None, dead |-> {}]

Writes == [key : {"clean", "inserted", "deleted"}, rows : [Modules -> Row \cup {NoRow, Clean}]]

NoWrites == [key |-> "clean", rows |-> [m \in Modules |-> Clean]]

TypeOK ==
  /\ clock \in 0 .. MaxClock
  /\ key \in BOOLEAN
  /\ ents \in [Modules -> Row \cup {NoRow}]
  /\ pc \in [Procs -> Labels]
  /\ req \in [Procs -> Requests \cup {None}]
  /\ \A p \in Procs : req[p] = None <=> pc[p] = "idle"
  /\ loc \in [Procs -> Locals]
  /\ wr \in [Procs -> Writes]
  /\ superseded \in SUBSET Procs
  /\ unseen \in [Procs -> SUBSET Modules]
  /\ late \in SUBSET Procs
  /\ stray \in SUBSET Modules

Init ==
  /\ clock = 0
  /\ key = FALSE
  /\ ents = [m \in Modules |-> NoRow]
  /\ pc = [p \in Procs |-> "idle"]
  /\ req = [p \in Procs |-> None]
  /\ loc = [p \in Procs |-> NoLocals]
  /\ wr = [p \in Procs |-> NoWrites]
  /\ superseded = {} /\ late = {} /\ stray = {}
  /\ unseen = [p \in Procs |-> {}]

-----------------------------------------------------------------------------
(* The expiry of a grant.                                                  *)

\* Bug: every duration counts from now.
ExpiryFromNow(g, current, now) ==
  CASE g.days > 0 /\ g.until # None -> Bad
    [] g.kind = "perpetual" /\ g.days = 0 /\ g.until = None -> Never
    [] g.kind \in {"subscription", "trial"} /\ g.days = 0 /\ g.until # None -> g.until
    [] g.kind \in {"subscription", "trial"} /\ g.days > 0 /\ g.until = None -> now + g.days
    [] OTHER -> Bad

Later(current, now) == IF current \in Nat /\ current > now THEN current ELSE now

\* resolveExpiry: perpetual forbids an end, the other kinds take exactly one of
\* a duration, which extends the unexpired rest, and an absolute end.
Expiry(g, current, now) ==
  CASE g.days > 0 /\ g.until # None -> Bad
    [] g.kind = "perpetual" /\ g.days = 0 /\ g.until = None -> Never
    [] g.kind \in {"subscription", "trial"} /\ g.days = 0 /\ g.until # None -> g.until
    [] g.kind \in {"subscription", "trial"} /\ g.days > 0 /\ g.until = None ->
         Later(current, now) + g.days
    [] OTHER -> Bad

-----------------------------------------------------------------------------
(* The database.                                                           *)

\* The entitlement rows as a statement of p reads them.
View(p) == [m \in Modules |-> IF wr[p].rows[m] = Clean THEN ents[m] ELSE wr[p].rows[m]]

Granted(p) == {m \in Modules : View(p)[m] # NoRow}

RowWriters(p, m) == {q \in Procs \ {p} : wr[q].rows[m] # Clean}
KeyWriters(p)    == {q \in Procs \ {p} : wr[q].key # "clean"}

\* The grant an upsert is for, and the expiry it will have.
TheGrant(p)  == IF req[p].op = "GrantModule" THEN req[p].grant ELSE req[p].grants[loc[p].next]
TheExpiry(p) == Expiry(TheGrant(p), loc[p].current, loc[p].now)

\* INSERT waits for a writer of the same unique key, unless its transaction has
\* failed already; an upsert and a DELETE wait for a writer of the row.
WaitsFor(p) ==
  CASE pc[p] = "mint" /\ loc[p].attempt = 0          -> KeyWriters(p)
    [] pc[p] = "upsert" /\ TheExpiry(p) \in Times \cup {Never} -> RowWriters(p, TheGrant(p).module)
    [] pc[p] = "purge" /\ loc[p].target \in loc[p].todo -> RowWriters(p, loc[p].target)
    [] pc[p] = "delkey" /\ key                       -> KeyWriters(p)
    [] OTHER -> {}

At(p, label) == pc[p] = label /\ WaitsFor(p) = {}

Goto(p, label) == pc' = [pc EXCEPT ![p] = label]

Tables == <<clock, key, ents>>

Forget(p) ==
  /\ superseded' = superseded \ {p}
  /\ unseen' = [unseen EXCEPT ![p] = {}]
  /\ late' = late \ {p}

\* Bug: an error return leaves the rows it has written locked.
AbortKeepsRows(p) ==
  /\ wr' = [wr EXCEPT ![p].key = "clean"]
  /\ Goto(p, "idle")
  /\ req' = [req EXCEPT ![p] = None]
  /\ loc' = [loc EXCEPT ![p] = NoLocals]
  /\ Forget(p)
  /\ UNCHANGED <<Tables, stray>>

\* The closure returned an error: ROLLBACK, and the error is the answer.
Abort(p) ==
  /\ wr' = [wr EXCEPT ![p] = NoWrites]
  /\ Goto(p, "idle")
  /\ req' = [req EXCEPT ![p] = None]
  /\ loc' = [loc EXCEPT ![p] = NoLocals]
  /\ Forget(p)
  /\ UNCHANGED <<Tables, stray>>

-----------------------------------------------------------------------------
(* A request arrives.                                                      *)

Writer(r) == r.op \in {"CreateKey", "GrantModule"}

Running(q) == req[q] # None

\* requirePlatformScope and the checks of the arguments turn others away; then
\* the handler takes the time and begins its transaction.
Receive(p, r) ==
  /\ pc[p] = "idle"
  /\ req' = [req EXCEPT ![p] = r]
  /\ loc' = [loc EXCEPT ![p].now = clock]
  /\ Goto(p, IF r.op = "CreateKey" THEN "mint" ELSE "resolve")
  /\ UNCHANGED <<Tables, wr, history>>

-----------------------------------------------------------------------------
(* CreateKey.                                                              *)

\* INSERT of a candidate with this hash.  A unique violation fails the
\* transaction, and with it the attempt that follows.
MintKey(p) ==
  /\ At(p, "mint")
  /\ \/ /\ loc[p].attempt = 0 /\ ~key
        /\ wr' = [wr EXCEPT ![p].key = "inserted"]
        /\ Goto(p, IF req[p].grants = <<>> THEN "commit" ELSE "upsert")
        /\ UNCHANGED <<Tables, req, loc, history>>
     \/ /\ loc[p].attempt = 0 /\ key
        /\ loc' = [loc EXCEPT ![p].attempt = 1]
        /\ UNCHANGED <<Tables, pc, req, wr, history>>
     \/ /\ loc[p].attempt > 0
        /\ Abort(p)

-----------------------------------------------------------------------------
(* The other requests resolve the key first; nothing locks it.             *)

ResolveKey(p) ==
  /\ At(p, "resolve")
  /\ \/ ~key /\ Abort(p)
     \/ /\ key
        /\ Goto(p, IF req[p].op = "GrantModule" THEN "get" ELSE "scan")
        /\ UNCHANGED <<Tables, req, loc, wr, history>>

\* GetEntitlement: the current expiry, nil without a row or an end.
GetEntitlement(p) ==
  LET row == View(p)[req[p].grant.module] IN
  /\ At(p, "get")
  /\ loc' = [loc EXCEPT ![p].current = IF row = NoRow THEN Never ELSE row.expires]
  /\ Goto(p, "upsert")
  /\ UNCHANGED <<Tables, req, wr, history>>

LastGrant(p) == req[p].op = "GrantModule" \/ loc[p].next = Len(req[p].grants)

PutRow(p, row) ==
  /\ wr' = [wr EXCEPT ![p].rows[TheGrant(p).module] = row]
  /\ loc' = [loc EXCEPT ![p].next = @ + 1]
  /\ Goto(p, IF LastGrant(p) THEN "commit" ELSE "upsert")
  /\ UNCHANGED <<Tables, req, history>>

TheRow(p) == [kind |-> TheGrant(p).kind, expires |-> TheExpiry(p)]

\* Bug: the conflict arm leaves an expires_at it would have to clear.
UpsertKeepsExpiry(p) ==
  LET old == View(p)[TheGrant(p).module] IN
  /\ At(p, "upsert")
  /\ \/ TheExpiry(p) \notin Times \cup {Never} /\ Abort(p)
     \/ /\ TheExpiry(p) \in Times \cup {Never}
        /\ PutRow(p, IF TheExpiry(p) = Never /\ old # NoRow
                     THEN [TheRow(p) EXCEPT !.expires = old.expires] ELSE TheRow(p))

\* Bug: an invalid grant of CreateKey ends the loop, and the key is kept.
UpsertStopsEarly(p) ==
  /\ At(p, "upsert")
  /\ \/ /\ TheExpiry(p) = Bad
        /\ Goto(p, "commit")
        /\ UNCHANGED <<Tables, req, loc, wr, history>>
     \/ TheExpiry(p) \in Nat \ Times /\ Abort(p)
     \/ TheExpiry(p) \in Times \cup {Never} /\ PutRow(p, TheRow(p))

\* grantRow, which refuses an invalid grant, and INSERT ... ON CONFLICT DO UPDATE,
\* which sets all of the row; a time the database cannot store fails it.
UpsertEntitlement(p) ==
  /\ At(p, "upsert")
  /\ \/ TheExpiry(p) \notin Times \cup {Never} /\ Abort(p)
     \/ TheExpiry(p) \in Times \cup {Never} /\ PutRow(p, TheRow(p))

-----------------------------------------------------------------------------
(* The deletes.                                                            *)

\* The rows a DELETE has still to visit, in an order of the database's choosing.
NextRow(p, rows, gone) ==
  /\ \E m \in IF rows = {} THEN {None} ELSE rows :
       loc' = [loc EXCEPT ![p].todo = rows, ![p].target = m, ![p].dead = @ \cup gone]
  /\ Goto(p, CASE rows # {} -> "purge"
               [] rows = {} /\ req[p].op = "DeleteKey" -> "delkey"
               [] OTHER -> "commit")

\* Bug: DeleteKey deletes the row of one module only.
ScanOneRow(p) ==
  /\ At(p, "scan")
  /\ \E m \in Modules : NextRow(p, Granted(p) \cap {m}, {})
  /\ UNCHANGED <<Tables, req, wr, history>>

\* Bug: RevokeModule deletes all rows of the key.
ScanAllRows(p) ==
  /\ At(p, "scan")
  /\ NextRow(p, Granted(p), {})
  /\ UNCHANGED <<Tables, req, wr, history>>

\* DELETE of one module's row or of all: its work is the rows it sees when it starts.
ScanEntitlements(p) ==
  /\ At(p, "scan")
  /\ NextRow(p, IF req[p].op = "DeleteKey" THEN Granted(p) ELSE Granted(p) \cap {req[p].module}, {})
  /\ UNCHANGED <<Tables, req, wr, history>>

\* The next of those rows.  One that another transaction has deleted is not in
\* todo any more and is skipped, even if its module has a new row by now.
PurgeEntitlement(p) ==
  LET gone == loc[p].todo \cap {loc[p].target} IN
  /\ At(p, "purge")
  /\ wr' = [wr EXCEPT ![p].rows = [m \in Modules |-> IF m \in gone THEN NoRow ELSE @[m]]]
  /\ NextRow(p, loc[p].todo \ {loc[p].target}, gone)
  /\ UNCHANGED <<Tables, req, history>>

\* DELETE of the key row; a row that has gone already is no error.
DeleteKeyRow(p) ==
  /\ At(p, "delkey")
  /\ wr' = IF key THEN [wr EXCEPT ![p].key = "deleted"] ELSE wr
  /\ Goto(p, "commit")
  /\ UNCHANGED <<Tables, req, loc, history>>

-----------------------------------------------------------------------------
(* The end of a transaction.                                               *)

Written(p) == {m \in Modules : wr[p].rows[m] # Clean}

Fresh(p) == {m \in Modules : wr[p].rows[m] \notin {Clean, NoRow}}

Granting(q) == Running(q) /\ req[q].op = "GrantModule"

\* A DeleteKey whose DELETE has looked.
Looked(q) ==
  Running(q) /\ req[q].op = "DeleteKey" /\ pc[q] \in {"purge", "delkey", "commit"}

\* The rows without a key when p has committed.
StraysAfter(p) ==
  CASE wr[p].key = "deleted" -> unseen[p]
    [] wr[p].key = "clean" /\ ~key ->
         (stray \ Written(p)) \cup (IF p \in late THEN Fresh(p) ELSE {})
    [] OTHER -> {}

\* COMMIT.  A DELETE of another transaction skips what this one has deleted.
Commit(p) ==
  /\ At(p, "commit")
  /\ key' = (wr[p].key = "inserted" \/ (wr[p].key = "clean" /\ key))
  /\ ents' = View(p)
  /\ wr' = [wr EXCEPT ![p] = NoWrites]
  /\ loc' = [q \in Procs |-> IF q = p THEN NoLocals
                             ELSE [loc[q] EXCEPT !.todo = @ \ loc[p].dead]]
  /\ superseded' = (superseded \ {p}) \cup
       {q \in Procs \ {p} : /\ Granting(q) /\ pc[q] = "upsert"
                            /\ req[q].grant.module \in Written(p)}
  /\ unseen' = [q \in Procs |->
       IF q # p /\ Looked(q) THEN (unseen[q] \ Written(p)) \cup (Fresh(p) \ loc[q].todo) ELSE {}]
  /\ late' = (late \ {p}) \cup
       {q \in Procs \ {p} : wr[p].key = "deleted" /\ Granting(q) /\ pc[q] # "resolve"}
  /\ stray' = StraysAfter(p)
  /\ \/ /\ req[p].op = "CreateKey"
        /\ Goto(p, "view")
        /\ UNCHANGED req
     \/ /\ req[p].op # "CreateKey"
        /\ Goto(p, "idle")
        /\ req' = [req EXCEPT ![p] = None]
  /\ UNCHANGED clock

\* CreateKey answers with keyToProto, which reads outside the transaction.
ShowCreatedKey(p) ==
  /\ At(p, "view")
  /\ Goto(p, "idle")
  /\ req' = [req EXCEPT ![p] = None]
  /\ Forget(p)
  /\ UNCHANGED <<Tables, loc, wr, stray>>

\* A statement fails; after the COMMIT of CreateKey the key stays.
Fail(p) == pc[p] # "idle" /\ Abort(p)

\* p waits in a ring.
Deadlocked(p) ==
  \E S \in SUBSET Procs : p \in S /\ \A q \in S : WaitsFor(q) \cap S # {}

\* The database ends a deadlock by failing a statement of the ring.
DeadlockVictim(p) == Deadlocked(p) /\ Abort(p)

-----------------------------------------------------------------------------

Step(p) ==
  \/ MintKey(p) \/ ResolveKey(p) \/ GetEntitlement(p) \/ UpsertEntitlement(p)
  \/ ScanEntitlements(p) \/ PurgeEntitlement(p) \/ DeleteKeyRow(p)
  \/ Commit(p) \/ ShowCreatedKey(p)

Tick ==
  /\ clock < MaxClock
  /\ clock' = clock + 1
  /\ UNCHANGED <<key, ents, pc, req, loc, wr, history>>

Next ==
  \/ \E p \in Procs : \/ \E r \in Requests : Receive(p, r)
                      \/ Step(p)
                      \/ Fail(p)
                      \/ DeadlockVictim(p)
  \/ Tick

Spec == Init /\ [][Next]_vars

\* A statement that can run runs, a lock reaches every waiter, and a deadlock
\* is found.
FairSpec ==
  /\ Spec
  /\ \A p \in Procs : SF_vars(Step(p)) /\ WF_vars(DeadlockVictim(p))

-----------------------------------------------------------------------------
(* Properties.                                                             *)

\* models/entitlement.go, the hard invariant: perpetual rows have no end, all
\* others have one, whatever row an upsert has replaced.
KindMatchesExpiry ==
  \A m \in Modules : ents[m] # NoRow =>
    (ents[m].kind = "perpetual" <=> ents[m].expires = Never)

\* A deleted key does leave entitlements, against the comment on DeleteKey; but only
\* these: rows that were committed after its DELETE looked, and rows of grants that
\* had resolved the key before its COMMIT.  What the DELETE saw is gone, whoever
\* writes beside it, and a grant that begins later adds nothing.
OrphansCameLate ==
  ~key => \A m \in Modules : ents[m] # NoRow => m \in stray

\* A key appears with all of its grants and nothing else but such orphans of an
\* earlier one, and only where there is none: a failed grant undoes the key.
CreatedWhole ==
  [][\A p \in Procs : pc[p] = "commit" /\ pc'[p] = "view" =>
       /\ ~key /\ key'
       /\ \A i \in 1 .. Len(req[p].grants) :
            ents'[req[p].grants[i].module] # NoRow
       /\ \A m \in Modules : ents'[m] # NoRow =>
            \/ \E i \in 1 .. Len(req[p].grants) :
                 req[p].grants[i].module = m /\ ents'[m].kind = req[p].grants[i].kind
            \/ m \in stray]_vars

\* A grant of days adds them to what its row has when it commits, unless
\* another transaction has changed the row between its read and its upsert.
ExtensionLostOnlyToOverlap ==
  [][\A p \in Procs :
       Commit(p) /\ req[p].op = "GrantModule" /\ req[p].grant.days > 0 /\ p \notin superseded =>
       LET m == req[p].grant.module IN
       ents'[m].expires = req[p].grant.days +
         (IF ents[m] = NoRow THEN loc[p].now ELSE Later(ents[m].expires, loc[p].now))]_vars

\* Processes wait in a ring only if one of them deletes the key: everyone else
\* has at most one row, or a key that is not there yet for the others.
RingsContainDeleteKey ==
  \A S \in SUBSET Procs :
    S # {} /\ (\A p \in S : WaitsFor(p) \cap S # {}) => \E p \in S : req[p].op = "DeleteKey"

\* Every request is answered.
EveryRequestAnswered ==
  \A p \in Procs : pc[p] # "idle" ~> pc[p] = "idle"

-----------------------------------------------------------------------------
(* The inductive invariant of the proofs.                                  *)

\* The statements each kind of request runs.
StatementsMatchRequest ==
  \A p \in Procs :
    /\ pc[p] \in {"idle", "mint", "view"} => loc[p].next = 1
    /\ pc[p] \in {"mint", "view"} => req[p].op = "CreateKey"
    /\ pc[p] = "get" => req[p].op = "GrantModule"
    /\ pc[p] = "upsert" => Writer(req[p])
    /\ pc[p] = "upsert" /\ req[p].op = "CreateKey" => loc[p].next <= Len(req[p].grants)
    /\ pc[p] = "resolve" => req[p].op # "CreateKey"
    /\ pc[p] \in {"scan", "purge"} => req[p].op \in {"RevokeModule", "DeleteKey"}
    /\ pc[p] = "purge" /\ req[p].op = "RevokeModule" =>
         loc[p].target = req[p].module /\ loc[p].todo \subseteq {req[p].module}
    /\ pc[p] = "delkey" => req[p].op = "DeleteKey"

\* One transaction at a time has an uncommitted write on the key row: an insert
\* where there is none, or a deletion.
KeyHeld ==
  /\ \A p, q \in Procs : wr[p].key # "clean" /\ wr[q].key # "clean" => p = q
  /\ \A p \in Procs :
       /\ wr[p].key = "inserted" <=> req[p] # None /\ req[p].op = "CreateKey"
                                       /\ pc[p] \in {"upsert", "commit"}
       /\ wr[p].key = "inserted" => ~key
       /\ wr[p].key = "deleted" => req[p].op = "DeleteKey" /\ pc[p] = "commit" /\ key

\* One transaction at a time has an uncommitted write on an entitlement row, and
\* only what its request asks for.
RowsHeld ==
  \A p \in Procs, m \in Modules : wr[p].rows[m] # Clean =>
    /\ \A q \in Procs \ {p} : wr[q].rows[m] = Clean
    /\ pc[p] \in {"upsert", "purge", "delkey", "commit"}
    /\ pc[p] \in {"upsert", "purge"} => req[p].op \in {"CreateKey", "DeleteKey"}
    /\ wr[p].rows[m] = NoRow <=> ~Writer(req[p])
    /\ wr[p].rows[m] # NoRow =>
         (wr[p].rows[m].kind = "perpetual" <=> wr[p].rows[m].expires = Never)

\* The rows of a CreateKey are the grants it has got to.
GrantsWritten ==
  \A p \in Procs : req[p] # None /\ req[p].op = "CreateKey" /\ pc[p] \in {"upsert", "commit"} =>
    LET gs == req[p].grants IN
    /\ pc[p] = "commit" => loc[p].next > Len(gs)
    /\ \A i \in 1 .. Len(gs) : i < loc[p].next => wr[p].rows[gs[i].module] # Clean
    /\ \A m \in Modules : wr[p].rows[m] # Clean =>
         \E i \in 1 .. Len(gs) : gs[i].module = m /\ wr[p].rows[m].kind = gs[i].kind

\* What a grant has read is what is committed, until another transaction changes
\* the row; and what it has written follows from what it has read.
CurrentIsCommitted ==
  \A p \in Procs : pc[p] \in {"upsert", "commit"} /\ req[p].op = "GrantModule" =>
    LET m == req[p].grant.module IN
    /\ p \notin superseded =>
         loc[p].current = IF ents[m] = NoRow THEN Never ELSE ents[m].expires
    /\ pc[p] = "commit" =>
         /\ TheExpiry(p) \in Times \cup {Never}
         /\ wr[p].rows[m] = [kind |-> req[p].grant.kind, expires |-> TheExpiry(p)]
    /\ \A o \in Modules \ {m} : wr[p].rows[o] = Clean

\* A grant whose key has gone is on record.
LateRecorded ==
  ~key => \A q \in Procs : Granting(q) /\ pc[q] # "resolve" => q \in late

\* What a DeleteKey has seen: every row is still to be visited, or deleted, or
\* committed since.
DeletesSeeRows ==
  \A p \in Procs :
    /\ \A m \in loc[p].dead : wr[p].rows[m] = NoRow
    /\ pc[p] # "purge" => loc[p].todo = {}
    /\ pc[p] \in {"purge", "delkey", "commit"} /\ req[p].op = "DeleteKey" =>
         \A m \in Modules : ents[m] # NoRow =>
           m \in loc[p].todo \/ wr[p].rows[m] = NoRow \/ m \in unseen[p]

IInv ==
  /\ TypeOK
  /\ StatementsMatchRequest
  /\ KeyHeld
  /\ RowsHeld
  /\ GrantsWritten
  /\ CurrentIsCommitted
  /\ LateRecorded
  /\ DeletesSeeRows
  /\ KindMatchesExpiry
  /\ OrphansCameLate

=============================================================================
