---------------------------- MODULE TrialLedger ----------------------------
(***************************************************************************)
(* The trial ledger of one installation (fingerprint), and the contents of *)
(* the certificates that are issued to it, statement by statement.         *)
(*                                                                         *)
(* TrialStart without a key runs the ledger half of the handler alone;     *)
(* with a key it runs the key and slot half first, in the same             *)
(* transaction.  Slots.tla has the key and slot half: here it holds the    *)
(* key row and may refuse.  ResetTrial deletes a row.  Activate reads the  *)
(* ledger into its certificate.  Transactions and locks are those of       *)
(* Slots.tla, on the rows (fingerprint, module) of license_trials; a       *)
(* transaction writes at most one, that of its request's module.           *)
(***************************************************************************)
EXTENDS Naturals

CONSTANTS
  Procs,          \* goroutines serving requests
  Modules,        \* modules of the product
  TrialDays,      \* length of a trial
  MaxClock,       \* bound of the clock
  EntRows,        \* values an entitlement row of the key can take
  Requests,       \* the requests clients and operators send
  NoRow,          \* no such row
  Never,          \* the expiry of a perpetual entitlement
  Clean,          \* no uncommitted write
  None            \* no process, no request

Times == 0 .. MaxClock

Request ==
  [op : {"TrialStart"}, keyed : BOOLEAN, module : Modules]
    \cup [op : {"ResetTrial"}, module : Modules]
    \cup [op : {"Activate"}]

ASSUME BoundsAssumption   == TrialDays \in Nat \ {0} /\ MaxClock \in Nat
ASSUME MarksAssumption    == {NoRow, Clean} \cap Nat = {} /\ NoRow # Clean
ASSUME EntsAssumption     == EntRows \subseteq {NoRow, Never} \cup Nat /\ NoRow \in EntRows
ASSUME ProcsAssumption    == None \notin Procs
ASSUME RequestsAssumption == Requests \subseteq Request /\ None \notin Requests

VARIABLES
  clock,          \* the service's clock
  ledger,         \* committed trial rows: module -> start or NoRow
  ents,           \* committed entitlement rows of the key: module -> expiry or NoRow
  keyLock,        \* the process whose transaction holds the key row, or None
  pc,             \* the statement each process is at
  req,            \* the request each process serves, or None
  loc,            \* values the handler keeps between statements
  wr,             \* uncommitted write on the row of the request's module
  reply,          \* the last answer of each process
  begun           \* history: every trial that has ever been committed

vars == <<clock, ledger, ents, keyLock, pc, req, loc, wr, reply, begun>>

Codes == {"none", "ok", "key_refused", "already_entitled", "slot_limit", "internal"}

NoRows == [m \in Modules |-> NoRow]

\* trial, already: the handler's trial and alreadyStart; started: StartedAt of
\* the row to insert; ents, trials: the rows the certificate is made of.
Locals == [trial : Times \cup {NoRow}, already : BOOLEAN, started : Times,
           ents : [Modules -> EntRows], trials : [Modules -> Times \cup {NoRow}]]

NoLocals == [trial |-> NoRow, already |-> FALSE, started |-> 0,
             ents |-> NoRows, trials |-> NoRows]

Labels == {"idle", "lock", "entitled", "slot", "get", "insert", "reread", "commit",
           "ents", "trials", "find", "scan", "delete", "list", "sign"}

Entry == [kind : {"none", "key", "trial"}, expires : Nat \cup {NoRow, Never}]

NoCert == [m \in Modules |-> [kind |-> "none", expires |-> NoRow]]

TypeOK ==
  /\ clock \in Times
  /\ ledger \in [Modules -> Times \cup {NoRow}]
  /\ ents \in [Modules -> EntRows]
  /\ keyLock \in Procs \cup {None}
  /\ pc \in [Procs -> Labels]
  /\ req \in [Procs -> Requests \cup {None}]
  /\ \A p \in Procs : req[p] = None <=> pc[p] = "idle"
  /\ loc \in [Procs -> Locals]
  /\ wr \in [Procs -> Times \cup {NoRow, Clean}]
  /\ reply \in [Procs -> [code : Codes, already : BOOLEAN, cert : [Modules -> Entry]]]
  /\ begun \in SUBSET (Modules \X Times)

NoReply == [code |-> "none", already |-> FALSE, cert |-> NoCert]

Init ==
  /\ clock = 0
  /\ ledger = NoRows
  /\ ents \in [Modules -> EntRows]
  /\ keyLock = None
  /\ pc = [p \in Procs |-> "idle"]
  /\ req = [p \in Procs |-> None]
  /\ loc = [p \in Procs |-> NoLocals]
  /\ wr = [p \in Procs |-> Clean]
  /\ reply = [p \in Procs |-> NoReply]
  /\ begun = {}

-----------------------------------------------------------------------------
(* The database.                                                           *)

\* The row of p's module as a statement of p reads it.
Row(p) == IF wr[p] = Clean THEN ledger[req[p].module] ELSE wr[p]

\* Other transactions with an uncommitted write on that row.
Writers(p) ==
  {q \in Procs \ {p} : wr[q] # Clean /\ req[q].module = req[p].module}

\* INSERT ... ON CONFLICT waits for a writer of the same unique key, DELETE for
\* one of the row it has found.
WaitsFor(p) ==
  CASE pc[p] = "lock"   -> {keyLock} \ {None, p}
    [] pc[p] = "insert" -> Writers(p)
    [] pc[p] = "delete" -> Writers(p)
    [] OTHER -> {}

At(p, label) == pc[p] = label /\ WaitsFor(p) = {}

Goto(p, label) == pc' = [pc EXCEPT ![p] = label]

Tables == <<clock, ledger, ents, begun>>

Release(p) ==
  /\ keyLock' = IF keyLock = p THEN None ELSE keyLock
  /\ wr' = [wr EXCEPT ![p] = Clean]

Answer(p, answer) ==
  /\ reply' = [reply EXCEPT ![p] = answer]
  /\ Goto(p, "idle")
  /\ req' = [req EXCEPT ![p] = None]
  /\ loc' = [loc EXCEPT ![p] = NoLocals]

\* Bug: an error return leaves the key row locked.
AbortLeavesKeyLocked(p, code) ==
  /\ wr' = [wr EXCEPT ![p] = Clean]
  /\ Answer(p, [NoReply EXCEPT !.code = code])
  /\ UNCHANGED <<Tables, keyLock>>

\* The closure returned an error: ROLLBACK, and the error is the answer.
Abort(p, code) ==
  /\ Release(p)
  /\ Answer(p, [NoReply EXCEPT !.code = code])
  /\ UNCHANGED Tables

-----------------------------------------------------------------------------
(* A request arrives.                                                      *)

FirstStatement(r) ==
  CASE r.op = "TrialStart" -> IF r.keyed THEN "lock" ELSE "get"
    [] r.op = "ResetTrial" -> "find"
    [] r.op = "Activate"   -> "lock"

Receive(p, r) ==
  /\ pc[p] = "idle"
  /\ req' = [req EXCEPT ![p] = r]
  /\ Goto(p, FirstStatement(r))
  /\ reply' = [reply EXCEPT ![p] = NoReply]
  /\ UNCHANGED <<Tables, keyLock, loc, wr>>

-----------------------------------------------------------------------------
(* The key and slot half.                                                  *)

\* SELECT ... FOR UPDATE of the key row, which may be missing or revoked.
GetKeyForUpdate(p) ==
  /\ At(p, "lock")
  /\ \/ Abort(p, "key_refused")
     \/ /\ keyLock' = p
        /\ Goto(p, IF req[p].op = "TrialStart" THEN "entitled" ELSE "slot")
        /\ UNCHANGED <<Tables, req, loc, wr, reply>>

\* TrialStart turns away a key with a valid entitlement for the module.
CheckEntitled(p) ==
  LET valid == ents[req[p].module] \notin {NoRow} \cup 0 .. clock IN
  /\ At(p, "entitled")
  /\ \/ valid /\ Abort(p, "already_entitled")
     \/ /\ ~valid
        /\ loc' = [loc EXCEPT ![p].ents = ents]
        /\ Goto(p, "slot")
        /\ UNCHANGED <<Tables, keyLock, req, wr, reply>>

\* occupySlot, which may refuse for want of a slot.
OccupySlot(p) ==
  /\ At(p, "slot")
  /\ \/ Abort(p, "slot_limit")
     \/ /\ Goto(p, IF req[p].op = "TrialStart" THEN "get" ELSE "ents")
        /\ UNCHANGED <<Tables, keyLock, req, loc, wr, reply>>

\* What Activate reads for its certificate.
ListEntitlements(p) ==
  /\ At(p, "ents")
  /\ loc' = [loc EXCEPT ![p].ents = ents]
  /\ Goto(p, "trials")
  /\ UNCHANGED <<Tables, keyLock, req, wr, reply>>

ListTrials(p) ==
  /\ At(p, "trials")
  /\ loc' = [loc EXCEPT ![p].trials = ledger]
  /\ Goto(p, "commit")
  /\ UNCHANGED <<Tables, keyLock, req, wr, reply>>

-----------------------------------------------------------------------------
(* The ledger half of TrialStart.                                          *)

\* Bug: the trial is counted from the next tick on.
GetTrialFromNext(p) ==
  /\ At(p, "get")
  /\ \/ /\ Row(p) # NoRow
        /\ loc' = [loc EXCEPT ![p].trial = Row(p), ![p].already = TRUE]
        /\ Goto(p, "commit")
     \/ /\ Row(p) = NoRow
        /\ loc' = [loc EXCEPT ![p].started = clock + 1]
        /\ Goto(p, "insert")
  /\ UNCHANGED <<Tables, keyLock, req, wr, reply>>

\* An existing row is resumed; otherwise the row to insert takes the time.
GetTrial(p) ==
  /\ At(p, "get")
  /\ \/ /\ Row(p) # NoRow
        /\ loc' = [loc EXCEPT ![p].trial = Row(p), ![p].already = TRUE]
        /\ Goto(p, "commit")
     \/ /\ Row(p) = NoRow
        /\ loc' = [loc EXCEPT ![p].started = clock]
        /\ Goto(p, "insert")
  /\ UNCHANGED <<Tables, keyLock, req, wr, reply>>

\* Bug: the conflict replaces the row instead of doing nothing.
InsertTrialReplacing(p) ==
  /\ At(p, "insert")
  /\ wr' = [wr EXCEPT ![p] = loc[p].started]
  /\ Goto(p, "reread")
  /\ UNCHANGED <<Tables, keyLock, req, loc, reply>>

InsertTrialOnConflictDoNothing(p) ==
  /\ At(p, "insert")
  /\ wr' = IF Row(p) = NoRow THEN [wr EXCEPT ![p] = loc[p].started] ELSE wr
  /\ Goto(p, "reread")
  /\ UNCHANGED <<Tables, keyLock, req, loc, reply>>

\* Bug: the row the handler built is answered, the winner's is not read.
RereadTrialSkipped(p) ==
  /\ At(p, "reread")
  /\ loc' = [loc EXCEPT ![p].trial = loc[p].started]
  /\ Goto(p, "commit")
  /\ UNCHANGED <<Tables, keyLock, req, wr, reply>>

\* Bug: the key row is locked after the trial row.
RereadTrialLocksKey(p) ==
  /\ At(p, "reread")
  /\ \/ Row(p) = NoRow /\ Abort(p, "internal")
     \/ /\ Row(p) # NoRow
        /\ loc' = [loc EXCEPT ![p].trial = Row(p)]
        /\ Goto(p, "lock")
        /\ UNCHANGED <<Tables, keyLock, req, wr, reply>>

\* The re-read finds the own row or the winner's, unless that was reset.
RereadTrial(p) ==
  /\ At(p, "reread")
  /\ \/ Row(p) = NoRow /\ Abort(p, "internal")
     \/ /\ Row(p) # NoRow
        /\ loc' = [loc EXCEPT ![p].trial = Row(p)]
        /\ Goto(p, "commit")
        /\ UNCHANGED <<Tables, keyLock, req, wr, reply>>

-----------------------------------------------------------------------------
(* ResetTrial.                                                             *)

FindTrial(p) ==
  /\ At(p, "find")
  /\ Goto(p, IF Row(p) = NoRow THEN "commit" ELSE "scan")
  /\ UNCHANGED <<Tables, keyLock, req, loc, wr, reply>>

\* DELETE finds the row, if no other reset has deleted it since (no error) ...
ScanTrial(p) ==
  /\ At(p, "scan")
  /\ Goto(p, IF Row(p) = NoRow THEN "commit" ELSE "delete")
  /\ UNCHANGED <<Tables, keyLock, req, loc, wr, reply>>

\* ... waits for a reset that is deleting it, and deletes it.
DeleteTrial(p) ==
  /\ At(p, "delete")
  /\ wr' = [wr EXCEPT ![p] = NoRow]
  /\ Goto(p, "commit")
  /\ UNCHANGED <<Tables, keyLock, req, loc, reply>>

-----------------------------------------------------------------------------
(* The end of a transaction, and what follows.                             *)

\* A DELETE that has waited for p's finds its row gone, even if a new one has
\* come by the time it runs.
AfterReset(p) ==
  [q \in Procs |->
     IF q = p THEN "idle"
     ELSE IF wr[p] = NoRow /\ pc[q] = "delete" /\ req[q].module = req[p].module
     THEN "commit" ELSE pc[q]]

\* A keyed TrialStart signs with the one trial it has started or resumed; a
\* keyless one goes on to list the whole ledger.
Commit(p) ==
  LET m == req[p].module IN
  /\ At(p, "commit")
  /\ IF wr[p] = Clean THEN UNCHANGED ledger
     ELSE ledger' = [ledger EXCEPT ![m] = wr[p]]
  /\ begun' = IF wr[p] \in {Clean, NoRow} THEN begun ELSE begun \cup {<<m, wr[p]>>}
  /\ Release(p)
  /\ UNCHANGED <<clock, ents>>
  /\ \/ /\ req[p].op = "ResetTrial"
        /\ reply' = [reply EXCEPT ![p] = [NoReply EXCEPT !.code = "ok"]]
        /\ pc' = AfterReset(p)
        /\ req' = [req EXCEPT ![p] = None]
        /\ UNCHANGED loc
     \/ /\ req[p].op = "TrialStart" /\ req[p].keyed
        /\ loc' = [loc EXCEPT ![p].trials = [NoRows EXCEPT ![m] = loc[p].trial]]
        /\ Goto(p, "sign")
        /\ UNCHANGED <<req, reply>>
     \/ /\ req[p].op = "TrialStart" /\ ~req[p].keyed
        /\ Goto(p, "list")
        /\ UNCHANGED <<req, loc, reply>>
     \/ /\ req[p].op = "Activate"
        /\ Goto(p, "sign")
        /\ UNCHANGED <<req, loc, reply>>

\* The full ledger of a keyless certificate is read outside the transaction.
ListLedger(p) ==
  /\ At(p, "list")
  /\ loc' = [loc EXCEPT ![p].trials = ledger]
  /\ Goto(p, "sign")
  /\ UNCHANGED <<Tables, keyLock, req, wr, reply>>

\* signCert: an entry of the key takes priority over a trial of the module,
\* expired entries stay in.
Certificate(entRows, trialRows) ==
  [m \in Modules |->
     CASE entRows[m] # NoRow ->
            [kind |-> "key", expires |-> entRows[m]]
       [] entRows[m] = NoRow /\ trialRows[m] # NoRow ->
            [kind |-> "trial", expires |-> trialRows[m] + TrialDays]
       [] OTHER ->
            [kind |-> "none", expires |-> NoRow]]

SignCert(p) ==
  /\ At(p, "sign")
  /\ Answer(p, [code |-> "ok", already |-> loc[p].already,
                cert |-> Certificate(loc[p].ents, loc[p].trials)])
  /\ UNCHANGED <<Tables, keyLock, wr>>

\* A statement or the signing fails.
Fail(p) == pc[p] # "idle" /\ Abort(p, "internal")

-----------------------------------------------------------------------------

Step(p) ==
  \/ GetKeyForUpdate(p) \/ CheckEntitled(p) \/ OccupySlot(p)
  \/ ListEntitlements(p) \/ ListTrials(p)
  \/ GetTrial(p) \/ InsertTrialOnConflictDoNothing(p) \/ RereadTrial(p)
  \/ FindTrial(p) \/ ScanTrial(p) \/ DeleteTrial(p)
  \/ Commit(p) \/ ListLedger(p) \/ SignCert(p)

Tick ==
  /\ clock < MaxClock
  /\ clock' = clock + 1
  /\ UNCHANGED <<ledger, ents, keyLock, pc, req, loc, wr, reply, begun>>

\* GrantModule and RevokeModule, which take no lock of these transactions.
ChangeEntitlement(m, row) ==
  /\ ents' = [ents EXCEPT ![m] = row]
  /\ UNCHANGED <<clock, ledger, keyLock, pc, req, loc, wr, reply, begun>>

Next ==
  \/ \E p \in Procs : \/ \E r \in Requests : Receive(p, r)
                      \/ Step(p)
                      \/ Fail(p)
  \/ Tick
  \/ \E m \in Modules, row \in EntRows : ChangeEntitlement(m, row)

Spec == Init /\ [][Next]_vars

\* A statement that can run runs, and a lock reaches every waiter.
FairSpec == Spec /\ \A p \in Procs : SF_vars(Step(p))

-----------------------------------------------------------------------------
(* Properties.                                                             *)

Book == INSTANCE TrialBook

\* The statements each kind of request runs.
StatementsMatchRequest ==
  \A p \in Procs :
    /\ pc[p] \in {"entitled", "get", "insert", "reread", "list"} => req[p].op = "TrialStart"
    /\ pc[p] \in {"find", "scan", "delete"} => req[p].op = "ResetTrial"
    /\ pc[p] \in {"ents", "trials"} => req[p].op = "Activate"
    /\ pc[p] \in {"lock", "slot", "sign"} => req[p].op # "ResetTrial"

\* The key row is held only by a transaction that has got past its lock.
KeyHolderRuns ==
  \A p \in Procs : keyLock = p => pc[p] \notin {"idle", "lock", "list", "sign"}

\* One uncommitted write per row, at the end of its transaction: a start of the
\* past where there is no committed row, or a deletion.
RowsHeld ==
  \A p \in Procs : wr[p] # Clean =>
    /\ pc[p] \in {"reread", "commit"} /\ req[p].op \in {"TrialStart", "ResetTrial"}
    /\ \A q \in Procs \ {p} : wr[q] # Clean => req[q].module # req[p].module
    /\ wr[p] # NoRow => ledger[req[p].module] = NoRow /\ wr[p] <= clock

StartsArePast == \A p \in Procs : loc[p].started <= clock

\* What the handlers have read was committed, or is the own row.
ReadsWereCommitted ==
  /\ \A m \in Modules : ledger[m] # NoRow => <<m, ledger[m]>> \in begun
  /\ \A p \in Procs, m \in Modules :
       loc[p].trials[m] # NoRow => <<m, loc[p].trials[m]>> \in begun
  /\ \A p \in Procs : loc[p].trial # NoRow =>
       /\ pc[p] \in {"commit", "list", "sign"} /\ req[p].op = "TrialStart"
       /\ \/ <<req[p].module, loc[p].trial>> \in begun
          \/ pc[p] = "commit" /\ wr[p] = loc[p].trial

\* Every trial a certificate shows was at some time a committed row of the
\* ledger, with that start: no answer is made of a row that lost the conflict
\* or was rolled back, and a retry cannot show a later end.
CertShowsCommittedTrials ==
  \A p \in Procs, m \in Modules : reply[p].cert[m].kind = "trial" =>
    \E s \in Times : <<m, s>> \in begun /\ reply[p].cert[m].expires = s + TrialDays

\* The inductive invariant.
IInv ==
  /\ TypeOK
  /\ StatementsMatchRequest
  /\ KeyHolderRuns
  /\ RowsHeld
  /\ StartsArePast
  /\ ReadsWereCommitted
  /\ CertShowsCommittedTrials

\* Concurrent starts, resumptions with other tokens and keys, failures and
\* resets move the ledger only as the trial book says: a trial has one start,
\* which stays until a reset.
ImplementsBook == Book!Spec

\* No processes wait in a ring: a keyed TrialStart takes the key row before the
\* trial row, and nobody who has written a trial row waits for anything.
NoRingOfWaits ==
  \A S \in SUBSET Procs : S # {} => \E p \in S : WaitsFor(p) \cap S = {}

\* Every request is answered: the transactions that hold the key row and the
\* trial rows end on every path, errors included.
EveryRequestAnswered ==
  \A p \in Procs : pc[p] # "idle" ~> pc[p] = "idle"

-----------------------------------------------------------------------------
(* What the documentation says and the code does not do.                   *)

\* docs/design.md, 7.4, and TestTrialConcurrentStart: of the requests that
\* start one trial, exactly one is told that it had not started before.
StartedOnce ==
  \A p, q \in Procs, m \in Modules :
    /\ p # q
    /\ reply[p].cert[m].kind = "trial" /\ ~reply[p].already
    /\ reply[q].cert[m].kind = "trial" /\ ~reply[q].already
    => reply[p].cert[m].expires # reply[q].cert[m].expires

\* signCert: the trial ledger is always merged into the certificate.
LedgerMerged ==
  [][\A p \in Procs, m \in Modules :
       pc[p] = "sign" /\ reply'[p].code = "ok" /\ ledger[m] # NoRow
       => reply'[p].cert[m].kind # "none"]_vars

=============================================================================
