----------------------------- MODULE TrialProofs -----------------------------
(* Proofs about TrialLedger, for every set of processes and requests.       *)
EXTENDS TrialLedger, TLAPS

-----------------------------------------------------------------------------
(* Type correctness.                                                       *)

\* The fields of a request, by its operation.
LEMMA RequestFields ==
  ASSUME NEW r \in Requests
  PROVE  /\ r.op \in {"TrialStart", "ResetTrial", "Activate"}
         /\ r.op \in {"TrialStart", "ResetTrial"} => r.module \in Modules
         /\ r.op = "TrialStart" => r.keyed \in BOOLEAN
         /\ r # None
  BY RequestsAssumption DEF Request

LEMMA NoLocalsType == NoLocals \in Locals /\ NoRows \in [Modules -> EntRows]
  BY BoundsAssumption, EntsAssumption DEF NoLocals, NoRows, Locals, Times

LEMMA NoReplyType ==
  ASSUME NEW code \in Codes
  PROVE  [NoReply EXCEPT !.code = code]
           \in [code : Codes, already : BOOLEAN, cert : [Modules -> Entry]]
<1>1. NoCert \in [Modules -> Entry]
  BY DEF NoCert, Entry
<1>2. QED
  BY <1>1 DEF NoReply

\* What a handler notes between statements keeps its locals well formed.
LEMMA LocalsUpdate ==
  ASSUME NEW l \in Locals, NEW e \in [Modules -> EntRows],
         NEW s \in Times \cup {NoRow}, NEW c \in Times,
         NEW t \in [Modules -> Times \cup {NoRow}]
  PROVE  /\ [l EXCEPT !.ents = e] \in Locals
         /\ [l EXCEPT !.trials = t] \in Locals
         /\ [l EXCEPT !.trial = s] \in Locals
         /\ [l EXCEPT !.trial = s, !.already = TRUE] \in Locals
         /\ [l EXCEPT !.started = c] \in Locals
         /\ l.trial \in Times \cup {NoRow} /\ l.started \in Times /\ l.already \in BOOLEAN
         /\ l.ents \in [Modules -> EntRows]
         /\ l.trials \in [Modules -> Times \cup {NoRow}]
  BY DEF Locals

\* A statement reads a start or no row.
LEMMA RowType ==
  ASSUME TypeOK, NEW p \in Procs, req[p] \in Requests, req[p].op \in {"TrialStart", "ResetTrial"}
  PROVE  Row(p) \in Times \cup {NoRow}
  BY RequestFields DEF TypeOK, Row

LEMMA AbortType ==
  ASSUME TypeOK, NEW p \in Procs, NEW code \in Codes, Abort(p, code)
  PROVE  TypeOK'
<1>1. loc' \in [Procs -> Locals]
  BY NoLocalsType DEF Abort, Answer, TypeOK
<1>2. reply' \in [Procs -> [code : Codes, already : BOOLEAN, cert : [Modules -> Entry]]]
  BY NoReplyType DEF Abort, Answer, TypeOK
<1>3. QED
  BY <1>1, <1>2 DEF Abort, Answer, Release, Goto, Tables, TypeOK, Labels

\* A certificate has an entry per module.
LEMMA CertificateType ==
  ASSUME NEW e \in [Modules -> EntRows], NEW t \in [Modules -> Times \cup {NoRow}]
  PROVE  Certificate(e, t) \in [Modules -> Entry]
<1>1. ASSUME NEW m \in Modules PROVE Certificate(e, t)[m] \in Entry
  <2>1. CASE e[m] # NoRow
    BY <2>1, EntsAssumption DEF Certificate, Entry
  <2>2. CASE e[m] = NoRow /\ t[m] # NoRow
    <3>1. t[m] + TrialDays \in Nat
      BY <2>2, BoundsAssumption DEF Times
    <3>2. QED
      BY <2>2, <3>1 DEF Certificate, Entry
  <2>3. CASE e[m] = NoRow /\ t[m] = NoRow
    BY <2>3 DEF Certificate, Entry
  <2>4. QED
    BY <2>1, <2>2, <2>3
<1>2. QED
  BY <1>1 DEF Certificate

LEMMA CommitType ==
  ASSUME TypeOK, StatementsMatchRequest, RowsHeld, NEW p \in Procs, Commit(p)
  PROVE  TypeOK'
<1> USE DEF TypeOK
<1>1. pc[p] = "commit" /\ req[p] \in Requests
  BY DEF Commit, At
<1>2. wr[p] # Clean => req[p].module \in Modules
  BY <1>1, RequestFields DEF RowsHeld
<1>3. ledger' \in [Modules -> Times \cup {NoRow}] /\ begun' \in SUBSET (Modules \X Times)
  BY <1>2 DEF Commit
<1>4. keyLock' \in Procs \cup {None} /\ wr' \in [Procs -> Times \cup {NoRow, Clean}]
  BY DEF Commit, Release
<1>5. loc' \in [Procs -> Locals]
  <2>1. CASE UNCHANGED loc
    BY <2>1
  <2>2. CASE req[p].op = "TrialStart" /\ loc' = [loc EXCEPT ![p].trials = [NoRows EXCEPT ![req[p].module] = loc[p].trial]]
    <3>1. loc[p] \in Locals
      OBVIOUS
    <3>2. [NoRows EXCEPT ![req[p].module] = loc[p].trial] \in [Modules -> Times \cup {NoRow}]
      BY <3>1, LocalsUpdate DEF NoRows, Locals
    <3>3. [loc[p] EXCEPT !.trials = [NoRows EXCEPT ![req[p].module] = loc[p].trial]] \in Locals
      BY <3>1, <3>2, LocalsUpdate DEF Locals
    <3>4. QED
      BY <2>2, <3>3
  <2>3. QED
    BY <2>1, <2>2 DEF Commit
<1>6. /\ reply' \in [Procs -> [code : Codes, already : BOOLEAN, cert : [Modules -> Entry]]]
      /\ req' \in [Procs -> Requests \cup {None}]
  <2>1. "ok" \in Codes
    BY DEF Codes
  <2>2. [NoReply EXCEPT !.code = "ok"]
          \in [code : Codes, already : BOOLEAN, cert : [Modules -> Entry]]
    BY <2>1, NoReplyType
  <2>3. QED
    BY <2>2 DEF Commit
<1>7. pc' \in [Procs -> Labels] /\ \A q \in Procs : req'[q] = None <=> pc'[q] = "idle"
  <2>1. CASE pc' = AfterReset(p) /\ req' = [req EXCEPT ![p] = None]
    BY <2>1 DEF AfterReset, Labels
  <2>2. CASE UNCHANGED req /\ (Goto(p, "sign") \/ Goto(p, "list"))
    BY <1>1, <2>2, RequestFields DEF Goto, Labels
  <2>3. QED
    BY <2>1, <2>2 DEF Commit
<1>8. QED
  BY <1>3, <1>4, <1>5, <1>6, <1>7 DEF Commit

LEMMA StepType ==
  ASSUME IInv, NEW p \in Procs, Step(p)
  PROVE  TypeOK'
<1> USE DEF IInv
<1>1. CASE \E code \in Codes : Abort(p, code)
  BY <1>1, AbortType
<1>2. CASE Commit(p)
  BY <1>2, CommitType
<1>3. ASSUME req' = req, pc[p] # "idle", NEW label \in Labels \ {"idle"}, Goto(p, label),
             clock' = clock, ledger' = ledger, ents' = ents, begun' = begun, reply' = reply,
             keyLock' \in Procs \cup {None}, loc' \in [Procs -> Locals],
             wr' \in [Procs -> Times \cup {NoRow, Clean}]
      PROVE  TypeOK'
  BY <1>3 DEF Goto, TypeOK
<1>4. /\ loc[p] \in Locals /\ ents \in [Modules -> EntRows]
      /\ ledger \in [Modules -> Times \cup {NoRow}] /\ clock \in Times
  BY DEF TypeOK
<1>5. pc[p] # "idle" => req[p] \in Requests
  BY DEF TypeOK
<1>6. CASE /\ ~ \E code \in Codes : Abort(p, code)
           /\ \/ GetKeyForUpdate(p) \/ OccupySlot(p) \/ InsertTrialOnConflictDoNothing(p)
              \/ FindTrial(p) \/ ScanTrial(p) \/ DeleteTrial(p)
  <2>1. loc[p].started \in Times
    BY <1>4, LocalsUpdate DEF Locals
  <2>2. QED
    BY <1>3, <1>6, <2>1 DEF GetKeyForUpdate, OccupySlot, InsertTrialOnConflictDoNothing,
       FindTrial, ScanTrial, DeleteTrial, At, Goto, Tables, TypeOK, Labels, Codes
<1>7. CASE /\ ~ \E code \in Codes : Abort(p, code)
           /\ CheckEntitled(p) \/ ListEntitlements(p) \/ ListTrials(p) \/ ListLedger(p)
  <2>1. /\ [loc[p] EXCEPT !.ents = ents] \in Locals
        /\ [loc[p] EXCEPT !.trials = ledger] \in Locals
    BY <1>4, LocalsUpdate DEF Locals
  <2>2. loc' \in [Procs -> Locals]
    BY <1>7, <2>1 DEF CheckEntitled, ListEntitlements, ListTrials, ListLedger, TypeOK, Codes
  <2>3. QED
    BY <1>3, <1>7, <2>2 DEF CheckEntitled, ListEntitlements, ListTrials, ListLedger,
       At, Tables, TypeOK, Labels, Codes
<1>8. CASE /\ ~ \E code \in Codes : Abort(p, code)
           /\ GetTrial(p) \/ RereadTrial(p)
  <2>1. pc[p] \in {"get", "reread"} /\ req[p].op = "TrialStart"
    BY <1>8 DEF GetTrial, RereadTrial, At, StatementsMatchRequest
  <2>2. Row(p) \in Times \cup {NoRow}
    BY <1>5, <2>1, RowType
  <2>3. /\ [loc[p] EXCEPT !.trial = Row(p), !.already = TRUE] \in Locals
        /\ [loc[p] EXCEPT !.started = clock] \in Locals
        /\ [loc[p] EXCEPT !.trial = Row(p)] \in Locals
    BY <1>4, <2>2, LocalsUpdate DEF Locals
  <2>4. loc' \in [Procs -> Locals]
    BY <1>8, <2>3 DEF GetTrial, RereadTrial, TypeOK, Codes
  <2>5. QED
    BY <1>3, <1>8, <2>1, <2>4 DEF GetTrial, RereadTrial, Tables, TypeOK, Labels, Codes
<1>9. CASE SignCert(p)
  <2>1. Certificate(loc[p].ents, loc[p].trials) \in [Modules -> Entry]
    BY <1>4, CertificateType DEF Locals
  <2>2. reply' \in [Procs -> [code : Codes, already : BOOLEAN, cert : [Modules -> Entry]]]
    BY <1>4, <1>9, <2>1 DEF SignCert, Answer, TypeOK, Codes, Locals
  <2>3. loc' \in [Procs -> Locals]
    BY <1>9, NoLocalsType DEF SignCert, Answer, TypeOK
  <2>4. QED
    BY <1>9, <2>2, <2>3 DEF SignCert, Answer, Goto, Tables, TypeOK, Labels
<1>10. QED
  BY <1>1, <1>2, <1>6, <1>7, <1>8, <1>9 DEF Step

-----------------------------------------------------------------------------
(* What one step of one process changes.                                   *)

\* A step of p leaves the other processes alone, except that a COMMIT may send
\* a waiting DELETE on.
LEMMA OthersStay ==
  ASSUME TypeOK, NEW p \in Procs, Step(p) \/ Fail(p) \/ \E r \in Requests : Receive(p, r),
         NEW q \in Procs \ {p}
  PROVE  /\ req'[q] = req[q] /\ loc'[q] = loc[q] /\ wr'[q] = wr[q] /\ reply'[q] = reply[q]
         /\ pc'[q] # pc[q] => pc[q] = "delete" /\ pc'[q] = "commit"
<1> DEFINE Stay == /\ req'[q] = req[q] /\ loc'[q] = loc[q] /\ wr'[q] = wr[q] /\ reply'[q] = reply[q]
                   /\ pc'[q] # pc[q] => pc[q] = "delete" /\ pc'[q] = "commit"
<1> USE DEF TypeOK, Goto
<1>1. ASSUME NEW code, Abort(p, code) PROVE Stay
  BY <1>1 DEF Abort, Answer, Release
<1>2. ASSUME NEW r \in Requests, Receive(p, r) PROVE Stay
  BY <1>2 DEF Receive
<1>3. CASE GetKeyForUpdate(p) \/ CheckEntitled(p) \/ OccupySlot(p)
            \/ ListEntitlements(p) \/ ListTrials(p)
  BY <1>1, <1>3 DEF GetKeyForUpdate, CheckEntitled, OccupySlot, ListEntitlements, ListTrials
<1>4. CASE GetTrial(p) \/ InsertTrialOnConflictDoNothing(p) \/ RereadTrial(p)
  BY <1>1, <1>4 DEF GetTrial, InsertTrialOnConflictDoNothing, RereadTrial
<1>5. CASE FindTrial(p) \/ ScanTrial(p) \/ DeleteTrial(p) \/ ListLedger(p) \/ SignCert(p)
  BY <1>5 DEF FindTrial, ScanTrial, DeleteTrial, ListLedger, SignCert, Answer
<1>6. CASE Commit(p)
  BY <1>6 DEF Commit, Release, AfterReset
<1>7. QED
  BY <1>1, <1>2, <1>3, <1>4, <1>5, <1>6 DEF Step, Fail

\* Only COMMIT writes the ledger and the history, for a module whose row only p
\* has written; nobody turns the clock.
LEMMA SharedStay ==
  ASSUME IInv, NEW p \in Procs, Step(p) \/ Fail(p) \/ \E r \in Requests : Receive(p, r)
  PROVE  /\ clock' = clock /\ ents' = ents
         /\ UNCHANGED <<ledger, begun>> \/ (Commit(p) /\ wr[p] # Clean)
         /\ begun \subseteq begun'
<1>1. ASSUME NEW code, Abort(p, code) PROVE UNCHANGED Tables
  BY <1>1 DEF Abort
<1>2. CASE Commit(p)
  BY <1>2 DEF Commit
<1>3. CASE ~Commit(p)
  <2>1. UNCHANGED Tables
    BY <1>1, <1>3 DEF Step, Fail, Receive, GetKeyForUpdate, CheckEntitled, OccupySlot, ListEntitlements,
       ListTrials, GetTrial, InsertTrialOnConflictDoNothing, RereadTrial, FindTrial,
       ScanTrial, DeleteTrial, ListLedger, SignCert
  <2>2. QED
    BY <2>1 DEF Tables
<1>4. QED
  BY <1>2, <1>3

\* What an aborted or finished request leaves.
LEMMA AnswerLeaves ==
  ASSUME TypeOK, NEW p \in Procs, NEW code \in Codes, Abort(p, code)
  PROVE  /\ pc'[p] = "idle" /\ keyLock' # p /\ wr'[p] = Clean /\ loc'[p] = NoLocals
         /\ reply'[p] = [NoReply EXCEPT !.code = code]
         /\ keyLock' \in {keyLock, None}
  BY ProcsAssumption DEF Abort, Answer, Release, Goto, TypeOK

-----------------------------------------------------------------------------
(* The parts of the invariant.                                             *)

LEMMA StatementsInv ==
  ASSUME IInv, NEW p \in Procs, Step(p) \/ Fail(p) \/ \E r \in Requests : Receive(p, r)
  PROVE  StatementsMatchRequest' /\ KeyHolderRuns'
<1> USE DEF IInv
<1> DEFINE Matches(q) ==
      /\ pc[q] \in {"entitled", "get", "insert", "reread", "list"} => req[q].op = "TrialStart"
      /\ pc[q] \in {"find", "scan", "delete"} => req[q].op = "ResetTrial"
      /\ pc[q] \in {"ents", "trials"} => req[q].op = "Activate"
      /\ pc[q] \in {"lock", "slot", "sign"} => req[q].op # "ResetTrial"
      /\ keyLock = q => pc[q] \notin {"idle", "lock", "list", "sign"}
<1>1. Matches(p)
  BY DEF StatementsMatchRequest, KeyHolderRuns
<1>2. Matches(p)'
  <2> USE DEF TypeOK, Goto, At
  <2>1. ASSUME NEW code \in Codes, Abort(p, code) PROVE Matches(p)'
    BY <2>1, AnswerLeaves
  <2>2. ASSUME NEW r \in Requests, Receive(p, r) PROVE Matches(p)'
    BY <1>1, <2>2, RequestFields DEF Receive, FirstStatement
  <2>3. CASE (~ \E code \in Codes : Abort(p, code))
             /\ (GetKeyForUpdate(p) \/ CheckEntitled(p) \/ OccupySlot(p))
    <3>1. req[p] \in Requests
      BY <2>3 DEF GetKeyForUpdate, CheckEntitled, OccupySlot
    <3>2. QED
      BY <1>1, <2>3, <3>1, RequestFields
      DEF GetKeyForUpdate, CheckEntitled, OccupySlot, Codes
  <2>4. CASE (~ \E code \in Codes : Abort(p, code))
             /\ (GetTrial(p) \/ InsertTrialOnConflictDoNothing(p) \/ RereadTrial(p)
                 \/ ListEntitlements(p) \/ ListTrials(p))
    BY <1>1, <2>4 DEF GetTrial, InsertTrialOnConflictDoNothing, RereadTrial,
       ListEntitlements, ListTrials, Codes
  <2>5. CASE FindTrial(p) \/ ScanTrial(p) \/ DeleteTrial(p) \/ ListLedger(p) \/ SignCert(p)
    BY <1>1, <2>5 DEF FindTrial, ScanTrial, DeleteTrial, ListLedger, SignCert, Answer
  <2>6. CASE Commit(p)
    <3>1. keyLock' # p
      BY <2>6, ProcsAssumption DEF Commit, Release
    <3>2. QED
      BY <2>6, <3>1 DEF Commit, AfterReset
  <2>7. QED
    BY <2>1, <2>2, <2>3, <2>4, <2>5, <2>6 DEF Step, Fail, Codes
<1>3. keyLock' \in {keyLock, p, None}
  <2>1. ASSUME NEW code \in Codes, Abort(p, code) PROVE keyLock' \in {keyLock, p, None}
    BY <2>1, AnswerLeaves
  <2>2. QED
    BY <2>1 DEF Step, Fail, Receive, GetKeyForUpdate, CheckEntitled, OccupySlot, ListEntitlements,
       ListTrials, GetTrial, InsertTrialOnConflictDoNothing, RereadTrial, FindTrial,
       ScanTrial, DeleteTrial, Commit, Release, ListLedger, SignCert, Codes
<1>4. ASSUME NEW q \in Procs \ {p} PROVE Matches(q)'
  <2>1. req'[q] = req[q] /\ (pc'[q] = pc[q] \/ pc'[q] = "commit")
    BY OthersStay
  <2>2. keyLock' = q => keyLock = q
    BY <1>3, ProcsAssumption
  <2>3. QED
    BY <2>1, <2>2 DEF StatementsMatchRequest, KeyHolderRuns
<1>5. QED
  BY <1>2, <1>4 DEF StatementsMatchRequest, KeyHolderRuns

\* The row of a trial has one uncommitted writer: INSERT and DELETE wait for any
\* other before they write.
LEMMA RowsHeldInv ==
  ASSUME IInv, NEW p \in Procs, Step(p) \/ Fail(p) \/ \E r \in Requests : Receive(p, r)
  PROVE  RowsHeld'
<1> USE DEF IInv
<1> DEFINE Past(q) == wr[q] # NoRow => ledger[req[q].module] = NoRow /\ wr[q] <= clock
           Writing(q) == pc[q] \in {"reread", "commit"} /\ req[q].op \in {"TrialStart", "ResetTrial"}
           Mine(q) == wr'[q] # Clean =>
                        /\ pc'[q] \in {"reread", "commit"} /\ req'[q] = req[q]
                        /\ req[q].op \in {"TrialStart", "ResetTrial"}
                        /\ \A o \in Procs \ {q} : wr[o] # Clean => req[o].module # req[q].module
                        /\ wr'[q] # NoRow => ledger'[req[q].module] = NoRow /\ wr'[q] <= clock'
<1>1. /\ wr[p] # Clean => Writing(p) /\ Past(p)
      /\ wr[p] # Clean => \A o \in Procs \ {p} : wr[o] # Clean => req[o].module # req[p].module
  BY DEF RowsHeld
<1>2. clock' = clock /\ (UNCHANGED ledger \/ (Commit(p) /\ wr[p] # Clean))
  BY SharedStay
<1>3. Mine(p)
  <2> USE DEF TypeOK, At, Goto
  <2>1. ASSUME wr'[p] = Clean PROVE Mine(p)
    BY <2>1
  <2>2. ASSUME UNCHANGED <<wr, req, ledger>>, pc'[p] = "commit" \/ pc[p] \notin {"reread", "commit"}
        PROVE  Mine(p)
    BY <1>1, <1>2, <2>2
  <2>3. ASSUME NEW code \in Codes, Abort(p, code) PROVE Mine(p)
    BY <2>1, <2>3, AnswerLeaves
  <2>4. ASSUME NEW r \in Requests, Receive(p, r) PROVE Mine(p)
    BY <1>1, <2>4 DEF Receive
  <2>5. CASE (~ \E code \in Codes : Abort(p, code))
             /\ (GetKeyForUpdate(p) \/ CheckEntitled(p) \/ OccupySlot(p) \/ ListEntitlements(p)
                 \/ ListTrials(p) \/ GetTrial(p) \/ RereadTrial(p) \/ FindTrial(p) \/ ScanTrial(p))
    BY <1>2, <2>2, <2>5 DEF GetKeyForUpdate, CheckEntitled, OccupySlot, ListEntitlements, ListTrials,
       GetTrial, RereadTrial, FindTrial, ScanTrial, Codes, Tables
  <2>6. CASE ListLedger(p) \/ SignCert(p)
    BY <1>1, <2>6 DEF ListLedger, SignCert, Answer
  <2>7. CASE Commit(p)
    BY <2>1, <2>7 DEF Commit, Release
  <2>8. ASSUME Writers(p) = {}
        PROVE  \A o \in Procs \ {p} : wr[o] # Clean => req[o].module # req[p].module
    BY <2>8 DEF Writers
  <2>9. CASE InsertTrialOnConflictDoNothing(p)
    <3>1. /\ pc[p] = "insert" /\ pc'[p] = "reread" /\ Writers(p) = {}
          /\ req' = req /\ ledger' = ledger
      BY <2>9 DEF InsertTrialOnConflictDoNothing, WaitsFor, Tables
    <3>2. wr[p] = Clean /\ req[p].op = "TrialStart"
      BY <1>1, <3>1 DEF StatementsMatchRequest
    <3>3. CASE ledger[req[p].module] # NoRow
      BY <2>1, <2>9, <3>2, <3>3 DEF InsertTrialOnConflictDoNothing, Row
    <3>4. CASE ledger[req[p].module] = NoRow
      <4>1. wr'[p] = loc[p].started /\ loc[p].started <= clock
        BY <2>9, <3>2, <3>4 DEF InsertTrialOnConflictDoNothing, Row, StartsArePast
      <4>2. QED
        BY <1>2, <2>8, <3>1, <3>2, <3>4, <4>1
    <3>5. QED
      BY <3>3, <3>4
  <2>10. CASE DeleteTrial(p)
    <3>1. /\ pc[p] = "delete" /\ pc'[p] = "commit" /\ Writers(p) = {}
          /\ req' = req /\ wr'[p] = NoRow
      BY <2>10 DEF DeleteTrial, WaitsFor
    <3>2. QED
      BY <2>8, <3>1 DEF StatementsMatchRequest
  <2>11. QED
    BY <2>3, <2>4, <2>5, <2>6, <2>7, <2>9, <2>10 DEF Step, Fail, Codes
<1>4. ASSUME NEW q \in Procs \ {p}, wr'[q] # Clean
      PROVE  /\ Writing(q)' /\ Past(q)' /\ req'[q] = req[q] /\ wr[q] # Clean
             /\ \A o \in Procs \ {q} : wr[o] # Clean => req[o].module # req[q].module
  <2>1. wr'[q] = wr[q] /\ req'[q] = req[q] /\ Writing(q) /\ Past(q)
    BY <1>4, OthersStay DEF RowsHeld
  <2>2. Writing(q)'
    BY <2>1, OthersStay
  <2>3. ledger'[req[q].module] = ledger[req[q].module]
    <3>1. CASE UNCHANGED ledger
      BY <3>1
    <3>2. CASE Commit(p) /\ wr[p] # Clean
      <4>1. req[q].module # req[p].module
        BY <1>1, <1>4, <2>1, <3>2
      <4>2. req[p] \in Requests /\ req[q] \in Requests
        BY <1>1, <2>1, <3>2 DEF TypeOK
      <4>3. req[q].module \in Modules
        BY <2>1, <4>2, RequestFields
      <4>4. QED
        BY <3>2, <4>1, <4>3 DEF Commit, TypeOK
    <3>3. QED
      BY <1>2, <3>1, <3>2
  <2>4. QED
    BY <1>2, <1>4, <2>1, <2>2, <2>3 DEF RowsHeld
<1>5. ASSUME NEW q \in Procs, NEW o \in Procs \ {q}, wr'[q] # Clean, wr'[o] # Clean
      PROVE  req'[o].module # req'[q].module
  <2>1. CASE q = p
    BY <1>3, <1>4, <1>5, <2>1
  <2>2. CASE q # p /\ o = p
    BY <1>3, <1>4, <1>5, <2>2
  <2>3. CASE q # p /\ o # p
    BY <1>4, <1>5, <2>3
  <2>4. QED
    BY <2>1, <2>2, <2>3
<1>6. ASSUME NEW q \in Procs, wr'[q] # Clean PROVE Writing(q)' /\ Past(q)'
  BY <1>3, <1>4, <1>6
<1>7. QED
  BY <1>5, <1>6 DEF RowsHeld

LEMMA StartsArePastInv ==
  ASSUME IInv, NEW p \in Procs, Step(p) \/ Fail(p) \/ \E r \in Requests : Receive(p, r)
  PROVE  StartsArePast'
<1> USE DEF IInv
<1>1. clock' = clock /\ clock \in Times /\ clock \in Nat
  BY SharedStay, BoundsAssumption DEF TypeOK, Times
<1>2. ASSUME loc'[p] = NoLocals PROVE loc'[p].started <= clock
  BY <1>1, <1>2 DEF NoLocals
<1>3. loc \in [Procs -> Locals] /\ loc[p] \in Locals /\ loc[p].started <= clock
  BY DEF StartsArePast, TypeOK
<1>4. ASSUME NEW code \in Codes, Abort(p, code) PROVE loc'[p].started <= clock
  BY <1>2, <1>4, AnswerLeaves
<1>5. ASSUME SignCert(p) PROVE loc'[p].started <= clock
  BY <1>2, <1>3, <1>5 DEF SignCert, Answer
<1>6. ASSUME \/ \E e : loc' = [loc EXCEPT ![p].ents = e]
             \/ \E t : loc' = [loc EXCEPT ![p].trials = t]
             \/ UNCHANGED loc
      PROVE  loc'[p].started <= clock
  BY <1>3, <1>6 DEF Locals
<1>7. ASSUME GetTrial(p) PROVE loc'[p].started <= clock
  BY <1>1, <1>3, <1>7 DEF GetTrial, Locals
<1>8. ASSUME RereadTrial(p), ~ \E code \in Codes : Abort(p, code)
      PROVE  loc'[p].started <= clock
  BY <1>3, <1>8 DEF RereadTrial, Locals, Codes
<1>9. ASSUME Commit(p) PROVE loc'[p].started <= clock
  BY <1>6, <1>9 DEF Commit
<1>10. loc'[p].started <= clock
  <2>1. CASE \E code \in Codes : Abort(p, code)
    BY <1>4, <2>1
  <2>2. CASE ~ \E code \in Codes : Abort(p, code)
    BY <1>5, <1>6, <1>7, <1>8, <1>9, <2>2
    DEF Step, Fail, Receive, GetKeyForUpdate, CheckEntitled, OccupySlot, ListEntitlements, ListTrials,
        InsertTrialOnConflictDoNothing, FindTrial, ScanTrial, DeleteTrial, ListLedger, Codes
  <2>3. QED
    BY <2>1, <2>2
<1>11. QED
  BY <1>1, <1>10, OthersStay DEF StartsArePast

\* What a handler reads has been committed, or is its own row, which is
\* committed with its transaction.
LEMMA ReadsInv ==
  ASSUME IInv, NEW p \in Procs, Step(p) \/ Fail(p) \/ \E r \in Requests : Receive(p, r)
  PROVE  ReadsWereCommitted'
<1> USE DEF IInv
<1> DEFINE Listed(q) == \A m \in Modules :
             loc[q].trials[m] # NoRow => <<m, loc[q].trials[m]>> \in begun
           Kept(q) == loc[q].trial # NoRow =>
             /\ pc[q] \in {"commit", "list", "sign"} /\ req[q].op = "TrialStart"
             /\ \/ <<req[q].module, loc[q].trial>> \in begun
                \/ pc[q] = "commit" /\ wr[q] = loc[q].trial
<1>1. begun \subseteq begun'
  BY SharedStay
<1>2. Listed(p) /\ Kept(p) /\ loc \in [Procs -> Locals] /\ loc[p] \in Locals
  BY DEF ReadsWereCommitted, TypeOK
<1>3. \A m \in Modules : ledger[m] # NoRow => <<m, ledger[m]>> \in begun
  BY DEF ReadsWereCommitted
<1>4. pc[p] # "idle" /\ req[p].op \in {"TrialStart", "ResetTrial"} => req[p].module \in Modules
  BY RequestFields DEF TypeOK
<1>5. \A m \in Modules : ledger'[m] # NoRow => <<m, ledger'[m]>> \in begun'
  <2>1. CASE UNCHANGED ledger
    BY <1>1, <1>3, <2>1
  <2>2. CASE Commit(p) /\ wr[p] # Clean
    <3>1. req[p].module \in Modules
      BY <1>4, <2>2 DEF RowsHeld, Commit, At
    <3>2. /\ ledger' = [ledger EXCEPT ![req[p].module] = wr[p]]
          /\ wr[p] # NoRow => <<req[p].module, wr[p]>> \in begun'
      BY <2>2 DEF Commit
    <3>3. QED
      BY <1>1, <1>3, <3>1, <3>2 DEF TypeOK
  <2>3. QED
    BY <2>1, <2>2, SharedStay
<1>6. Listed(p)' /\ Kept(p)'
  <2> USE DEF At, Goto
  <2>1. ASSUME loc'[p] = NoLocals PROVE Listed(p)' /\ Kept(p)'
    BY <2>1 DEF NoLocals, NoRows
  <2>2. ASSUME NEW code \in Codes, Abort(p, code) PROVE Listed(p)' /\ Kept(p)'
    BY <2>1, <2>2, AnswerLeaves
  <2>3. ASSUME UNCHANGED <<loc, begun>>, loc[p].trial = NoRow PROVE Listed(p)' /\ Kept(p)'
    BY <1>2, <2>3
  <2>4. ASSUME NEW r \in Requests, Receive(p, r) PROVE Listed(p)' /\ Kept(p)'
    BY <1>2, <2>3, <2>4 DEF Receive, Tables
  <2>5. ASSUME ~ \E code \in Codes : Abort(p, code),
               GetKeyForUpdate(p) \/ OccupySlot(p) \/ InsertTrialOnConflictDoNothing(p)
                 \/ FindTrial(p) \/ ScanTrial(p) \/ DeleteTrial(p)
        PROVE  Listed(p)' /\ Kept(p)'
    BY <1>2, <2>3, <2>5 DEF GetKeyForUpdate, OccupySlot, InsertTrialOnConflictDoNothing,
       FindTrial, ScanTrial, DeleteTrial, Tables, Codes
  <2>6. ASSUME ~ \E code \in Codes : Abort(p, code), CheckEntitled(p) \/ ListEntitlements(p)
        PROVE  Listed(p)' /\ Kept(p)'
    <3>1. /\ loc' = [loc EXCEPT ![p].ents = ents] /\ UNCHANGED begun
          /\ pc[p] \in {"entitled", "ents"}
      BY <2>6 DEF CheckEntitled, ListEntitlements, Tables, Codes
    <3>2. loc'[p].trial = NoRow /\ loc'[p].trials = loc[p].trials
      BY <1>2, <3>1 DEF Locals
    <3>3. QED
      BY <1>2, <3>1, <3>2
  <2>7. ASSUME ListTrials(p) PROVE Listed(p)' /\ Kept(p)'
    <3>1. loc'[p].trial = NoRow /\ loc'[p].trials = ledger /\ UNCHANGED begun
      BY <1>2, <2>7 DEF ListTrials, Tables, Locals
    <3>2. QED
      BY <1>3, <3>1
  <2>8. ASSUME ListLedger(p) PROVE Listed(p)' /\ Kept(p)'
    <3>1. /\ loc'[p].trial = loc[p].trial /\ loc'[p].trials = ledger /\ UNCHANGED <<begun, req>>
          /\ pc[p] = "list" /\ pc'[p] = "sign"
      BY <1>2, <2>8 DEF ListLedger, Tables, Locals, TypeOK
    <3>2. QED
      BY <1>2, <1>3, <3>1
  <2>9. ASSUME GetTrial(p) PROVE Listed(p)' /\ Kept(p)'
    <3>1. pc[p] = "get" /\ req[p].op = "TrialStart" /\ UNCHANGED <<begun, req>>
      BY <2>9 DEF GetTrial, Tables, StatementsMatchRequest
    <3>2. Row(p) = ledger[req[p].module] /\ req[p].module \in Modules
      BY <1>4, <3>1 DEF Row, RowsHeld
    <3>3. loc'[p].trials = loc[p].trials
      BY <1>2, <2>9 DEF GetTrial, Locals
    <3>4. CASE Row(p) # NoRow
      <4>1. loc'[p].trial = Row(p) /\ pc'[p] = "commit"
        BY <1>2, <2>9, <3>4 DEF GetTrial, Locals, TypeOK
      <4>2. QED
        BY <1>2, <1>3, <3>1, <3>2, <3>3, <3>4, <4>1
    <3>5. CASE Row(p) = NoRow
      <4>1. loc'[p].trial = NoRow
        BY <1>2, <2>9, <3>1, <3>5 DEF GetTrial, Locals
      <4>2. QED
        BY <1>2, <3>1, <3>3, <4>1
    <3>6. QED
      BY <3>4, <3>5
  <2>10. ASSUME ~ \E code \in Codes : Abort(p, code), RereadTrial(p)
         PROVE  Listed(p)' /\ Kept(p)'
    <3>1. /\ pc[p] = "reread" /\ pc'[p] = "commit" /\ UNCHANGED <<begun, req, wr>>
          /\ Row(p) # NoRow /\ loc' = [loc EXCEPT ![p].trial = Row(p)]
      BY <2>10 DEF RereadTrial, Tables, Codes, TypeOK
    <3>2. loc'[p].trial = Row(p) /\ loc'[p].trials = loc[p].trials
      BY <1>2, <3>1 DEF Locals
    <3>3. req[p].op = "TrialStart" /\ req[p].module \in Modules
      BY <1>4, <3>1 DEF StatementsMatchRequest
    <3>4. wr[p] = Row(p) \/ Row(p) = ledger[req[p].module]
      BY DEF Row
    <3>5. QED
      BY <1>2, <1>3, <3>1, <3>2, <3>3, <3>4
  <2>11. ASSUME SignCert(p) PROVE Listed(p)' /\ Kept(p)'
    BY <1>2, <2>1, <2>11 DEF SignCert, Answer
  <2>12. ASSUME Commit(p) PROVE Listed(p)' /\ Kept(p)'
    <3>1. pc[p] = "commit"
      BY <2>12 DEF Commit
    <3>2. loc[p].trial # NoRow =>
            /\ req[p].op = "TrialStart" /\ pc'[p] \in {"list", "sign"} /\ req' = req
            /\ <<req[p].module, loc[p].trial>> \in begun'
      <4>1. ASSUME loc[p].trial # NoRow, wr[p] = loc[p].trial
            PROVE  <<req[p].module, loc[p].trial>> \in begun'
        <5>1. wr[p] # Clean
          BY <1>2, <4>1, MarksAssumption DEF Locals, Times
        <5>2. QED
          BY <2>12, <4>1, <5>1 DEF Commit
      <4>2. ASSUME loc[p].trial # NoRow PROVE req[p].op = "TrialStart"
        BY <1>2, <4>2
      <4>3. ASSUME req[p].op = "TrialStart" PROVE pc'[p] \in {"list", "sign"} /\ req' = req
        BY <2>12, <4>3 DEF Commit, TypeOK
      <4>4. QED
        BY <1>1, <1>2, <4>1, <4>2, <4>3
    <3>3. CASE UNCHANGED loc
      BY <1>1, <1>2, <3>2, <3>3
    <3>4. CASE loc' = [loc EXCEPT ![p].trials = [NoRows EXCEPT ![req[p].module] = loc[p].trial]]
      <4>1. /\ loc'[p].trial = loc[p].trial
            /\ loc'[p].trials = [NoRows EXCEPT ![req[p].module] = loc[p].trial]
        BY <1>2, <3>4 DEF Locals
      <4>2. Kept(p)'
        BY <3>2, <4>1
      <4>3. ASSUME NEW m \in Modules, loc'[p].trials[m] # NoRow
            PROVE  m = req[p].module /\ loc'[p].trials[m] = loc[p].trial
        BY <4>1, <4>3 DEF NoRows
      <4>4. QED
        BY <3>2, <4>2, <4>3
    <3>5. QED
      BY <2>12, <3>3, <3>4 DEF Commit
  <2>13. QED
    BY <2>2, <2>4, <2>5, <2>6, <2>7, <2>8, <2>9, <2>10, <2>11, <2>12 DEF Step, Fail, Codes
<1>7. ASSUME NEW q \in Procs \ {p} PROVE Listed(q)' /\ Kept(q)'
  <2>1. req'[q] = req[q] /\ loc'[q] = loc[q] /\ wr'[q] = wr[q] /\ pc'[q] \in {pc[q], "commit"}
    BY OthersStay
  <2>2. Listed(q) /\ Kept(q)
    BY DEF ReadsWereCommitted
  <2>3. pc'[q] # pc[q] => pc[q] = "delete"
    BY OthersStay
  <2>4. QED
    BY <1>1, <2>1, <2>2, <2>3
<1>8. QED
  BY <1>5, <1>6, <1>7 DEF ReadsWereCommitted

LEMMA CertShowsInv ==
  ASSUME IInv, NEW p \in Procs, Step(p) \/ Fail(p) \/ \E r \in Requests : Receive(p, r)
  PROVE  CertShowsCommittedTrials'
<1> USE DEF IInv
<1> DEFINE Shown(q, m) == \E s \in Times : <<m, s>> \in begun /\ reply[q].cert[m].expires = s + TrialDays
<1>1. begun \subseteq begun'
  BY SharedStay
<1>2. ASSUME NEW q \in Procs, reply'[q] = reply[q],
             NEW m \in Modules, reply'[q].cert[m].kind = "trial"
      PROVE  Shown(q, m)'
  BY <1>1, <1>2 DEF CertShowsCommittedTrials
<1>3. ASSUME reply'[p].cert = NoCert, NEW m \in Modules PROVE reply'[p].cert[m].kind # "trial"
  BY <1>3 DEF NoCert
<1>4. ASSUME SignCert(p), NEW m \in Modules, reply'[p].cert[m].kind = "trial"
      PROVE  Shown(p, m)'
  <2> DEFINE t == loc[p].trials[m]
  <2>1. reply'[p].cert = Certificate(loc[p].ents, loc[p].trials)
    BY <1>4 DEF SignCert, Answer, TypeOK
  <2>2. t # NoRow /\ reply'[p].cert[m].expires = t + TrialDays
    BY <1>4, <2>1 DEF Certificate
  <2>3. t \in Times /\ <<m, t>> \in begun'
    BY <1>1, <2>2 DEF ReadsWereCommitted, TypeOK, Locals
  <2>4. QED
    BY <2>2, <2>3
<1>5. ASSUME ~SignCert(p) PROVE reply'[p] = reply[p] \/ reply'[p].cert = NoCert
  <2>1. ASSUME NEW code \in Codes, Abort(p, code) PROVE reply'[p].cert = NoCert
    BY <2>1, AnswerLeaves DEF NoReply
  <2>2. ASSUME Commit(p) PROVE reply'[p] = reply[p] \/ reply'[p].cert = NoCert
    BY <2>2 DEF Commit, TypeOK, NoReply
  <2>3. ASSUME NEW r \in Requests, Receive(p, r) PROVE reply'[p].cert = NoCert
    BY <2>3 DEF Receive, TypeOK, NoReply
  <2>4. QED
    BY <1>5, <2>1, <2>2, <2>3
    DEF Step, Fail, GetKeyForUpdate, CheckEntitled, OccupySlot, ListEntitlements, ListTrials, GetTrial,
        InsertTrialOnConflictDoNothing, RereadTrial, FindTrial, ScanTrial, DeleteTrial, ListLedger, Codes
<1>6. QED
  <2>1. ASSUME NEW q \in Procs, NEW m \in Modules, reply'[q].cert[m].kind = "trial"
        PROVE  Shown(q, m)'
    <3>1. CASE q # p
      BY <1>2, <2>1, <3>1, OthersStay
    <3>2. CASE q = p
      BY <1>2, <1>3, <1>4, <1>5, <2>1, <3>2
    <3>3. QED
      BY <3>1, <3>2
  <2>2. QED
    BY <2>1 DEF CertShowsCommittedTrials

-----------------------------------------------------------------------------
(* The inductive invariant.                                                *)

LEMMA InitIInv == Init => IInv
<1> SUFFICES ASSUME Init PROVE IInv
  OBVIOUS
<1>1. NoCert \in [Modules -> Entry]
  BY DEF NoCert, Entry
<1>2. TypeOK
  BY <1>1, NoLocalsType, BoundsAssumption
  DEF Init, TypeOK, NoReply, Codes, Labels, Times, NoRows
<1>3. StatementsMatchRequest /\ KeyHolderRuns /\ RowsHeld
  BY ProcsAssumption DEF Init, StatementsMatchRequest, KeyHolderRuns, RowsHeld
<1>4. StartsArePast /\ ReadsWereCommitted
  BY DEF Init, StartsArePast, ReadsWereCommitted, NoLocals, NoRows
<1>5. CertShowsCommittedTrials
  BY DEF Init, CertShowsCommittedTrials, NoReply, NoCert
<1>6. QED
  BY <1>2, <1>3, <1>4, <1>5 DEF IInv

LEMMA ReceiveType ==
  ASSUME TypeOK, NEW p \in Procs, NEW r \in Requests, Receive(p, r)
  PROVE  TypeOK'
<1>1. r # None /\ FirstStatement(r) \in Labels \ {"idle"}
  BY RequestFields DEF FirstStatement, Labels
<1>2. NoReply \in [code : Codes, already : BOOLEAN, cert : [Modules -> Entry]]
  BY DEF NoReply, NoCert, Entry, Codes
<1>3. QED
  BY <1>1, <1>2 DEF Receive, Goto, Tables, TypeOK

\* The clock turns; entitlements change.
LEMMA WorldSteps ==
  ASSUME IInv, Tick \/ \E m \in Modules, row \in EntRows : ChangeEntitlement(m, row)
  PROVE  IInv'
<1> USE DEF IInv
<1>1. /\ UNCHANGED <<ledger, keyLock, pc, req, loc, wr, reply, begun>>
      /\ clock \in Times /\ clock' \in Times /\ clock <= clock'
  BY BoundsAssumption DEF Tick, ChangeEntitlement, TypeOK, Times
<1>2. ents' \in [Modules -> EntRows]
  BY DEF Tick, ChangeEntitlement, TypeOK
<1>3. TypeOK'
  BY <1>1, <1>2 DEF TypeOK
<1>4. StatementsMatchRequest' /\ KeyHolderRuns' /\ ReadsWereCommitted' /\ CertShowsCommittedTrials'
  BY <1>1 DEF StatementsMatchRequest, KeyHolderRuns, ReadsWereCommitted, CertShowsCommittedTrials
<1>5. StartsArePast'
  <2>1. \A p \in Procs : loc[p] \in Locals
    BY DEF TypeOK
  <2>2. \A p \in Procs : loc[p].started \in Times
    BY <2>1 DEF Locals
  <2>3. QED
    BY <1>1, <2>2, BoundsAssumption DEF StartsArePast, Times
<1>6. RowsHeld'
  <2>1. \A p \in Procs : wr[p] \notin {Clean, NoRow} => wr[p] \in Nat
    BY BoundsAssumption DEF TypeOK, Times
  <2>2. QED
    BY <1>1, <2>1, BoundsAssumption DEF RowsHeld, Times
<1>7. QED
  BY <1>3, <1>4, <1>5, <1>6

LEMMA NextIInv == IInv /\ [Next]_vars => IInv'
<1>1. ASSUME IInv, UNCHANGED vars PROVE IInv'
  <2>1. TypeOK' /\ StatementsMatchRequest' /\ KeyHolderRuns'
    BY <1>1 DEF IInv, TypeOK, StatementsMatchRequest, KeyHolderRuns, vars
  <2>2. RowsHeld' /\ StartsArePast'
    BY <1>1 DEF IInv, RowsHeld, StartsArePast, vars
  <2>3. ReadsWereCommitted'
    BY <1>1 DEF IInv, ReadsWereCommitted, vars
  <2>4. CertShowsCommittedTrials'
    BY <1>1 DEF IInv, CertShowsCommittedTrials, vars
  <2>5. QED
    BY <2>1, <2>2, <2>3, <2>4 DEF IInv
<1>2. ASSUME IInv, NEW p \in Procs, Step(p) \/ Fail(p) \/ \E r \in Requests : Receive(p, r)
      PROVE  IInv'
  <2>1. TypeOK'
    <3>1. CASE Step(p)
      BY <1>2, <3>1, StepType
    <3>2. CASE Fail(p)
      BY <1>2, <3>2, AbortType DEF Fail, IInv, Codes
    <3>3. CASE \E r \in Requests : Receive(p, r)
      BY <1>2, <3>3, ReceiveType DEF IInv
    <3>4. QED
      BY <1>2, <3>1, <3>2, <3>3
  <2>2. QED
    BY <1>2, <2>1, StatementsInv, RowsHeldInv, StartsArePastInv, ReadsInv, CertShowsInv DEF IInv
<1>3. QED
  BY <1>1, <1>2, WorldSteps DEF Next

\* The invariant of the ledger's transactions: the row of a trial has at most one
\* uncommitted writer, who has waited for the others (InsertTrialOnConflictDoNothing
\* and DeleteTrial in dal/trial.go), and a handler's reads were committed.
THEOREM LedgerInvariance == Spec => []IInv
  BY InitIInv, NextIInv, PTL DEF Spec

\* A certificate shows no trial that the ledger has not had, and with the start it
\* had there: the re-read in TrialStart answers the winner's row, never its own.
THEOREM CertificatesShowTheLedger == Spec => []CertShowsCommittedTrials
<1>1. IInv => CertShowsCommittedTrials
  BY DEF IInv
<1>2. QED
  BY <1>1, LedgerInvariance, PTL

\* TrialStart and ResetTrial never wait for each other in a ring: whoever holds a
\* trial row waits for nothing, and the key row comes first.
THEOREM TrialsNeverDeadlock == Spec => []NoRingOfWaits
<1>1. IInv => NoRingOfWaits
  <2> SUFFICES ASSUME IInv, NEW S \in SUBSET Procs, S # {}
               PROVE  \E p \in S : WaitsFor(p) \cap S = {}
    BY DEF NoRingOfWaits
  <2> USE DEF IInv
  <2>1. CASE \E w \in S : wr[w] # Clean
    <3>1. PICK w \in S : wr[w] # Clean
      BY <2>1
    <3>2. pc[w] \in {"reread", "commit"}
      BY <3>1 DEF RowsHeld
    <3>3. WaitsFor(w) = {}
      BY <3>2 DEF WaitsFor
    <3>4. QED
      BY <3>3
  <2>2. CASE \A w \in S : wr[w] = Clean
    <3>1. \A p \in S : Writers(p) \cap S = {}
      BY <2>2 DEF Writers
    <3>2. CASE keyLock \in S
      <4>1. pc[keyLock] # "lock"
        BY <3>2 DEF KeyHolderRuns
      <4>2. WaitsFor(keyLock) \cap S = {}
        BY <3>1, <3>2, <4>1 DEF WaitsFor
      <4>3. QED
        BY <3>2, <4>2
    <3>3. CASE keyLock \notin S
      <4>1. \A p \in S : WaitsFor(p) \cap S = {}
        BY <3>1, <3>3 DEF WaitsFor
      <4>2. QED
        BY <4>1
    <3>4. QED
      BY <3>2, <3>3
  <2>3. QED
    BY <2>1, <2>2
<1>2. QED
  BY <1>1, LedgerInvariance, PTL

-----------------------------------------------------------------------------
(* Refinement.                                                             *)

LEMMA StepImplementsBook ==
  ASSUME IInv, Next
  PROVE  [Book!Next]_(Book!vars)
<1> USE DEF IInv
<1>1. ASSUME Tick PROVE Book!Tick
  BY <1>1 DEF Tick, Book!Tick
<1>2. ASSUME NEW m \in Modules, NEW row \in EntRows, ChangeEntitlement(m, row)
      PROVE  UNCHANGED Book!vars
  BY <1>2 DEF ChangeEntitlement, Book!vars
<1>3. ASSUME NEW p \in Procs, Step(p) \/ Fail(p) \/ \E r \in Requests : Receive(p, r)
      PROVE  [Book!Next]_(Book!vars)
  <2>1. clock' = clock
    BY <1>3, SharedStay
  <2>2. CASE UNCHANGED ledger
    BY <2>1, <2>2 DEF Book!vars
  <2>3. CASE Commit(p) /\ wr[p] # Clean
    <3> DEFINE m == req[p].module
    <3>1. m \in Modules /\ ledger' = [ledger EXCEPT ![m] = wr[p]]
      BY <2>3, RequestFields DEF Commit, At, RowsHeld, TypeOK
    <3>2. CASE wr[p] = NoRow
      BY <2>1, <3>1, <3>2 DEF Book!Next, Book!Reset
    <3>3. CASE wr[p] # NoRow
      <4>1. wr[p] \in 0 .. MaxClock /\ ledger[m] = NoRow /\ wr[p] <= clock
        BY <2>3, <3>3 DEF RowsHeld, TypeOK, Times
      <4>2. Book!Start(m, wr[p])
        BY <2>1, <3>1, <4>1 DEF Book!Start
      <4>3. QED
        BY <3>1, <4>1, <4>2 DEF Book!Next
    <3>4. QED
      BY <3>2, <3>3
  <2>4. QED
    BY <1>3, <2>2, <2>3, SharedStay
<1>4. QED
  BY <1>1, <1>2, <1>3 DEF Next, Book!Next

\* Under every interleaving of starts, resumptions, resets and failures, statement by
\* statement, a trial has one start, which stays until a reset (TrialStart and
\* ResetTrial against the trial book).
THEOREM TrialsImplementBook == Spec => ImplementsBook
<1>1. Init => Book!Init
  BY DEF Init, Book!Init, NoRows
<1>2. IInv /\ [Next]_vars => [Book!Next]_(Book!vars)
  <2>1. ASSUME UNCHANGED vars PROVE UNCHANGED Book!vars
    BY <2>1 DEF vars, Book!vars
  <2>2. QED
    BY <2>1, StepImplementsBook
<1>3. QED
  BY <1>1, <1>2, LedgerInvariance, PTL DEF Spec, ImplementsBook, Book!Spec

=============================================================================
