--------------------------- MODULE ClientsProofs ---------------------------
(* Proofs about Limiter and Clients, for every set of devices, quota,      *)
(* window and bound of the trouble.                                        *)
EXTENDS Clients, FiniteSetTheorems, TLAPS

-----------------------------------------------------------------------------
(* The limiter.                                                            *)

Limited == LimiterTypeOK /\ CountersAgree

LEMMA LimiterInitial == LimiterInit => Limited
  BY LimiterAssumption DEF LimiterInit, Limited, LimiterTypeOK, CountersAgree

\* What counting a request of t leaves.
LEMMA Counting ==
  ASSUME Limited, NEW t \in Targets, Count(t)
  PROVE  /\ count' \in [Targets -> 0 .. Max] /\ left' \in [Targets -> 0 .. Window]
         /\ left'[t] > 0 /\ count'[t] > 0 /\ count'[t] >= count[t]
         /\ count[t] < Max => count'[t] = count[t] + 1
         /\ left'[t] = IF left[t] = 0 THEN Window ELSE left[t]
         /\ \A u \in Targets \ {t} : count'[u] = count[u] /\ left'[u] = left[u]
  BY LimiterAssumption DEF Limited, LimiterTypeOK, CountersAgree, Count

LEMMA AllowedKeeps ==
  ASSUME Limited, NEW t \in Targets, Allowed(t)
  PROVE  Limited'
<1>1. passed[t] <= count[t] /\ count[t] < Max /\ passed' = [passed EXCEPT ![t] = @ + 1] /\ Count(t)
  BY DEF Limited, CountersAgree, Allowed
<1>2. passed' \in [Targets -> 0 .. Max]
  BY <1>1, LimiterAssumption DEF Limited, LimiterTypeOK
<1>3. passed'[t] = passed[t] + 1 /\ \A u \in Targets \ {t} : passed'[u] = passed[u]
  BY <1>1 DEF Limited, LimiterTypeOK
<1>4. QED
  BY <1>1, <1>2, <1>3, Counting, LimiterAssumption
  DEF Limited, LimiterTypeOK, CountersAgree

LEMMA OtherCountingKeeps ==
  ASSUME Limited, NEW t \in Targets, Refused(t) \/ Unavailable(t)
  PROVE  Limited'
<1>1. CASE Count(t) /\ UNCHANGED passed
  BY <1>1, Counting, LimiterAssumption DEF Limited, LimiterTypeOK, CountersAgree
<1>2. CASE UNCHANGED counters
  BY <1>2 DEF counters, Limited, LimiterTypeOK, CountersAgree
<1>3. QED
  BY <1>1, <1>2 DEF Refused, Unavailable, counters

LEMMA TickKeeps ==
  ASSUME Limited, Tick
  PROVE  Limited'
  BY LimiterAssumption DEF Limited, LimiterTypeOK, CountersAgree, Tick, Expires

-----------------------------------------------------------------------------
(* The limiter implements the quota.                                       *)

LEMMA QuotaInitial == LimiterInit => Quota!Init
  BY LimiterAssumption DEF LimiterInit, Quota!Init

\* Counting opens the window of the quota.
LEMMA CountingOpens ==
  ASSUME Limited, NEW t \in Targets, Count(t)
  PROVE  Quota!Open(t)
<1> DEFINE age == [u \in Targets |-> Window - left[u]]
<1>1. \A u \in Targets : Window - left'[u] =
        [age EXCEPT ![t] = IF @ = Window THEN 0 ELSE @][u]
  BY Counting, LimiterAssumption DEF Limited, LimiterTypeOK
<1>2. QED
  BY <1>1 DEF Quota!Open

LEMMA AllowedAdmits ==
  ASSUME Limited, NEW t \in Targets, Allowed(t)
  PROVE  Quota!Admit(t)
<1>1. Count(t) /\ count[t] < Max /\ passed' = [passed EXCEPT ![t] = @ + 1]
  BY DEF Allowed
<1>2. Quota!Open(t)
  BY <1>1, CountingOpens
<1>3. passed[t] < Max
  BY <1>1, LimiterAssumption DEF Limited, LimiterTypeOK, CountersAgree
<1>4. QED
  BY <1>1, <1>2, <1>3 DEF Quota!Admit

LEMMA RefusedPasses ==
  ASSUME Limited, NEW t \in Targets, Refused(t) \/ Unavailable(t)
  PROVE  Quota!Pass(t) \/ UNCHANGED counters
  BY CountingOpens DEF Refused, Unavailable, Quota!Pass, counters

LEMMA TickTicks ==
  ASSUME Limited, Tick
  PROVE  Quota!Tick
<1>1. \A t \in Targets : /\ left[t] \in 0 .. Window
                         /\ Expires(t) <=> Quota!Ending(t)
                         /\ Window - (left[t] - 1) = (Window - left[t]) + 1
  BY LimiterAssumption DEF Limited, LimiterTypeOK, Expires, Quota!Ending
<1>2. [t \in Targets |-> Window - left'[t]] =
        [t \in Targets |-> IF Quota!Ending(t) THEN Window
                           ELSE [u \in Targets |-> Window - left[u]][t] + 1]
  BY <1>1, LimiterAssumption DEF Tick
<1>3. QED
  BY <1>1, <1>2 DEF Tick, Quota!Tick

-----------------------------------------------------------------------------
(* What the device makes of an answer.                                     *)

Codes == {"ok", "app_unauthorized", "key_not_found", "key_revoked", "slot_limit",
          "rate_limited", "internal", "bare"}

LEMMA WhatIsRead ==
  ASSUME NEW op \in {"Activate", "Deactivate"}, NEW code \in Codes
  PROVE  LET read == Reading(op, HTTP[GRPC(code)]) IN
         /\ read \in Readings
         /\ read = "in" <=> code = "ok" /\ op = "Activate"
         /\ read = "out" <=> code = "ok" /\ op = "Deactivate"
         /\ read = "picker" <=> code = "slot_limit"
         /\ read = "invalid" <=> code \in {"app_unauthorized", "key_not_found", "key_revoked"}
<1>1. CASE code = "ok"
  <2>1. HTTP[GRPC(code)] = 200
    BY <1>1 DEF GRPC, HTTP
  <2>2. QED
    BY <1>1, <2>1 DEF Reading, Readings
<1>2. CASE code \in {"app_unauthorized", "key_not_found"}
  <2>1. HTTP[GRPC(code)] = 401
    BY <1>2 DEF GRPC, HTTP, Category, Status
  <2>2. QED
    BY <1>2, <2>1 DEF Reading, Readings
<1>3. CASE code = "key_revoked"
  <2>1. HTTP[GRPC(code)] = 403
    BY <1>3 DEF GRPC, HTTP, Category, Status
  <2>2. QED
    BY <1>3, <2>1 DEF Reading, Readings
<1>4. CASE code = "slot_limit"
  <2>1. HTTP[GRPC(code)] = 409
    BY <1>4 DEF GRPC, HTTP, Category, Status
  <2>2. QED
    BY <1>4, <2>1 DEF Reading, Readings
<1>5. CASE code = "rate_limited"
  <2>1. HTTP[GRPC(code)] = 429
    BY <1>5 DEF GRPC, HTTP, Category, Status
  <2>2. QED
    BY <1>5, <2>1 DEF Reading, Readings
<1>6. CASE code \in {"internal", "bare"}
  <2>1. HTTP[GRPC(code)] = 500
    BY <1>6 DEF GRPC, HTTP, Category, Status
  <2>2. QED
    BY <1>6, <2>1 DEF Reading, Readings
<1>7. QED
  BY <1>1, <1>2, <1>3, <1>4, <1>5, <1>6 DEF Codes

\* A call in progress is a request.
LEMMA InProgress ==
  ASSUME TypeOK, CallsMatch, NEW h \in Handlers, call[h].at \in {"entry", "tx"}
  PROVE  /\ call[h] \in Request
         /\ h \in Devices => call[h].by = h /\ call[h].evict # h
         /\ ~Idle(h)
  BY DEF TypeOK, CallsMatch, Request, Told, Handlers, Idle

LEMMA NothingTold == Nothing \in Told /\ Nothing.at = "idle"
  BY DEF Nothing, Told, Readings

\* What the end of a call leaves.
LEMMA EndsTells ==
  ASSUME TypeOK, CallsMatch, NEW h \in Handlers, call[h].at \in {"entry", "tx"},
         NEW code \in Codes, Ends(h, code)
  PROVE  /\ call' \in [Handlers -> Request \cup Told]
         /\ \A g \in Handlers \ {h} : call'[g] = call[g]
         /\ h = Stray => call'[h] = Nothing
         /\ h # Stray => call'[h] = [at |-> "answer",
                                     reading |-> Reading(call[h].op, HTTP[GRPC(code)])]
         /\ CallsMatch'
<1>1. call \in [Handlers -> Request \cup Told]
  BY DEF TypeOK
<1>2. call[h].op \in {"Activate", "Deactivate"}
  BY InProgress DEF Request
<1>3. Reading(call[h].op, HTTP[GRPC(code)]) \in Readings
  BY <1>2, WhatIsRead
<1> DEFINE told == [at |-> "answer", reading |-> Reading(call[h].op, HTTP[GRPC(code)])]
<1>4. told \in Told /\ told.at = "answer"
  BY <1>3 DEF Told
<1> HIDE DEF told
<1>5. call' = [call EXCEPT ![h] = IF h = Stray THEN Nothing ELSE told]
  BY DEF Ends, told
<1>6. /\ call' \in [Handlers -> Request \cup Told]
      /\ \A g \in Handlers \ {h} : call'[g] = call[g]
      /\ call'[h] = IF h = Stray THEN Nothing ELSE told
  BY <1>1, <1>4, <1>5, NothingTold
<1>7. CallsMatch'
  BY <1>4, <1>6, NothingTold, ClientsAssumption DEF CallsMatch, Handlers
<1>8. QED
  BY <1>6, <1>7 DEF told

-----------------------------------------------------------------------------
(* What the devices know.                                                  *)

\* A device keeps what it knows while its call, its slot and, if it has a
\* picker, the roster and the bound stay.
LEMMA KnowsKept ==
  ASSUME TypeOK, NEW d \in Devices, Knows(d), call'[d] = call[d],
         d \in roster <=> d \in roster',
         Picking(d) => roster' = roster /\ maxSlots' = maxSlots
  PROVE  Knows(d)'
<1>1. Picking(d)' <=> Picking(d)
  BY DEF Picking
<1>2. CASE call[d].at \in {"answer", "idle"}
  BY <1>1, <1>2 DEF Knows
<1>3. CASE call[d].at \in {"entry", "tx"}
  <2>1. call[d].evict \in roster /\ d \notin roster
    BY <1>3 DEF Knows
  <2>2. Picking(d)
    BY <1>3, <2>1, ClientsAssumption DEF TypeOK, Picking
  <2>3. QED
    BY <1>1, <1>3, <2>1, <2>2 DEF Knows
<1>4. call[d].at \in {"answer", "idle", "entry", "tx"}
  BY DEF TypeOK, Request, Told, Handlers
<1>5. QED
  BY <1>2, <1>3, <1>4

\* A device that is told of a fault or a refusal has nothing to know.
LEMMA KnowsNothing ==
  ASSUME NEW d \in Devices, NEW at \in {"answer", "idle"}, NEW reading \in {"network", "invalid"},
         call'[d] = [at |-> at, reading |-> reading]
  PROVE  Knows(d)'
  BY DEF Knows, Picking

\* After a transaction that has moved the roster, every device but those that
\* are told of it knows what it knew, or that it does not.
LEMMA MovesKeeps ==
  ASSUME TypeOK, SureIsTrue, NEW heard \in SUBSET Devices, Moves(heard),
         maxSlots' = maxSlots, \A d \in Devices \ heard : call'[d] = call[d]
  PROVE  /\ \A d \in sure' \ heard : Knows(d)'
         /\ sure' \in SUBSET Devices
<1>1. sure' \in SUBSET Devices
  BY DEF Moves, TypeOK
<1>2. ASSUME NEW d \in sure' \ heard
      PROVE  Knows(d)'
  <2>1. /\ d \in sure /\ d \in Devices
        /\ d \in roster <=> d \in roster'
        /\ Picking(d) => roster = roster'
    BY <1>2, <1>1 DEF Moves
  <2>2. QED
    BY <2>1, KnowsKept DEF SureIsTrue
<1>3. QED
  BY <1>1, <1>2

\* What a step leaves of the parts of the invariant beyond the limiter.
Kept == TypeOK' /\ CallsMatch' /\ SureIsTrue'

LEMMA SendKeeps ==
  ASSUME IInv, NEW d \in Devices, NEW op \in {"Activate", "Deactivate"},
         NEW evict \in Devices \cup {None}, Send(d, op, evict)
  PROVE  Kept
<1> DEFINE new == [by |-> d, op |-> op, evict |-> evict, at |-> "entry"]
<1>1. /\ call' = [call EXCEPT ![d] = new] /\ new \in Request
      /\ sure' \in SUBSET sure
      /\ UNCHANGED <<status, maxSlots, roster, door, trouble, count, left, passed>>
  BY DEF Send, Key, counters, Request
<1>2. /\ call'[d] = new /\ \A g \in Handlers \ {d} : call'[g] = call[g]
      /\ call' \in [Handlers -> Request \cup Told]
  BY <1>1 DEF IInv, TypeOK, Handlers
<1>3. TypeOK'
  BY <1>1, <1>2 DEF IInv, TypeOK, LimiterTypeOK
<1>4. evict # None => /\ evict # d
                      /\ call[d] = [at |-> "idle", reading |-> "picker"]
                      /\ d \in sure => evict \in roster
  BY DEF Send, Read
<1>5. CallsMatch'
  <2>1. evict # d
    BY <1>4, ClientsAssumption
  <2>2. d # Stray
    BY ClientsAssumption
  <2>3. QED
    BY <1>2, <2>1, <2>2 DEF IInv, CallsMatch, Handlers
<1>6. ASSUME NEW e \in sure'
      PROVE  Knows(e)'
  <2>1. e \in sure /\ e \in Devices /\ Knows(e)
    BY <1>1, <1>6 DEF IInv, TypeOK, SureIsTrue
  <2>2. CASE e # d
    BY <1>1, <1>2, <2>1, <2>2, KnowsKept DEF IInv, Handlers
  <2>3. CASE e = d
    <3>1. evict # None
      BY <1>6, <2>3 DEF Send
    <3>2. evict \in roster /\ d \notin roster /\ Cardinality(roster) <= maxSlots
      BY <1>4, <2>1, <2>3, <3>1 DEF Knows, Picking
    <3>3. QED
      BY <1>1, <1>2, <2>3, <3>2 DEF Knows, Picking
  <2>4. QED
    BY <2>2, <2>3
<1>7. QED
  BY <1>3, <1>5, <1>6 DEF SureIsTrue, Kept

LEMMA GiveUpKeeps ==
  ASSUME IInv, NEW d \in Devices, GiveUp(d)
  PROVE  Kept
<1> DEFINE stray == IF call[d].at = "answer" THEN Nothing ELSE call[d]
<1>1. /\ call' = [call EXCEPT ![d] = Nothing, ![Stray] = stray]
      /\ sure' = sure \ {d} /\ trouble < MaxTrouble /\ trouble' = trouble + 1
      /\ UNCHANGED <<status, maxSlots, roster, door, count, left, passed>>
      /\ ~Idle(d)
  BY DEF GiveUp, Trouble, Key, counters
<1>2. stray \in Request \cup Told /\ stray.at # "answer" /\ d # Stray
  BY <1>1, NothingTold, ClientsAssumption DEF IInv, TypeOK, Handlers
<1> HIDE DEF stray
<1>3. /\ call' \in [Handlers -> Request \cup Told]
      /\ call'[d] = Nothing /\ call'[Stray] = stray
      /\ \A g \in Devices \ {d} : call'[g] = call[g]
  BY <1>1, <1>2, NothingTold, ClientsAssumption DEF IInv, TypeOK, Handlers
<1>4. TypeOK'
  BY <1>1, <1>3, ClientsAssumption DEF IInv, TypeOK, LimiterTypeOK
<1>5. CallsMatch'
  BY <1>2, <1>3, NothingTold DEF IInv, CallsMatch
<1>6. ASSUME NEW e \in sure'
      PROVE  Knows(e)'
  <2>1. e \in Devices \ {d} /\ Knows(e)
    BY <1>1, <1>6 DEF IInv, TypeOK, SureIsTrue
  <2>2. QED
    BY <1>1, <1>3, <2>1, KnowsKept DEF IInv
<1>7. QED
  BY <1>4, <1>5, <1>6 DEF SureIsTrue, Kept

LEMMA AnswerKeeps ==
  ASSUME IInv, NEW d \in Devices, Answer(d)
  PROVE  Kept
<1>1. /\ call[d] \in Told /\ call[d].at = "answer"
      /\ call' = [call EXCEPT ![d].at = "idle"]
      /\ sure' \in SUBSET sure
      /\ d \in sure' => call[d].reading \notin {"network", "invalid"}
      /\ UNCHANGED <<status, maxSlots, roster, door, trouble, count, left, passed>>
  BY DEF Answer, Key, counters, IInv, TypeOK, Handlers, Request, Told
<1>2. /\ call'[d] = [at |-> "idle", reading |-> call[d].reading]
      /\ call'[d] \in Told
      /\ \A g \in Handlers \ {d} : call'[g] = call[g]
      /\ call' \in [Handlers -> Request \cup Told]
  BY <1>1 DEF IInv, TypeOK, Handlers, Told
<1>3. TypeOK'
  BY <1>1, <1>2 DEF IInv, TypeOK, LimiterTypeOK
<1>4. CallsMatch'
  BY <1>2, ClientsAssumption DEF IInv, CallsMatch, Handlers
<1>5. ASSUME NEW e \in sure'
      PROVE  Knows(e)'
  <2>1. e \in sure /\ e \in Devices /\ Knows(e)
    BY <1>1, <1>5 DEF IInv, TypeOK, SureIsTrue
  <2>2. CASE e # d
    BY <1>1, <1>2, <2>1, <2>2, KnowsKept DEF IInv, Handlers
  <2>3. CASE e = d
    BY <1>1, <1>2, <2>1, <2>3 DEF Knows, Picking
  <2>4. QED
    BY <2>2, <2>3
<1>6. QED
  BY <1>3, <1>4, <1>5 DEF SureIsTrue, Kept

\* The counters stay in their types.
LEMMA CountersKept ==
  ASSUME Limited, NEW t \in Targets, Allowed(t) \/ Refused(t) \/ Unavailable(t)
  PROVE  Limited'
  BY AllowedKeeps, OtherCountingKeeps

\* A call that ends without having moved the roster.
LEMMA RefusalKeeps ==
  ASSUME IInv, LimiterTypeOK', NEW h \in Handlers, call[h].at \in {"entry", "tx"},
         NEW code \in Codes \ {"ok", "slot_limit"}, Ends(h, code),
         sure' \in SUBSET sure, trouble' \in 0 .. MaxTrouble,
         UNCHANGED <<status, maxSlots, roster, door>>
  PROVE  Kept
<1>1. /\ call' \in [Handlers -> Request \cup Told] /\ CallsMatch'
      /\ \A g \in Handlers \ {h} : call'[g] = call[g]
  BY EndsTells DEF IInv
<1>2. TypeOK'
  BY <1>1 DEF IInv, TypeOK
<1>3. ASSUME NEW e \in sure'
      PROVE  Knows(e)'
  <2>1. e \in Devices /\ Knows(e)
    BY <1>3 DEF IInv, TypeOK, SureIsTrue
  <2>2. CASE e # h
    BY <1>1, <2>1, <2>2, KnowsKept DEF IInv, Handlers
  <2>3. CASE e = h
    <3>1. call[h].op \in {"Activate", "Deactivate"}
      BY InProgress DEF IInv, Request
    <3>2. h # Stray
      BY <2>1, <2>3, ClientsAssumption
    <3> DEFINE reading == Reading(call[h].op, HTTP[GRPC(code)])
    <3>3. reading \in {"network", "invalid"}
      BY <3>1, WhatIsRead DEF Readings
    <3>4. call'[e] = [at |-> "answer", reading |-> reading]
      BY <2>3, <3>2, EndsTells DEF IInv
    <3> HIDE DEF reading
    <3>5. QED
      BY <2>1, <3>3, <3>4, KnowsNothing
  <2>4. QED
    BY <2>2, <2>3
<1>4. QED
  BY <1>1, <1>2, <1>3 DEF SureIsTrue, Kept

\* A call that goes on into its transaction.
LEMMA GoesKeeps ==
  ASSUME IInv, LimiterTypeOK', NEW h \in Handlers, call[h].at = "entry", Goes(h),
         sure' = sure, trouble' \in 0 .. MaxTrouble,
         UNCHANGED <<status, maxSlots, roster, door>>
  PROVE  Kept
<1>1. call[h] \in Request /\ call' = [call EXCEPT ![h] = [call[h] EXCEPT !.at = "tx"]]
  BY InProgress DEF IInv, Goes
<1>2. /\ call'[h] \in Request /\ call'[h].at = "tx"
      /\ call'[h].by = call[h].by /\ call'[h].evict = call[h].evict
      /\ \A g \in Handlers \ {h} : call'[g] = call[g]
      /\ call' \in [Handlers -> Request \cup Told]
  BY <1>1 DEF IInv, TypeOK, Request
<1>3. TypeOK'
  BY <1>2 DEF IInv, TypeOK
<1>4. CallsMatch'
  BY <1>2 DEF IInv, CallsMatch, Handlers
<1>5. ASSUME NEW e \in sure'
      PROVE  Knows(e)'
  <2>1. e \in Devices /\ Knows(e)
    BY <1>5 DEF IInv, TypeOK, SureIsTrue
  <2>2. CASE e # h
    BY <1>2, <2>1, <2>2, KnowsKept DEF IInv, Handlers
  <2>3. CASE e = h
    BY <1>2, <2>1, <2>3 DEF Knows, Picking
  <2>4. QED
    BY <2>2, <2>3
<1>6. QED
  BY <1>3, <1>4, <1>5 DEF SureIsTrue, Kept

LEMMA EnterKeeps ==
  ASSUME IInv, NEW h \in Handlers, Enter(h)
  PROVE  Kept
<1>1. call[h].at = "entry" /\ call[h].by \in Targets
      /\ UNCHANGED <<status, maxSlots, roster, door, sure>>
  BY InProgress DEF Enter, Key, IInv, Request, Devices
<1>2. Limited /\ trouble \in 0 .. MaxTrouble
  BY DEF IInv, TypeOK, Limited
<1>3. CASE Ends(h, "app_unauthorized") /\ UNCHANGED <<counters, trouble>>
  <2>1. LimiterTypeOK'
    BY <1>2, <1>3 DEF Limited, LimiterTypeOK, counters
  <2>2. QED
    BY <1>1, <1>2, <1>3, <2>1, RefusalKeeps DEF Codes
<1>4. CASE Allowed(call[h].by) /\ Goes(h) /\ UNCHANGED trouble
  BY <1>1, <1>2, <1>4, CountersKept, GoesKeeps DEF Limited
<1>5. CASE Refused(call[h].by) /\ Ends(h, "rate_limited") /\ UNCHANGED trouble
  <2>1. LimiterTypeOK'
    BY <1>1, <1>2, <1>5, CountersKept DEF Limited
  <2>2. QED
    BY <1>1, <1>2, <1>5, <2>1, RefusalKeeps DEF Codes
<1>6. CASE Unavailable(call[h].by) /\ Goes(h) /\ Trouble
  <2>1. trouble' \in 0 .. MaxTrouble
    BY <1>2, <1>6, ClientsAssumption DEF Trouble
  <2>2. QED
    BY <1>1, <1>2, <1>6, <2>1, CountersKept, GoesKeeps DEF Limited
<1>7. QED
  BY <1>3, <1>4, <1>5, <1>6 DEF Enter

LEMMA FailKeeps ==
  ASSUME IInv, NEW h \in Handlers, Fail(h)
  PROVE  Kept
<1>1. /\ sure' = sure \ {h} /\ trouble' \in 0 .. MaxTrouble
      /\ UNCHANGED <<status, maxSlots, roster, door, count, left, passed>>
  BY ClientsAssumption DEF Fail, Trouble, Key, counters, IInv, TypeOK
<1>2. LimiterTypeOK'
  BY <1>1 DEF IInv, TypeOK, LimiterTypeOK
<1>3. CASE call[h].at \in {"entry", "tx"} /\ \E code \in {"internal", "bare"} : Ends(h, code)
  BY <1>1, <1>2, <1>3, RefusalKeeps DEF Codes
<1>4. CASE /\ call[h].at = "answer" /\ call[h].reading \in {"in", "out"}
           /\ call' = [call EXCEPT ![h].reading = "network"]
  <2>1. call[h] \in Told /\ h # Stray
    BY <1>4 DEF IInv, TypeOK, CallsMatch, Request, Told
  <2>2. /\ call'[h] \in Told /\ call'[h].at = "answer"
        /\ \A g \in Handlers \ {h} : call'[g] = call[g]
        /\ call' \in [Handlers -> Request \cup Told]
    BY <1>4, <2>1 DEF IInv, TypeOK, Told, Readings
  <2>3. TypeOK'
    BY <1>1, <1>2, <2>2 DEF IInv, TypeOK
  <2>4. CallsMatch'
    BY <2>1, <2>2 DEF IInv, CallsMatch, Handlers
  <2>5. ASSUME NEW e \in sure'
        PROVE  Knows(e)'
    <3>1. e \in Devices \ {h} /\ Knows(e)
      BY <1>1, <2>5 DEF IInv, TypeOK, SureIsTrue
    <3>2. QED
      BY <1>1, <2>2, <3>1, KnowsKept DEF IInv, Handlers
  <2>6. QED
    BY <2>3, <2>4, <2>5 DEF SureIsTrue, Kept
<1>5. QED
  BY <1>3, <1>4 DEF Fail

\* A transaction that has committed, its new roster holding or lacking the
\* device of the call as the answer says.
LEMMA CommitKeeps ==
  ASSUME IInv, NEW h \in Handlers, call[h].at = "tx", Ends(h, "ok"), Moves(Heard(h)),
         roster' \in SUBSET Devices,
         call[h].by \in roster' <=> call[h].op = "Activate",
         UNCHANGED <<counters, status, maxSlots, door, trouble>>
  PROVE  Kept
<1>1. /\ call' \in [Handlers -> Request \cup Told] /\ CallsMatch'
      /\ \A g \in Handlers \ {h} : call'[g] = call[g]
  BY EndsTells DEF IInv, Codes
<1>2. Heard(h) \in SUBSET Devices /\ \A d \in Devices \ Heard(h) : d # h
  BY ClientsAssumption DEF Heard, Handlers
<1>3. \A d \in Devices \ Heard(h) : call'[d] = call[d]
  BY <1>1, <1>2 DEF Handlers
<1>4. /\ \A d \in sure' \ Heard(h) : Knows(d)'
      /\ sure' \in SUBSET Devices
  BY <1>2, <1>3, MovesKeeps DEF IInv
<1>5. TypeOK'
  BY <1>1, <1>4 DEF IInv, TypeOK, LimiterTypeOK, counters
<1>6. ASSUME NEW e \in Heard(h)
      PROVE  Knows(e)'
  <2>1. e = h /\ h \in Devices /\ h # Stray
    BY <1>6, ClientsAssumption DEF Heard, Handlers
  <2>2. call[h].by = h /\ call[h].op \in {"Activate", "Deactivate"}
    BY <2>1, InProgress DEF IInv, Request
  <2> DEFINE reading == Reading(call[h].op, HTTP[GRPC("ok")])
  <2>3. /\ reading = "in" => call[h].op = "Activate"
        /\ reading = "out" => call[h].op = "Deactivate"
        /\ reading # "picker"
    BY <2>2, WhatIsRead DEF Codes
  <2>4. call'[h] = [at |-> "answer", reading |-> reading]
    BY <2>1, EndsTells DEF IInv, Codes
  <2> HIDE DEF reading
  <2>5. QED
    BY <2>1, <2>2, <2>3, <2>4 DEF Knows, Picking
<1>7. QED
  BY <1>1, <1>4, <1>5, <1>6 DEF SureIsTrue, Kept

LEMMA ActivateKeeps ==
  ASSUME IInv, NEW h \in Handlers, Activate(h)
  PROVE  Kept
<1>1. /\ call[h].at = "tx" /\ call[h].op = "Activate"
      /\ call[h].by \in Devices /\ roster \in SUBSET Devices
      /\ UNCHANGED <<counters, status, maxSlots, door, trouble>>
      /\ LimiterTypeOK' /\ trouble' \in 0 .. MaxTrouble
  <2>1. call[h].at = "tx" /\ UNCHANGED <<counters, status, maxSlots, door, trouble>>
    BY DEF Activate
  <2>2. call[h].by \in Devices
    BY <2>1, InProgress DEF IInv, Request
  <2>3. QED
    BY <2>1, <2>2 DEF Activate, IInv, TypeOK, LimiterTypeOK, counters
<1>2. CASE (Ends(h, "key_not_found") \/ Ends(h, "key_revoked")) /\ UNCHANGED <<roster, sure>>
  BY <1>1, <1>2, RefusalKeeps DEF Codes
<1>3. CASE Occupy(call[h]) /\ Ends(h, "ok") /\ Moves(Heard(h))
  <2>1. roster' \in SUBSET Devices /\ call[h].by \in roster'
    BY <1>1, <1>3 DEF Occupy, Rest
  <2>2. QED
    BY <1>1, <1>3, <2>1, CommitKeeps
<1>4. CASE /\ Full(call[h]) /\ Ends(h, "slot_limit") /\ UNCHANGED roster
           /\ sure' = IF Cardinality(roster) <= maxSlots THEN sure \cup Heard(h)
                                                          ELSE sure \ Heard(h)
  <2>1. /\ call' \in [Handlers -> Request \cup Told] /\ CallsMatch'
        /\ \A g \in Handlers \ {h} : call'[g] = call[g]
    BY <1>1, <1>4, EndsTells DEF IInv, Codes
  <2>2. Heard(h) \in SUBSET Devices
    BY ClientsAssumption DEF Heard, Handlers
  <2>3. TypeOK'
    BY <1>1, <1>4, <2>1, <2>2 DEF IInv, TypeOK
  <2>4. ASSUME NEW e \in sure', e # h
        PROVE  Knows(e)'
    <3>1. e \in sure /\ e \in Devices
      BY <1>4, <2>4 DEF Heard, IInv, TypeOK
    <3>2. QED
      BY <1>1, <1>4, <2>1, <2>4, <3>1, KnowsKept DEF IInv, SureIsTrue, Handlers
  <2>5. ASSUME h \in sure'
        PROVE  Knows(h)'
    <3>1. h \in Devices /\ h # Stray
      BY <1>4, <2>2, <2>5, ClientsAssumption DEF IInv, TypeOK
    <3>2. Cardinality(roster) <= maxSlots
      BY <1>4, <2>5, <3>1 DEF Heard
    <3>3. h \notin roster
      BY <1>1, <1>4, <3>1, InProgress DEF IInv, Full, Rest
    <3>4. Reading(call[h].op, HTTP[GRPC("slot_limit")]) = "picker"
      BY <1>1, WhatIsRead DEF Codes
    <3>5. call'[h] = [at |-> "answer", reading |-> "picker"]
      BY <1>1, <1>4, <3>1, <3>4, EndsTells DEF IInv, Codes
    <3>6. QED
      BY <1>1, <1>4, <3>2, <3>3, <3>5 DEF Knows, Picking
  <2>6. QED
    BY <2>1, <2>3, <2>4, <2>5 DEF SureIsTrue, Kept
<1>5. QED
  BY <1>2, <1>3, <1>4 DEF Activate

LEMMA DeactivateKeeps ==
  ASSUME IInv, NEW h \in Handlers, Deactivate(h)
  PROVE  Kept
<1>1. /\ call[h].at = "tx" /\ call[h].op = "Deactivate"
      /\ roster' = roster \ {call[h].by} /\ Ends(h, "ok") /\ Moves(Heard(h))
      /\ UNCHANGED <<counters, status, maxSlots, door, trouble>>
  BY DEF Deactivate
<1>2. roster' \in SUBSET Devices /\ call[h].by \notin roster'
  BY <1>1 DEF IInv, TypeOK
<1>3. QED
  BY <1>1, <1>2, CommitKeeps

\* The operators and the clock touch no call.
LEMMA OperatorKeeps ==
  ASSUME IInv, \/ SetDoor \/ \E s \in {"active", "revoked", "deleted"} : SetStatus(s)
               \/ \E d \in Devices : KickDevice(d)
  PROVE  Kept
<1>1. /\ call' = call /\ maxSlots' = maxSlots /\ UNCHANGED counters
      /\ roster' \in SUBSET Devices /\ door' \in BOOLEAN
      /\ status' \in {"active", "revoked", "deleted"}
      /\ trouble < MaxTrouble /\ trouble' = trouble + 1
      /\ Moves({}) \/ (roster' = roster /\ sure' = sure)
  BY DEF SetDoor, SetStatus, KickDevice, Trouble, Key, IInv, TypeOK
<1>2. \A d \in sure' : Knows(d)' /\ d \in Devices
  <2>1. CASE Moves({})
    BY <1>1, <2>1, MovesKeeps DEF IInv
  <2>2. CASE roster' = roster /\ sure' = sure
    <3>1. ASSUME NEW d \in sure'
          PROVE  Knows(d)' /\ d \in Devices
      <4>1. d \in Devices /\ Knows(d)
        BY <2>2, <3>1 DEF IInv, TypeOK, SureIsTrue
      <4>2. QED
        BY <1>1, <2>2, <4>1, KnowsKept DEF IInv
    <3>2. QED
      BY <3>1
  <2>3. QED
    BY <1>1, <2>1, <2>2
<1>3. TypeOK'
  <2>1. sure' \in SUBSET Devices
    BY <1>2
  <2>2. trouble' \in 0 .. MaxTrouble
    BY <1>1, ClientsAssumption DEF IInv, TypeOK
  <2>3. QED
    BY <1>1, <2>1, <2>2 DEF IInv, TypeOK, LimiterTypeOK, counters
<1>4. CallsMatch'
  BY <1>1 DEF IInv, CallsMatch
<1>5. QED
  BY <1>2, <1>3, <1>4 DEF SureIsTrue, Kept

LEMMA SetSlotsKeeps ==
  ASSUME IInv, NEW n \in SlotLimits, SetSlots(n)
  PROVE  Kept
<1>1. /\ call' = call /\ roster' = roster /\ maxSlots' = n
      /\ UNCHANGED <<count, left, passed, status, door>>
      /\ sure' = {d \in sure : ~Picking(d)}
      /\ trouble < MaxTrouble /\ trouble' = trouble + 1
  BY DEF SetSlots, Trouble, counters
<1>2. TypeOK'
  BY <1>1, ClientsAssumption DEF IInv, TypeOK, LimiterTypeOK
<1>3. CallsMatch'
  BY <1>1 DEF IInv, CallsMatch
<1>4. ASSUME NEW d \in sure'
      PROVE  Knows(d)'
  <2>1. d \in Devices /\ Knows(d) /\ ~Picking(d)
    BY <1>1, <1>4 DEF IInv, TypeOK, SureIsTrue
  <2>2. QED
    BY <1>1, <2>1, KnowsKept DEF IInv
<1>5. QED
  BY <1>2, <1>3, <1>4 DEF SureIsTrue, Kept

LEMMA ClockKeeps ==
  ASSUME IInv, Clock
  PROVE  Kept
<1>1. UNCHANGED <<status, maxSlots, roster, door, call, sure, trouble>> /\ Tick
  BY DEF Clock, Key
<1>2. LimiterTypeOK'
  BY <1>1, TickKeeps DEF IInv, TypeOK, Limited
<1>3. QED
  BY <1>1, <1>2 DEF IInv, TypeOK, CallsMatch, SureIsTrue, Knows, Picking, Kept

LEMMA StutterKeeps ==
  ASSUME IInv, UNCHANGED vars
  PROVE  Kept
  BY DEF IInv, TypeOK, LimiterTypeOK, CallsMatch, SureIsTrue, Knows, Picking, Kept,
         vars, Key, counters

-----------------------------------------------------------------------------
(* The theorems.                                                           *)

LEMMA Initial == Init => IInv
<1> SUFFICES ASSUME Init
             PROVE  IInv
  OBVIOUS
<1>1. Limited
  BY LimiterInitial DEF Init
<1> DEFINE out == [at |-> "idle", reading |-> "out"]
<1>2. out \in Told
  BY DEF Told, Readings
<1>3. /\ call \in [Handlers -> Request \cup Told]
      /\ call[Stray] = Nothing /\ \A d \in Devices : call[d] = out
  BY <1>2, NothingTold, ClientsAssumption DEF Init, Handlers
<1>4. TypeOK
  BY <1>1, <1>3, ClientsAssumption DEF Init, Limited, TypeOK
<1>5. CallsMatch
  BY <1>3, NothingTold DEF CallsMatch
<1>6. SureIsTrue
  BY <1>3 DEF Init, SureIsTrue, Knows, Picking
<1>7. QED
  BY <1>1, <1>4, <1>5, <1>6 DEF IInv, Limited

\* A step of the module is, for the limiter, one of its own.
LEMMA StepOfLimiter ==
  ASSUME IInv, [Next]_vars
  PROVE  [LimiterNext]_counters
<1>1. ASSUME NEW h \in Handlers, Enter(h)
      PROVE  [LimiterNext]_counters
  <2>1. call[h].by \in Targets
    BY <1>1, InProgress DEF Enter, IInv, Request, Devices
  <2>2. QED
    BY <1>1, <2>1 DEF Enter, LimiterNext
<1>2. CASE Clock
  BY <1>2 DEF Clock, LimiterNext
<1>3. ASSUME ~Clock, \A h \in Handlers : ~Enter(h)
      PROVE  UNCHANGED counters
  BY <1>3 DEF Next, Handle, Activate, Deactivate, Fail, GiveUp, KickDevice, Answer, Send,
              SetDoor, SetStatus, SetSlots, vars
<1>4. QED
  BY <1>1, <1>2, <1>3

LEMMA LimiterStep ==
  ASSUME Limited, [LimiterNext]_counters
  PROVE  Limited' /\ [Quota!Next]_(Quota!vars)
<1>1. CASE Tick
  BY <1>1, TickKeeps, TickTicks DEF Quota!Next
<1>2. ASSUME NEW t \in Targets, Allowed(t)
      PROVE  Limited' /\ Quota!Next
  BY <1>2, AllowedKeeps, AllowedAdmits DEF Quota!Next
<1>3. CASE UNCHANGED counters
  BY <1>3 DEF counters, Limited, LimiterTypeOK, CountersAgree, Quota!vars
<1>4. ASSUME NEW t \in Targets, Refused(t) \/ Unavailable(t)
      PROVE  Limited' /\ [Quota!Next]_(Quota!vars)
  <2>1. Limited'
    BY <1>4, OtherCountingKeeps
  <2>2. CASE Quota!Pass(t)
    BY <2>1, <2>2 DEF Quota!Next
  <2>3. QED
    BY <1>3, <1>4, <2>1, <2>2, RefusedPasses
<1>5. QED
  BY <1>1, <1>2, <1>3, <1>4 DEF LimiterNext

LEMMA Inductive ==
  ASSUME IInv, [Next]_vars
  PROVE  IInv'
<1>1. Limited'
  BY StepOfLimiter, LimiterStep DEF IInv, TypeOK, Limited
<1>2. Kept
  <2>1. ASSUME NEW h \in Handlers, Handle(h) \/ Fail(h)
        PROVE  Kept
    BY <2>1, EnterKeeps, ActivateKeeps, DeactivateKeeps, FailKeeps DEF Handle
  <2>2. ASSUME NEW d \in Devices, Answer(d) \/ GiveUp(d)
        PROVE  Kept
    BY <2>2, AnswerKeeps, GiveUpKeeps
  <2>3. ASSUME NEW d \in Devices, NEW op \in {"Activate", "Deactivate"},
               NEW evict \in Devices \cup {None}, Send(d, op, evict)
        PROVE  Kept
    BY <2>3, SendKeeps
  <2>4. ASSUME NEW n \in SlotLimits, SetSlots(n)
        PROVE  Kept
    BY <2>4, SetSlotsKeeps
  <2>5. QED
    BY <2>1, <2>2, <2>3, <2>4, OperatorKeeps, ClockKeeps, StutterKeeps DEF Next
<1>3. QED
  BY <1>1, <1>2 DEF Limited, Kept, IInv

\* Types, counters and what the devices know hold in every reachable state, for
\* any number of devices, any quota, window and any amount of trouble.
THEOREM ClientsInvariant == Spec => []IInv
<1>1. Init => IInv
  BY Initial
<1>2. IInv /\ [Next]_vars => IInv'
  BY Inductive
<1>3. QED
  BY <1>1, <1>2, PTL DEF Spec

\* The counters in Redis, with refused requests counted and an unavailable Redis
\* ignored, keep the promise of Quota: at most Max requests of a target pass the
\* counter in a window, and refused requests never prolong it.
THEOREM QuotaKept == Spec => ImplementsQuota
<1>1. Init => Quota!Init
  BY QuotaInitial DEF Init
<1>2. IInv /\ [Next]_vars => [Quota!Next]_(Quota!vars)
  BY StepOfLimiter, LimiterStep DEF IInv, TypeOK, Limited
<1>3. QED
  BY <1>1, <1>2, ClientsInvariant, PTL DEF Spec, ImplementsQuota, Quota!Spec

\* The same of the limiter by itself, as TrialStart uses it.
THEOREM LimiterKeepsQuota == LimiterSpec => ImplementsQuota
<1>1. LimiterInit => Quota!Init /\ Limited
  BY QuotaInitial, LimiterInitial
<1>2. Limited /\ [LimiterNext]_counters => Limited' /\ [Quota!Next]_(Quota!vars)
  BY LimiterStep
<1>3. QED
  BY <1>1, <1>2, PTL DEF LimiterSpec, ImplementsQuota, Quota!Spec

\* A device that was told it is in a slot is in one, and one that was told it is
\* not is not, until the roster changes under it.
THEOREM BeliefsAreTrue == Spec => []BeliefHolds
<1>1. IInv => BeliefHolds
  BY DEF IInv, SureIsTrue, Knows, BeliefHolds, Read
<1>2. QED
  BY <1>1, ClientsInvariant, PTL

\* How a step can answer the call a device waits for.
LEMMA StepThatAnswers ==
  ASSUME IInv, [Next]_vars, NEW d \in Devices,
         call[d].at \in {"entry", "tx"}, call'[d].at = "answer"
  PROVE  Enter(d) \/ Activate(d) \/ Deactivate(d) \/ Fail(d)
<1>1. call \in [Handlers -> Request \cup Told] /\ d \in Handlers /\ d # Stray
  BY ClientsAssumption DEF IInv, TypeOK, Handlers
<1>2. ASSUME NEW h \in Handlers \ {d}, Handle(h) \/ Fail(h)
      PROVE  FALSE
  BY <1>1, <1>2 DEF Handle, Enter, Activate, Deactivate, Fail, Ends, Goes
<1>3. ASSUME NEW e \in Devices, Answer(e)
      PROVE  FALSE
  BY <1>1, <1>3 DEF Answer
<1>4. ASSUME NEW e \in Devices, GiveUp(e)
      PROVE  FALSE
  BY <1>1, <1>4, NothingTold DEF GiveUp
<1>5. ASSUME NEW e \in Devices, NEW op \in {"Activate", "Deactivate"},
             NEW evict \in Devices \cup {None}, Send(e, op, evict)
      PROVE  FALSE
  BY <1>1, <1>5 DEF Send
<1>6. CASE call' = call
  BY <1>6
<1>7. QED
  BY <1>2, <1>3, <1>4, <1>5, <1>6
  DEF Next, Handle, KickDevice, SetDoor, SetStatus, SetSlots, Clock, vars

\* What a device reads of the end of its call gives the reason away.
LEMMA EndReads ==
  ASSUME TypeOK, CallsMatch, NEW d \in Devices, call[d].at \in {"entry", "tx"},
         NEW code \in Codes, Ends(d, code)
  PROVE  /\ call'[d].reading = "picker" <=> code = "slot_limit"
         /\ call'[d].reading = "invalid" <=> code \in {"app_unauthorized", "key_not_found", "key_revoked"}
<1>1. d \in Handlers /\ d # Stray
  BY ClientsAssumption DEF Handlers
<1>2. call[d].op \in {"Activate", "Deactivate"}
  BY <1>1, InProgress DEF Request
<1> DEFINE read == Reading(call[d].op, HTTP[GRPC(code)])
<1>3. /\ read = "picker" <=> code = "slot_limit"
      /\ read = "invalid" <=> code \in {"app_unauthorized", "key_not_found", "key_revoked"}
  BY <1>2, WhatIsRead
<1>4. call'[d] = [at |-> "answer", reading |-> read]
  BY <1>1, EndsTells
<1> HIDE DEF read
<1>5. QED
  BY <1>3, <1>4

\* Only a closed door, a frozen key or a missing one makes a device read that
\* its license is invalid; no fault of the service and no quota does.
THEOREM InvalidForCause == Spec => InvalidOnlyIfBad
<1>1. ASSUME IInv, [Next]_vars, NEW d \in Devices,
             call[d].at \in {"entry", "tx"}, call'[d].at = "answer",
             call'[d].reading = "invalid"
      PROVE  ~door \/ status # "active"
  <2>1. d \in Handlers /\ d # Stray /\ call[d].op \in {"Activate", "Deactivate"}
    BY <1>1, InProgress, ClientsAssumption DEF IInv, Request, Handlers
  <2>2. ASSUME NEW code \in Codes, Ends(d, code)
        PROVE  code \in {"app_unauthorized", "key_not_found", "key_revoked"}
    BY <1>1, <2>2, EndReads DEF IInv
  <2>3. CASE Enter(d)
    <3>1. CASE Goes(d)
      BY <1>1, <2>1, <3>1 DEF Goes, IInv, TypeOK, Request, Told
    <3>2. CASE Ends(d, "rate_limited")
      BY <2>2, <3>2 DEF Codes
    <3>3. QED
      BY <2>3, <3>1, <3>2 DEF Enter
  <2>4. CASE Activate(d)
    <3>1. ~Ends(d, "ok") /\ ~Ends(d, "slot_limit")
      BY <2>2 DEF Codes
    <3>2. QED
      BY <2>4, <3>1 DEF Activate
  <2>5. CASE Deactivate(d)
    BY <2>2, <2>5 DEF Deactivate, Codes
  <2>6. CASE Fail(d)
    BY <1>1, <2>2, <2>6 DEF Fail, Codes
  <2>7. QED
    BY <1>1, <2>3, <2>4, <2>5, <2>6, StepThatAnswers
<1>2. IInv /\ [Next]_vars =>
        [\A d \in Devices :
           call[d].at \in {"entry", "tx"} /\ call'[d].at = "answer" /\ call'[d].reading = "invalid"
           => ~door \/ status # "active"]_vars
  BY <1>1
<1>3. QED
  BY <1>2, ClientsInvariant, PTL DEF Spec, InvalidOnlyIfBad

\* Leaving a slot that is taken makes room under the bound.
LEMMA EvictionMakesRoom ==
  ASSUME TypeOK, NEW e \in roster, Cardinality(roster) <= maxSlots
  PROVE  Cardinality(roster \ {e}) < maxSlots
<1>1. IsFiniteSet(roster)
  BY ClientsAssumption, FS_Subset DEF TypeOK
<1>2. Cardinality(roster \ {e}) = Cardinality(roster) - 1 /\ Cardinality(roster) \in Nat
  BY <1>1, FS_RemoveElement, FS_CardinalityType
<1>3. QED
  BY <1>2, ClientsAssumption DEF TypeOK

\* While the roster is the one its picker shows, a device that names one of the
\* devices in it is not refused for want of a slot.
THEOREM OnePickIsEnough == Spec => PickIsEnough
<1>1. ASSUME IInv, [Next]_vars, NEW d \in sure,
             call[d].at = "tx", call[d].evict # None, call'[d].at = "answer"
      PROVE  call'[d].reading # "picker"
  <2>1. /\ d \in Devices /\ d \in Handlers /\ d # Stray
        /\ call[d].op \in {"Activate", "Deactivate"}
        /\ call[d].evict \in roster /\ Cardinality(roster) <= maxSlots
    <3>1. d \in Devices /\ Knows(d)
      BY <1>1 DEF IInv, TypeOK, SureIsTrue
    <3>2. QED
      BY <1>1, <3>1, InProgress, ClientsAssumption DEF IInv, Knows, Picking, Request, Handlers
  <2>2. ASSUME NEW code \in Codes \ {"slot_limit"}, Ends(d, code)
        PROVE  call'[d].reading # "picker"
    BY <1>1, <2>1, <2>2, EndReads DEF IInv
  <2>3. ~Full(call[d])
    <3>1. Rest(call[d]) = roster \ {call[d].evict}
      BY DEF Rest
    <3>2. TypeOK /\ roster \subseteq Devices /\ maxSlots \in Nat
      BY <1>1, ClientsAssumption DEF IInv, TypeOK
    <3>3. Cardinality(roster \ {call[d].evict}) < maxSlots
      BY <2>1, <3>2, EvictionMakesRoom
    <3>4. Cardinality(roster \ {call[d].evict}) \in Nat
      <4>1. IsFiniteSet(roster)
        BY <3>2, ClientsAssumption, FS_Subset
      <4>2. IsFiniteSet(roster \ {call[d].evict})
        BY <4>1, FS_Subset
      <4>3. QED
        BY <4>2, FS_CardinalityType
    <3>5. QED
      BY <3>1, <3>2, <3>3, <3>4 DEF Full
  <2>4. CASE Activate(d)
    BY <2>2, <2>3, <2>4 DEF Activate, Codes
  <2>5. CASE Deactivate(d)
    BY <2>2, <2>5 DEF Deactivate, Codes
  <2>6. CASE Fail(d)
    BY <1>1, <2>2, <2>6 DEF Fail, Codes
  <2>7. QED
    BY <1>1, <2>1, <2>4, <2>5, <2>6, StepThatAnswers DEF Enter
<1>2. IInv /\ [Next]_vars =>
        [\A d \in sure : call[d].at = "tx" /\ call[d].evict # None /\ call'[d].at = "answer"
                         => call'[d].reading # "picker"]_vars
  BY <1>1
<1>3. QED
  BY <1>2, ClientsInvariant, PTL DEF Spec, PickIsEnough

-----------------------------------------------------------------------------
(* The calls implement the slot ledger.                                    *)

\* The two specifications count alike.
LEMMA SameCardinality ==
  ASSUME NEW S
  PROVE  Ledger!Cardinality(S) = Cardinality(S)
  BY DEF Ledger!Cardinality, Cardinality

\* A roster as the ledger sees it.
Slots(R) == [d \in Devices |-> IF d \in R THEN "seen" ELSE "free"]

LEMMA SlotsFacts ==
  ASSUME NEW R \in SUBSET Devices
  PROVE  /\ Ledger!InSlot(Slots(R)) = R
         /\ \A E : Ledger!Without(Slots(R), E) = Slots(R \ E)
         /\ \A t \in Devices : [Slots(R) EXCEPT ![t] = "seen"] = Slots(R \cup {t})
<1>1. "seen" # "free"
  OBVIOUS
<1>2. QED
  BY <1>1 DEF Slots, Ledger!InSlot, Ledger!Without

\* The transaction of Activate admits or refreshes a device, or does nothing.
LEMMA ActivateOccupies ==
  ASSUME IInv, NEW h \in Handlers, Activate(h)
  PROVE  [Ledger!Next]_<<status, maxSlots, Slots(roster)>>
<1> DEFINE c == call[h]
<1>1. c.by \in Devices /\ c.evict \in Devices \cup {None}
  BY InProgress DEF IInv, Activate, Request
<1>2. roster \in SUBSET Devices /\ maxSlots \in Nat
  BY ClientsAssumption DEF IInv, TypeOK
<1>3. PICK t \in Devices, E \in Ledger!AtMostOne : t = c.by /\ Rest(c) = roster \ E
  <2>1. CASE c.evict = None
    <3>1. {} \in Ledger!AtMostOne /\ Rest(c) = roster \ {}
      BY <1>2, <2>1, ClientsAssumption DEF Ledger!AtMostOne, Rest
    <3>2. QED
      BY <1>1, <3>1
  <2>2. CASE c.evict \in Devices
    <3>1. {c.evict} \in Ledger!AtMostOne /\ Rest(c) = roster \ {c.evict}
      BY <2>2 DEF Ledger!AtMostOne, Rest
    <3>2. QED
      BY <1>1, <3>1
  <2>3. QED
    BY <1>1, <2>1, <2>2
<1>4. CASE UNCHANGED roster
  BY <1>4 DEF Activate, Slots
<1>5. CASE status = "active" /\ Occupy(c)
  <2>1. status' = status /\ maxSlots' = maxSlots
    BY DEF Activate
  <2>2. PICK rest \in SUBSET Devices : rest = Rest(c) /\ rest = roster \ E
    BY <1>2, <1>3
  <2>3. roster' = rest \cup {t} /\ (t \in rest \/ Cardinality(rest) < maxSlots)
    BY <1>3, <1>5, <2>2 DEF Occupy
  <2>4. Slots(roster') = [Ledger!Without(Slots(roster), E) EXCEPT ![t] = "seen"]
    BY <1>1, <1>2, <2>2, <2>3, SlotsFacts
  <2>5. CASE t \in rest
    <3>1. t \in Ledger!InSlot(Slots(roster)) \ E
      BY <1>2, <2>2, <2>5, SlotsFacts
    <3>2. Ledger!Heartbeat(t, "seen", E)
      BY <1>5, <2>1, <2>4, <3>1 DEF Ledger!Heartbeat, Slots
    <3>3. QED
      BY <1>3, <3>2 DEF Ledger!Next
  <2>6. CASE t \notin rest
    <3>1. t \notin Ledger!InSlot(Ledger!Without(Slots(roster), E))
      BY <1>2, <2>2, <2>6, SlotsFacts
    <3>2. Cardinality(rest \cup {t}) <= maxSlots
      <4>1. IsFiniteSet(rest)
        BY <2>2, ClientsAssumption, FS_Subset
      <4>2. Cardinality(rest \cup {t}) = Cardinality(rest) + 1 /\ Cardinality(rest) \in Nat
        BY <2>6, <4>1, FS_AddElement, FS_CardinalityType
      <4>3. QED
        BY <1>2, <2>3, <2>6, <4>2
    <3>3. Ledger!InSlot(Slots(roster')) = rest \cup {t}
      <4>1. roster' \in SUBSET Devices
        BY <1>1, <2>3
      <4>2. QED
        BY <2>3, <4>1, SlotsFacts
    <3>4. Ledger!Cardinality(Ledger!InSlot(Slots(roster'))) <= maxSlots
      BY <3>2, <3>3, SameCardinality
    <3>5. Ledger!Admit(t, "seen", E)
      BY <1>5, <2>1, <2>4, <3>1, <3>4 DEF Ledger!Admit, Slots
    <3>6. QED
      BY <1>3, <3>5 DEF Ledger!Next
  <2>7. QED
    BY <2>5, <2>6
<1>6. QED
  BY <1>4, <1>5 DEF Activate

\* Deactivate and KickDevice free one slot, whatever the key.
LEMMA Releases ==
  ASSUME IInv, NEW d \in Devices, roster' = roster \ {d}, UNCHANGED <<status, maxSlots>>
  PROVE  Ledger!Next
<1>1. Slots(roster') = Ledger!Without(Slots(roster), {d})
  BY SlotsFacts DEF IInv, TypeOK
<1>2. Ledger!Release(d)
  BY <1>1 DEF Ledger!Release, Slots
<1>3. QED
  BY <1>2 DEF Ledger!Next

LEMMA StatusIsSet ==
  ASSUME IInv, NEW s \in {"active", "revoked", "deleted"}, SetStatus(s)
  PROVE  Ledger!Next
<1>1. status # "deleted" /\ status' = s /\ maxSlots' = maxSlots /\ roster \in SUBSET Devices
  BY DEF SetStatus, IInv, TypeOK
<1>2. CASE s = "deleted"
  <2>1. Slots(roster') = Ledger!Without(Slots(roster), Devices)
    <3>1. roster' = roster \ Devices
      BY <1>1, <1>2 DEF SetStatus
    <3>2. QED
      BY <1>1, <3>1, SlotsFacts
  <2>2. Ledger!Erase(Devices)
    BY <1>1, <1>2, <2>1 DEF Ledger!Erase, Slots
  <2>3. QED
    BY <2>2 DEF Ledger!Next
<1>3. CASE s # "deleted"
  <2>1. Ledger!SetStatus(s)
    BY <1>1, <1>3 DEF SetStatus, Ledger!SetStatus
  <2>2. QED
    BY <1>3, <2>1 DEF Ledger!Next
<1>4. QED
  BY <1>2, <1>3

\* Whatever is lost, given up, asked again or still on its way when the next call
\* comes, the key and its roster change as the slot ledger says: one request at a
\* time, none entering a roster that is full or a key that is not active.
THEOREM ClientsImplementLedger == Spec => ImplementsLedger
<1>1. Init => Ledger!Init
  BY DEF Init, Ledger!Init
<1>2. ASSUME IInv, [Next]_vars
      PROVE  [Ledger!Next]_(Ledger!vars)
  <2> USE DEF Ledger!vars
  <2>1. CASE UNCHANGED Key
    BY <2>1 DEF Key
  <2>2. ASSUME NEW h \in Handlers, Activate(h)
        PROVE  [Ledger!Next]_(Ledger!vars)
    BY <1>2, <2>2, ActivateOccupies DEF Slots
  <2>3. ASSUME NEW h \in Handlers, Deactivate(h)
        PROVE  Ledger!Next
    <3>1. call[h].by \in Devices
      BY <1>2, <2>3, InProgress DEF IInv, Deactivate, Request
    <3>2. QED
      BY <1>2, <2>3, <3>1, Releases DEF Deactivate
  <2>4. ASSUME NEW d \in Devices, KickDevice(d)
        PROVE  Ledger!Next
    BY <1>2, <2>4, Releases DEF KickDevice
  <2>5. ASSUME NEW s \in {"active", "revoked", "deleted"}, SetStatus(s)
        PROVE  Ledger!Next
    BY <1>2, <2>5, StatusIsSet
  <2>6. ASSUME NEW n \in SlotLimits, SetSlots(n)
        PROVE  Ledger!Next
    <3>1. Ledger!SetSlots(n)
      BY <2>6 DEF SetSlots, Ledger!SetSlots
    <3>2. QED
      BY <3>1 DEF Ledger!Next
  <2>7. ASSUME NEW h \in Handlers, Enter(h) \/ Fail(h)
        PROVE  UNCHANGED Key
    BY <2>7 DEF Enter, Fail
  <2>8. ASSUME NEW d \in Devices,
               Answer(d) \/ GiveUp(d)
               \/ \E op \in {"Activate", "Deactivate"}, evict \in Devices \cup {None} : Send(d, op, evict)
        PROVE  UNCHANGED Key
    BY <2>8 DEF Answer, GiveUp, Send
  <2>9. CASE SetDoor \/ Clock \/ UNCHANGED vars
    BY <2>1, <2>9 DEF SetDoor, Clock, vars
  <2>10. QED
    BY <1>2, <2>1, <2>2, <2>3, <2>4, <2>5, <2>6, <2>7, <2>8, <2>9 DEF Next, Handle
<1>3. QED
  BY <1>1, <1>2, ClientsInvariant, PTL DEF Spec, ImplementsLedger, Ledger!Spec

=============================================================================
