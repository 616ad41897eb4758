-------------------------- MODULE DeploymentProofs --------------------------
(* Proofs about Deployment, for every set of instances, clients, keys and  *)
(* configurations.                                                         *)
EXTENDS Deployment, TLAPS

-----------------------------------------------------------------------------
(* The signer.                                                             *)

LEMMA ConfigFields ==
  ASSUME NEW c \in Configs
  PROVE  /\ c.keys \in Seq(SigningKey \cup {Nil})
         /\ c.signKeyID \in Kids \cup {Empty}
         /\ c # None
         /\ \A i \in Listed(c) : c.keys[i] \in SigningKey
         /\ Listed(c) \subseteq Nat
<1>1. c \in Config /\ c # None
  BY ConfigsAssumption
<1>2. c.keys \in Seq(SigningKey \cup {Nil}) /\ c.signKeyID \in Kids \cup {Empty}
  BY <1>1 DEF Config
<1>3. ASSUME NEW i \in Listed(c)
      PROVE  c.keys[i] \in SigningKey /\ i \in Nat
  <2>1. i \in DOMAIN c.keys /\ c.keys[i] # Nil
    BY DEF Listed
  <2>2. c.keys[i] \in SigningKey \cup {Nil} /\ i \in Nat
    BY <1>2, <2>1
  <2>3. QED
    BY <2>1, <2>2
<1>4. QED
  BY <1>1, <1>2, <1>3

\* The map takes the seed of each kid from the entry that names it.
LEMMA KeyMapEntries ==
  ASSUME NEW c \in Configs, ~Duplicate(c)
  PROVE  /\ DOMAIN KeyMap(c) = {c.keys[i].kid : i \in Listed(c)}
         /\ \A i \in Listed(c) : KeyMap(c)[c.keys[i].kid] = c.keys[i].seed
<1> DEFINE Of(k) == {i \in Listed(c) : c.keys[i].kid = k}
           Names == {c.keys[i].kid : i \in Listed(c)}
           Last(k) == CHOOSE i \in Of(k) : \A j \in Of(k) : j <= i
<1>1. KeyMap(c) = [k \in Names |-> c.keys[Last(k)].seed]
  BY DEF KeyMap
<1>2. ASSUME NEW i \in Listed(c)
      PROVE  Last(c.keys[i].kid) = i
  <2> DEFINE k == c.keys[i].kid
  <2>1. \A j \in Of(k) : j = i
    BY DEF Duplicate
  <2>2. i \in Of(k) /\ i <= i
    BY ConfigFields
  <2>3. \A j \in Of(k) : j <= i
    BY <2>1, <2>2
  <2>4. Last(k) \in Of(k)
    BY <2>2, <2>3
  <2>5. QED
    BY <2>1, <2>4
<1>3. ASSUME NEW i \in Listed(c)
      PROVE  KeyMap(c)[c.keys[i].kid] = c.keys[i].seed
  <2>1. c.keys[i].kid \in Names
    OBVIOUS
  <2>2. KeyMap(c)[c.keys[i].kid] = c.keys[Last(c.keys[i].kid)].seed
    BY <1>1, <2>1
  <2>3. QED
    BY <1>2, <2>2
<1>4. QED
  BY <1>1, <1>3

\* An accepted configuration makes a signer whose keys are the true keys of
\* their kids and that signs with the key the operator meant.
LEMMA SignerOfConfig ==
  ASSUME NEW c \in Configs, ResolveSigner(c) # None
  PROVE  LET s == ResolveSigner(c)
         IN  /\ DOMAIN s.keys \subseteq Kids
             /\ \A k \in DOMAIN s.keys : s.keys[k] = SeedOf[k]
             /\ s.active = MeantKid(c) /\ s.active \in DOMAIN s.keys
<1> DEFINE s == ResolveSigner(c)
           keys == KeyMap(c)
           active == ActiveOf(keys, c.signKeyID)
<1>1. ~Duplicate(c) /\ s = NewSigner(keys, c.signKeyID)
  BY DEF ResolveSigner
<1>2. /\ Empty \notin DOMAIN keys
      /\ \A k \in DOMAIN keys : keys[k] # Malformed
      /\ active \in DOMAIN keys
      /\ s = [keys |-> keys, active |-> active]
  BY <1>1 DEF NewSigner
<1>3. /\ DOMAIN keys = {c.keys[i].kid : i \in Listed(c)}
      /\ \A i \in Listed(c) : keys[c.keys[i].kid] = c.keys[i].seed
  BY <1>1, KeyMapEntries
<1>4. ASSUME NEW k \in DOMAIN keys
      PROVE  k \in Kids /\ keys[k] = SeedOf[k]
  <2>1. PICK i \in Listed(c) : k = c.keys[i].kid
    BY <1>3
  <2>2. c.keys[i] \in SigningKey
    BY ConfigFields
  <2>3. k \in Kids
    BY <1>2, <2>1, <2>2 DEF SigningKey
  <2>4. c.keys[i].seed \in {SeedOf[k], Malformed}
    BY <1>1, <2>1, <2>3, ConfigsAssumption
  <2>5. QED
    BY <1>2, <1>3, <2>1, <2>3, <2>4
<1>5. active = MeantKid(c)
  <2>1. CASE c.signKeyID # Empty
    BY <2>1 DEF ActiveOf, MeantKid
  <2>2. CASE c.signKeyID = Empty
    <3>1. None \notin DOMAIN keys
      BY <1>4, SignerMarks
    <3>2. PICK k \in DOMAIN keys : DOMAIN keys = {k}
      BY <1>2, <2>2, <3>1 DEF ActiveOf
    <3>3. active = k
      BY <2>2, <3>2, <1>2
    <3>4. PICK i \in Listed(c) : k = c.keys[i].kid
      BY <1>3, <3>2
    <3>5. \A j \in Listed(c) : c.keys[j].kid = k
      BY <1>3, <3>2
    <3>6. Listed(c) = {i} /\ i \in DOMAIN c.keys
      BY <1>1, <3>4, <3>5 DEF Duplicate, Listed
    <3>7. (CHOOSE j \in Listed(c) : TRUE) = i
      BY <3>6
    <3>8. MeantKid(c) = k
      BY <2>2, <3>4, <3>6, <3>7 DEF MeantKid
    <3>9. QED
      BY <3>3, <3>8
  <2>3. QED
    BY <2>1, <2>2
<1>6. QED
  BY <1>2, <1>4, <1>5

-----------------------------------------------------------------------------
(* Type correctness.                                                       *)

LEMMA AppendFacts ==
  ASSUME NEW S, NEW s \in Seq(S), NEW e \in S
  PROVE  /\ Append(s, e) \in Seq(S)
         /\ DOMAIN Append(s, e) = DOMAIN s \cup {Len(s) + 1}
         /\ \A k \in DOMAIN s : Append(s, e)[k] = s[k]
         /\ Append(s, e)[Len(s) + 1] = e
         /\ DOMAIN s = 1 .. Len(s) /\ Len(s) \in Nat
  OBVIOUS

LEMMA FrontFacts ==
  ASSUME NEW S, NEW s \in Seq(S), s # << >>
  PROVE  LET front == SubSeq(s, 1, Len(s) - 1)
         IN  /\ front \in Seq(S)
             /\ DOMAIN front = 1 .. (Len(s) - 1) /\ DOMAIN s = 1 .. Len(s)
             /\ \A k \in DOMAIN front : front[k] = s[k]
             /\ Len(s) \in Nat \ {0}
  OBVIOUS

\* What a move of an instance does to the manager and to what is open.
LEMMA ManagerType ==
  ASSUME TypeOK, NEW i \in Instances, NEW r \in Resources \cup {"jobs"}
  PROVE  /\ Create(i, r) => /\ mgr' \in [Instances -> Seq(Resources \cup {"jobs"})]
                            /\ open' \in [Instances -> SUBSET (Resources \cup {"jobs"})]
         /\ mgr[i] # << >> => /\ Unstopped(i) \in Seq(Resources \cup {"jobs"})
                              /\ NextToStop(i) \in Resources \cup {"jobs"}
<1> DEFINE Components == Resources \cup {"jobs"}
<1>1. mgr[i] \in Seq(Components) /\ open[i] \in SUBSET Components
  BY DEF TypeOK
<1>2. Append(mgr[i], r) \in Seq(Components)
  BY <1>1, AppendFacts
<1>3. Create(i, r) => /\ mgr' \in [Instances -> Seq(Components)]
                      /\ open' \in [Instances -> SUBSET Components]
  BY <1>1, <1>2 DEF TypeOK, Create
<1>4. ASSUME mgr[i] # << >>
      PROVE  Unstopped(i) \in Seq(Components) /\ NextToStop(i) \in Components
  <2>1. /\ Unstopped(i) \in Seq(Components)
        /\ Len(mgr[i]) \in DOMAIN mgr[i]
    BY <1>1, <1>4, FrontFacts DEF Unstopped
  <2>2. QED
    BY <1>1, <2>1 DEF NextToStop
<1>5. QED
  BY <1>3, <1>4

LEMMA GotoType ==
  ASSUME TypeOK, NEW i \in Instances, NEW stage \in Stages, Goto(i, stage)
  PROVE  pc' \in [Instances -> Stages]
  BY DEF TypeOK, Goto

LEMMA ConnectType ==
  ASSUME TypeOK, NEW i \in Instances, NEW r \in Resources, NEW next \in Stages,
         Connect(i, r, next)
  PROVE  /\ pc' \in [Instances -> Stages]
         /\ mgr' \in [Instances -> Seq(Resources \cup {"jobs"})]
         /\ open' \in [Instances -> SUBSET (Resources \cup {"jobs"})]
<1>1. "closing" \in Stages
  BY DEF Stages
<1>2. CASE Create(i, r) /\ Goto(i, next)
  BY <1>2, ManagerType, GotoType
<1>3. CASE Goto(i, next) /\ UNCHANGED <<mgr, open>>
  BY <1>3, GotoType DEF TypeOK
<1>4. CASE Goto(i, "closing") /\ UNCHANGED <<mgr, open>>
  BY <1>1, <1>4, GotoType DEF TypeOK
<1>5. QED
  BY <1>2, <1>3, <1>4 DEF Connect

LEMMA StepType ==
  ASSUME TypeOK, NEW i \in Instances, Step(i)
  PROVE  TypeOK'
<1> USE DEF rotation, traffic
<1>1. \A stage \in Stages : Goto(i, stage) => pc' \in [Instances -> Stages]
  BY GotoType
<1>2. CASE LoadServer(i) \/ ConnectModule(i)
  BY <1>1, <1>2 DEF LoadServer, ConnectModule, Claim, TypeOK, Stages
<1>3. CASE ConnectDB(i)
  BY <1>3, ConnectType DEF ConnectDB, TypeOK, Stages, Resources
<1>4. CASE ConnectRedis(i)
  BY <1>4, ConnectType DEF ConnectRedis, TypeOK, Stages, Resources
<1>5. CASE MakeSigner(i) \/ ResolveOptions(i) \/ NewValidator(i) \/ Start(i) \/ Stop(i) \/ Drained(i)
  <2>1. pc' \in [Instances -> Stages]
    BY <1>1, <1>5 DEF MakeSigner, ResolveOptions, NewValidator, Start, Stop, Drained, Stages
  <2>2. UNCHANGED <<config, release, table, call, cert, conf, mgr, open, shared, claimed>>
    BY <1>5 DEF MakeSigner, ResolveOptions, NewValidator, Start, Stop, Drained
  <2>3. QED
    BY <2>1, <2>2 DEF TypeOK
<1>6. CASE SetupJobs(i)
  <2>1. pc' \in [Instances -> Stages]
    BY <1>1, <1>6 DEF SetupJobs, Stages
  <2>2. /\ mgr' \in [Instances -> Seq(Resources \cup {"jobs"})]
        /\ open' \in [Instances -> SUBSET (Resources \cup {"jobs"})]
    BY <1>6, ManagerType DEF SetupJobs, TypeOK
  <2>3. UNCHANGED <<config, release, table, call, cert, conf, shared, claimed>>
    BY <1>6 DEF SetupJobs
  <2>4. QED
    BY <2>1, <2>2, <2>3 DEF TypeOK
<1>7. CASE StopComponent(i)
  <2>1. /\ mgr' \in [Instances -> Seq(Resources \cup {"jobs"})]
        /\ open' \in [Instances -> SUBSET (Resources \cup {"jobs"})]
        /\ shared' \subseteq Resources
    <3>1. Unstopped(i) \in Seq(Resources \cup {"jobs"})
      BY <1>7, ManagerType DEF StopComponent
    <3>2. mgr' \in [Instances -> Seq(Resources \cup {"jobs"})]
      <4> DEFINE Lists == Seq(Resources \cup {"jobs"})
      <4>1. mgr \in [Instances -> Lists] /\ Unstopped(i) \in Lists
        BY <3>1 DEF TypeOK
      <4>2. mgr' = [mgr EXCEPT ![i] = Unstopped(i)]
        BY <1>7 DEF StopComponent
      <4> HIDE DEF Lists
      <4>3. mgr' \in [Instances -> Lists]
        BY <4>1, <4>2
      <4>4. QED
        BY <4>3 DEF Lists
    <3>3. open' \in [Instances -> SUBSET (Resources \cup {"jobs"})] /\ shared' \subseteq Resources
      <4>1. CASE NextToStop(i) \in Injected[i]
        BY <1>7, <4>1 DEF StopComponent, TypeOK
      <4>2. CASE NextToStop(i) \notin Injected[i]
        BY <1>7, <4>2 DEF StopComponent, TypeOK
      <4>3. QED
        BY <4>1, <4>2
    <3>4. QED
      BY <3>2, <3>3
  <2>2. UNCHANGED <<config, release, table, call, cert, pc, conf, claimed>>
    BY <1>7 DEF StopComponent
  <2>3. QED
    BY <2>1, <2>2 DEF TypeOK
<1>8. CASE Stopped(i)
  BY <1>1, <1>8 DEF Stopped, TypeOK, Stages
<1>9. CASE DieServer(i)
  <2>1. /\ pc' \in [Instances -> Stages]
        /\ mgr' \in [Instances -> Seq(Resources \cup {"jobs"})]
    BY <1>9 DEF DieServer, Die, TypeOK, Stages
  <2>2. QED
    BY <1>9, <2>1 DEF DieServer, Die, TypeOK
<1>10. QED
  BY <1>2, <1>3, <1>4, <1>5, <1>6, <1>7, <1>8, <1>9 DEF Step

\* The moves that are no step of an instance.
ClientMoves(c) == Answer(c) \/ Refuse(c) \/ Upgrade(c) \/ \E i \in Instances : Request(c, i)

Others ==
  \/ \E i \in Instances : PinKeys(i)
  \/ DieParent
  \/ \E c \in Clients : ClientMoves(c)
  \/ \E new \in Configs : Configure(new)

LEMMA NextMoves == Next => Others \/ \E i \in Instances : Step(i)
  BY DEF Next, Others, ClientMoves

\* The certificate of a serving instance.
LEMMA Signed ==
  ASSUME IInv, NEW c \in Clients, call[c] # None
  PROVE  LET i == call[c]
             k == MeantKid(conf[i])
         IN  /\ i \in Instances /\ conf[i] \in Configs
             /\ ResolveSigner(conf[i]) # None
             /\ k \in Kids /\ SeedOf[k] \in Seeds
             /\ SignCert(ResolveSigner(conf[i])) = [kid |-> k, sig |-> SeedOf[k]]
<1> DEFINE i == call[c]
<1>1. i \in Instances /\ pc[i] \in {"up", "draining"}
  BY DEF IInv, TypeOK, CallsAtLive
<1>2. conf[i] \in Configs /\ ResolveSigner(conf[i]) # None
  BY <1>1 DEF IInv, TypeOK, Validated, ValidAt
<1>3. QED
  BY <1>1, <1>2, SignerOfConfig, ConfigsAssumption DEF SignCert, Sign

LEMMA OthersType ==
  ASSUME IInv, Others
  PROVE  TypeOK'
<1> USE DEF rotation, traffic, life
<1>1. TypeOK
  BY DEF IInv
<1>2. ASSUME NEW i \in Instances, PinKeys(i)
      PROVE  TypeOK'
  <2>1. conf[i] \in Configs /\ ResolveSigner(conf[i]) # None
    BY <1>2 DEF PinKeys, IInv, TypeOK, Validated, ValidAt
  <2>2. \A k \in Kids : PublicKeys(ResolveSigner(conf[i]))[k] \in Seeds \cup {None}
    BY <2>1, SignerOfConfig, ConfigsAssumption DEF PublicKeys
  <2>3. release' \in [Kids -> Seeds \cup {None}]
    BY <1>1, <1>2, <2>2 DEF PinKeys, TypeOK
  <2>4. QED
    BY <1>1, <1>2, <2>3 DEF PinKeys, TypeOK
<1>3. CASE DieParent
  <2>1. /\ pc' \in [Instances -> Stages]
        /\ mgr' \in [Instances -> Seq(Resources \cup {"jobs"})]
    BY <1>1, <1>3 DEF DieParent, Die, TypeOK, Stages
  <2>2. QED
    BY <1>1, <1>3, <2>1 DEF DieParent, Die, TypeOK
<1>4. ASSUME NEW c \in Clients, Answer(c)
      PROVE  TypeOK'
  <2> DEFINE signed == SignCert(ResolveSigner(conf[call[c]]))
  <2>1. call[c] # None
    BY <1>4 DEF Answer
  <2>2. signed \in [kid : Kids, sig : Seeds]
    <3> DEFINE k == MeantKid(conf[call[c]])
    <3>1. k \in Kids /\ SeedOf[k] \in Seeds /\ signed = [kid |-> k, sig |-> SeedOf[k]]
      BY <2>1, Signed
    <3> HIDE DEF k, signed
    <3>2. QED
      BY <3>1
  <2>3. cert' \in [Clients -> [kid : Kids, sig : Seeds] \cup {None}]
    <3> HIDE DEF signed
    <3>1. cert' = [cert EXCEPT ![c] = IF signed = None THEN @ ELSE signed]
      BY <1>4 DEF Answer, signed
    <3>2. QED
      BY <1>1, <2>2, <3>1 DEF TypeOK
  <2>4. QED
    BY <1>1, <1>4, <2>3 DEF Answer, TypeOK
<1>5. ASSUME NEW c \in Clients, Refuse(c) \/ Upgrade(c) \/ \E i \in Instances : Request(c, i)
      PROVE  TypeOK'
  BY <1>1, <1>5 DEF Refuse, Upgrade, Request, TypeOK
<1>6. ASSUME NEW new \in Configs, Configure(new)
      PROVE  TypeOK'
  BY <1>1, <1>6 DEF Configure, TypeOK
<1>7. QED
  BY <1>2, <1>3, <1>4, <1>5, <1>6 DEF Others, ClientMoves

-----------------------------------------------------------------------------
(* The managers.                                                           *)

LEMMA Ranks ==
  /\ Rank["db"] = 1 /\ Rank["redis"] = 2 /\ Rank["jobs"] = 3
  /\ \A r \in Resources : Rank[r] < 3 /\ Rank[r] \in Nat
  /\ \A r \in Resources \cup {"jobs"} : Rank[r] \in Nat
  BY DEF Rank, Resources

\* A component of the highest rank goes to the end of the list.
LEMMA CreateRegistered ==
  ASSUME TypeOK, Registered, NEW i \in Instances, NEW r \in Resources \cup {"jobs"},
         Create(i, r), \A x \in open[i] : Rank[x] < Rank[r]
  PROVE  /\ Registered'
         /\ open' = [open EXCEPT ![i] = @ \cup {r}]
<1> DEFINE s == mgr[i]
           t == Append(mgr[i], r)
           n == Len(mgr[i]) + 1
<1>1. mgr'[i] = t /\ open'[i] = open[i] \cup {r}
  BY DEF Create, TypeOK
<1>2. \A j \in Instances : j # i => mgr'[j] = mgr[j] /\ open'[j] = open[j]
  BY DEF Create, TypeOK
<1>3. /\ DOMAIN t = DOMAIN s \cup {n} /\ t[n] = r
      /\ \A k \in DOMAIN s : t[k] = s[k] /\ k \in Nat /\ k < n
      /\ n \in Nat
  <2>1. s \in Seq(Resources \cup {"jobs"})
    BY DEF TypeOK
  <2>2. QED
    BY <2>1, AppendFacts
<1>4. open[i] = {s[k] : k \in DOMAIN s}
  BY DEF Registered
<1>5. open'[i] = {t[k] : k \in DOMAIN t}
  BY <1>1, <1>3, <1>4
<1>6. ASSUME NEW k \in DOMAIN t, NEW l \in DOMAIN t, k < l
      PROVE  Rank[t[k]] < Rank[t[l]]
  <2>1. k \in DOMAIN s
    BY <1>3, <1>6
  <2>2. CASE l = n
    <3>1. t[k] \in open[i]
      BY <1>3, <1>4, <2>1
    <3>2. QED
      BY <1>3, <2>2, <3>1
  <2>3. CASE l \in DOMAIN s
    BY <1>3, <1>6, <2>1, <2>3 DEF Registered
  <2>4. QED
    BY <1>3, <2>2, <2>3
<1>7. Registered'
  <2> SUFFICES ASSUME NEW j \in Instances
               PROVE  /\ open'[j] = {mgr'[j][k] : k \in DOMAIN mgr'[j]}
                      /\ \A k, l \in DOMAIN mgr'[j] : k < l => Rank[mgr'[j][k]] < Rank[mgr'[j][l]]
    BY DEF Registered
  <2>1. CASE j = i
    BY <2>1, <1>1, <1>5, <1>6
  <2>2. CASE ~(j = i)
    <3>1. mgr'[j] = mgr[j] /\ open'[j] = open[j]
      BY <2>2, <1>2
    <3>2. QED
      BY <3>1 DEF Registered
  <2>3. QED
    BY <2>1, <2>2
<1>8. QED
  BY <1>7 DEF Create

\* The last one registered is open, the highest, and the instance's own.
LEMMA StopRegistered ==
  ASSUME TypeOK, Registered, MadeSoFar, NEW i \in Instances, StopComponent(i)
  PROVE  /\ Registered'
         /\ NextToStop(i) \in open[i] /\ NextToStop(i) \notin Injected[i]
         /\ \A x \in open[i] : x # NextToStop(i) => Rank[x] < Rank[NextToStop(i)]
         /\ open' = [open EXCEPT ![i] = @ \ {NextToStop(i)}]
         /\ UNCHANGED shared
<1> DEFINE s == mgr[i]
           t == SubSeq(mgr[i], 1, Len(mgr[i]) - 1)
           n == Len(mgr[i])
           last == s[n]
<1>1. s \in Seq(Resources \cup {"jobs"}) /\ s # << >>
  BY DEF StopComponent, TypeOK
<1>2. /\ DOMAIN s = DOMAIN t \cup {n}
      /\ \A k \in DOMAIN t : t[k] = s[k] /\ k \in Nat /\ k < n
      /\ n \in Nat
  BY <1>1, FrontFacts
<1>3. open[i] = {s[k] : k \in DOMAIN s} /\ last = NextToStop(i)
  BY DEF Registered, NextToStop
<1>4. last \in open[i]
  BY <1>2, <1>3
<1>5. \A k \in DOMAIN t : Rank[s[k]] < Rank[last]
  BY <1>2 DEF Registered
<1>6. \A x \in open[i] : Rank[x] \in Nat
  BY Ranks DEF TypeOK
<1>7. \A k \in DOMAIN t : s[k] # last
  <2>1. Rank[last] \in Nat
    BY <1>4, <1>6
  <2> HIDE DEF s, t, last
  <2>2. QED
    BY <2>1, <1>5
<1>8. last \notin Injected[i]
  BY <1>4, InstancesAssumption DEF MadeSoFar, OpenAt, Own, Resources
<1>9. /\ open' = [open EXCEPT ![i] = @ \ {last}]
      /\ UNCHANGED shared
      /\ mgr' = [mgr EXCEPT ![i] = t]
  BY <1>3, <1>8 DEF StopComponent, Unstopped
<1>10. open'[i] = open[i] \ {last} /\ mgr'[i] = t
  BY <1>9 DEF TypeOK
<1>11. \A j \in Instances : j # i => mgr'[j] = mgr[j] /\ open'[j] = open[j]
  BY <1>9 DEF TypeOK
<1>12. open'[i] = {t[k] : k \in DOMAIN t}
  BY <1>2, <1>3, <1>7, <1>10
<1>13. \A k, l \in DOMAIN t : k < l => Rank[t[k]] < Rank[t[l]]
  BY <1>2 DEF Registered
<1>14. Registered'
  <2> SUFFICES ASSUME NEW j \in Instances
               PROVE  /\ open'[j] = {mgr'[j][k] : k \in DOMAIN mgr'[j]}
                      /\ \A k, l \in DOMAIN mgr'[j] : k < l => Rank[mgr'[j][k]] < Rank[mgr'[j][l]]
    BY DEF Registered
  <2>1. CASE j = i
    BY <2>1, <1>10, <1>12, <1>13
  <2>2. CASE ~(j = i)
    <3>1. mgr'[j] = mgr[j] /\ open'[j] = open[j]
      BY <2>2, <1>11
    <3>2. QED
      BY <3>1 DEF Registered
  <2>3. QED
    BY <2>1, <2>2
<1>15. \A x \in open[i] : x # last => Rank[x] < Rank[last]
  BY <1>2, <1>3, <1>5
<1>16. QED
  BY <1>3, <1>4, <1>8, <1>9, <1>14, <1>15

\* Dead processes leave nothing.
LEMMA DieRegistered ==
  ASSUME TypeOK, Registered, NEW S \in SUBSET Instances, Die(S)
  PROVE  Registered'
<1>1. \A j \in S : mgr'[j] = << >> /\ open'[j] = {}
  BY DEF Die
<1>2. \A j \in Instances \ S : mgr'[j] = mgr[j] /\ open'[j] = open[j]
  BY DEF Die
<1>3. DOMAIN << >> = {}
  OBVIOUS
<1>4. \A j \in S : open'[j] = {mgr'[j][k] : k \in DOMAIN mgr'[j]} /\ DOMAIN mgr'[j] = {}
  BY <1>1, <1>3
<1>5. Registered'
  <2> SUFFICES ASSUME NEW j \in Instances
               PROVE  /\ open'[j] = {mgr'[j][k] : k \in DOMAIN mgr'[j]}
                      /\ \A k, l \in DOMAIN mgr'[j] : k < l => Rank[mgr'[j][k]] < Rank[mgr'[j][l]]
    BY DEF Registered
  <2>1. CASE j \in S
    BY <2>1, <1>4
  <2>2. CASE ~(j \in S)
    <3>1. mgr'[j] = mgr[j] /\ open'[j] = open[j]
      BY <2>2, <1>2
    <3>2. QED
      BY <3>1 DEF Registered
  <2>3. QED
    BY <2>1, <2>2
<1>6. QED
  BY <1>5


-----------------------------------------------------------------------------
(* Components and stages.                                                  *)

\* Components of the parent and of the instance are apart.
LEMMA OwnFacts ==
  ASSUME NEW i \in Instances
  PROVE  /\ Own(i) \subseteq Resources /\ Own(i) \cap Injected[i] = {}
         /\ Own(i) \cup Injected[i] = Resources
         /\ "jobs" \notin Resources /\ Resources = {"db", "redis"}
  BY InstancesAssumption DEF Own, Resources

\* One step of the construction at a time.
LEMMA ConnectKeeps ==
  ASSUME TypeOK, Registered, MadeSoFar, NEW i \in Instances,
         ConnectDB(i) \/ ConnectRedis(i) \/ SetupJobs(i)
  PROVE  Registered' /\ OpenAt(i, pc'[i], open'[i])
<1>1. OpenAt(i, pc[i], open[i])
  BY DEF MadeSoFar
<1>2. CASE UNCHANGED <<mgr, open>>
  <2>1. Registered'
    BY <1>2 DEF Registered
  <2>2. /\ open'[i] = open[i]
        /\ \/ pc'[i] = "closing"
           \/ pc[i] = "db" /\ pc'[i] = "redis" /\ "db" \in Injected[i]
           \/ pc[i] = "redis" /\ pc'[i] = "signer" /\ "redis" \in Injected[i]
    <3>1. "jobs" \notin open[i] \/ pc[i] # "jobs"
      BY <1>1, OwnFacts DEF OpenAt
    <3>2. \A r \in Resources \cup {"jobs"} : Create(i, r) => r \in open'[i]
      BY DEF Create, TypeOK
    <3>3. "db" \notin open[i] \/ pc[i] # "db"
      BY <1>1 DEF OpenAt
    <3>4. "redis" \notin open[i] \/ pc[i] # "redis"
      BY <1>1 DEF OpenAt
    <3>5. CASE ConnectDB(i)
      BY <1>2, <3>2, <3>3, <3>5 DEF ConnectDB, Connect, Goto, TypeOK, Resources
    <3>6. CASE ConnectRedis(i)
      BY <1>2, <3>2, <3>4, <3>6 DEF ConnectRedis, Connect, Goto, TypeOK, Resources
    <3>7. CASE SetupJobs(i)
      BY <1>2, <3>1, <3>2, <3>7 DEF SetupJobs, Goto, TypeOK
    <3>8. QED
      BY <3>5, <3>6, <3>7
  <2>3. OpenAt(i, pc'[i], open'[i])
    <3>1. CASE pc'[i] = "closing"
      <4>1. /\ open[i] \subseteq Own(i) \cup {"jobs"}
            /\ \A r \in open[i] : \A x \in Own(i) : Rank[x] < Rank[r] => x \in open[i]
        BY <1>1 DEF OpenAt
      <4>2. QED
        BY <2>2, <3>1, <4>1 DEF OpenAt
    <3>2. CASE pc[i] = "db" /\ pc'[i] = "redis" /\ "db" \in Injected[i]
      <4>1. open'[i] = {} /\ "db" \notin Own(i)
        BY <1>1, <2>2, <3>2 DEF OpenAt, Own
      <4>2. QED
        BY <3>2, <4>1 DEF OpenAt
    <3>3. CASE pc[i] = "redis" /\ pc'[i] = "signer" /\ "redis" \in Injected[i]
      <4>1. open[i] = {"db"} \cap Own(i) /\ "redis" \notin Own(i)
        BY <1>1, <3>3 DEF OpenAt, Own
      <4>2. open'[i] = Own(i)
        BY <2>2, <4>1, OwnFacts
      <4>3. QED
        BY <3>3, <4>2 DEF OpenAt
    <3>4. QED
      BY <2>2, <3>1, <3>2, <3>3
  <2>4. QED
    BY <2>1, <2>3
<1>3. ASSUME ConnectDB(i), Create(i, "db"), "db" \notin Injected[i], Goto(i, "redis")
      PROVE  Registered' /\ OpenAt(i, pc'[i], open'[i])
  <2>1. open[i] = {} /\ pc'[i] = "redis"
    BY <1>1, <1>3 DEF ConnectDB, OpenAt, Goto, TypeOK
  <2>2. Registered' /\ open'[i] = {"db"}
    BY <1>3, <2>1, CreateRegistered DEF TypeOK, Resources
  <2>3. "db" \in Own(i)
    BY <1>3 DEF Own, Resources
  <2>4. OpenAt(i, pc'[i], open'[i])
    BY <2>1, <2>2, <2>3, OwnFacts, Ranks DEF OpenAt
  <2>5. QED
    BY <2>2, <2>4
<1>4. ASSUME ConnectRedis(i), Create(i, "redis"), "redis" \notin Injected[i], Goto(i, "signer")
      PROVE  Registered' /\ OpenAt(i, pc'[i], open'[i])
  <2>1. open[i] = {"db"} \cap Own(i) /\ pc'[i] = "signer"
    BY <1>1, <1>4 DEF ConnectRedis, OpenAt, Goto, TypeOK
  <2>2. \A x \in open[i] : Rank[x] < Rank["redis"]
    BY <2>1, Ranks
  <2>3. Registered' /\ open'[i] = open[i] \cup {"redis"}
    BY <1>4, <2>2, CreateRegistered DEF TypeOK, Resources
  <2>4. open'[i] = Own(i)
    BY <1>4, <2>1, <2>3, OwnFacts
  <2>5. OpenAt(i, pc'[i], open'[i])
    BY <2>1, <2>4 DEF OpenAt
  <2>6. QED
    BY <2>3, <2>5
<1>5. ASSUME SetupJobs(i), Create(i, "jobs"), pc'[i] \in {"validator", "built"}
      PROVE  Registered' /\ OpenAt(i, pc'[i], open'[i])
  <2>1. open[i] = Own(i)
    BY <1>1, <1>5 DEF SetupJobs, OpenAt
  <2>2. \A x \in open[i] : Rank[x] < Rank["jobs"]
    BY <2>1, OwnFacts, Ranks
  <2>3. Registered' /\ open'[i] = Own(i) \cup {"jobs"}
    BY <1>5, <2>1, <2>2, CreateRegistered DEF TypeOK
  <2>4. OpenAt(i, pc'[i], open'[i])
    BY <1>5, <2>3 DEF OpenAt
  <2>5. QED
    BY <2>3, <2>4
<1>6. CASE ConnectDB(i)
  BY <1>2, <1>3, <1>6 DEF ConnectDB, Connect
<1>7. CASE ConnectRedis(i)
  BY <1>2, <1>4, <1>7 DEF ConnectRedis, Connect
<1>8. CASE SetupJobs(i)
  <2>1. CASE Create(i, "jobs") /\ Goto(i, IF i \in Servers THEN "validator" ELSE "built")
    <3>1. pc'[i] \in {"validator", "built"}
      BY <2>1 DEF Goto, TypeOK
    <3>2. QED
      BY <1>5, <1>8, <2>1, <3>1
  <2>2. QED
    BY <1>2, <1>8, <2>1 DEF SetupJobs
<1>9. QED
  BY <1>6, <1>7, <1>8


\* The steps that neither make nor close anything.
Quiet(i) == \/ LoadServer(i) \/ ConnectModule(i) \/ MakeSigner(i) \/ ResolveOptions(i)
            \/ NewValidator(i) \/ Start(i) \/ Stop(i) \/ Drained(i) \/ Stopped(i)

\* Where they lead.
Leads(i, from, to) == pc[i] = from /\ pc'[i] = to

LEMMA QuietMoves ==
  ASSUME TypeOK, NEW i \in Instances, Quiet(i)
  PROVE  /\ UNCHANGED <<mgr, open, shared>>
         /\ \A j \in Instances : j # i => pc'[j] = pc[j] /\ conf'[j] = conf[j]
         /\ \/ Leads(i, "off", "db") \/ Leads(i, "signer", "options")
            \/ Leads(i, "options", "jobs") \/ Leads(i, "validator", "built")
            \/ Leads(i, "validator", "dropped") \/ Leads(i, "built", "up")
            \/ Leads(i, "up", "draining") \/ Leads(i, "built", "draining")
            \/ Leads(i, "closing", "off")
            \/ pc[i] \in {"signer", "options", "built", "draining"} /\ pc'[i] = "closing"
<1>1. UNCHANGED <<mgr, open, shared>>
  BY DEF Quiet, LoadServer, ConnectModule, MakeSigner, ResolveOptions,
         NewValidator, Start, Stop, Drained, Stopped
<1>2. ASSUME NEW to, Goto(i, to)
      PROVE  /\ pc'[i] = to
             /\ \A j \in Instances : j # i => pc'[j] = pc[j]
  BY <1>2 DEF Goto, TypeOK
<1>3. \E to \in Stages : Goto(i, to)
  BY DEF Quiet, LoadServer, ConnectModule, MakeSigner, ResolveOptions,
         NewValidator, Start, Stop, Drained, Stopped, Stages
<1>4. \A j \in Instances : j # i => pc'[j] = pc[j]
  BY <1>2, <1>3
<1>5. \A j \in Instances : j # i => conf'[j] = conf[j]
  BY DEF TypeOK, Quiet, LoadServer, ConnectModule, MakeSigner, ResolveOptions,
         NewValidator, Start, Stop, Drained, Stopped
<1>6. \/ Leads(i, "off", "db") \/ Leads(i, "signer", "options")
      \/ Leads(i, "options", "jobs") \/ Leads(i, "validator", "built")
      \/ Leads(i, "validator", "dropped") \/ Leads(i, "built", "up")
      \/ Leads(i, "up", "draining") \/ Leads(i, "built", "draining")
      \/ Leads(i, "closing", "off")
      \/ pc[i] \in {"signer", "options", "built", "draining"} /\ pc'[i] = "closing"
  <2>1. CASE LoadServer(i) \/ ConnectModule(i)
    BY <1>2, <2>1 DEF LoadServer, ConnectModule, Leads
  <2>2. CASE MakeSigner(i) \/ ResolveOptions(i)
    BY <1>2, <2>2 DEF MakeSigner, ResolveOptions, Leads
  <2>3. CASE NewValidator(i) \/ Start(i) \/ Stop(i)
    BY <1>2, <2>3 DEF NewValidator, Start, Stop, Leads
  <2>4. CASE Drained(i) \/ Stopped(i)
    BY <1>2, <2>4 DEF Drained, Stopped, Leads
  <2>5. QED
    BY <2>1, <2>2, <2>3, <2>4 DEF Quiet
<1>7. QED
  BY <1>1, <1>4, <1>5, <1>6

LEMMA QuietKeeps ==
  ASSUME TypeOK, Registered, MadeSoFar, NEW i \in Instances, Quiet(i)
  PROVE  Registered' /\ MadeSoFar'
<1>1. UNCHANGED <<mgr, open>>
  BY QuietMoves
<1>2. Registered'
  BY <1>1 DEF Registered
<1>3. OpenAt(i, pc[i], open[i])
  BY DEF MadeSoFar
<1>4. ASSUME Stopped(i)
      PROVE  open[i] = {}
  BY <1>4 DEF Stopped, Registered
<1>5. OpenAt(i, pc'[i], open'[i])
  <2>1. CASE pc[i] = "closing"
    <3>1. Stopped(i)
      BY <2>1 DEF Quiet, LoadServer, ConnectModule, MakeSigner, ResolveOptions,
                  NewValidator, Start, Stop, Drained
    <3>2. open'[i] = {}
      BY <1>1, <1>4, <3>1
    <3>3. pc'[i] = "off"
      BY <3>1 DEF Stopped, Goto, TypeOK
    <3>4. QED
      BY <3>2, <3>3 DEF OpenAt
  <2>2. CASE pc[i] # "closing"
    BY <1>1, <1>3, <2>2, QuietMoves DEF OpenAt, Leads
  <2>3. QED
    BY <2>1, <2>2
<1>6. \A j \in Instances : j # i => OpenAt(j, pc'[j], open'[j])
  BY <1>1, QuietMoves DEF MadeSoFar
<1>7. QED
  BY <1>2, <1>5, <1>6 DEF MadeSoFar

LEMMA StepKeepsMade ==
  ASSUME TypeOK, Registered, MadeSoFar, NEW i \in Instances, Step(i)
  PROVE  Registered' /\ MadeSoFar'
<1>1. CASE Quiet(i)
  BY <1>1, QuietKeeps
<1>2. CASE ConnectDB(i) \/ ConnectRedis(i) \/ SetupJobs(i)
  <2>1. Registered' /\ OpenAt(i, pc'[i], open'[i])
    BY <1>2, ConnectKeeps
  <2>2. \A j \in Instances : j # i => pc'[j] = pc[j] /\ open'[j] = open[j]
    BY <1>2 DEF ConnectDB, ConnectRedis, SetupJobs, Connect, Create, Goto, TypeOK
  <2>3. MadeSoFar'
    BY <2>1, <2>2 DEF MadeSoFar
  <2>4. QED
    BY <2>1, <2>3
<1>3. CASE StopComponent(i)
  <2> DEFINE last == NextToStop(i)
  <2>1. /\ Registered' /\ last \in open[i]
        /\ \A x \in open[i] : x # last => Rank[x] < Rank[last]
        /\ open' = [open EXCEPT ![i] = @ \ {last}]
    BY <1>3, StopRegistered
  <2>2. pc[i] = "closing" /\ pc' = pc
    BY <1>3 DEF StopComponent
  <2>3. OpenAt(i, pc[i], open[i])
    BY DEF MadeSoFar
  <2>4. open'[i] = open[i] \ {last}
    BY <2>1 DEF TypeOK
  <2>5. ASSUME NEW r \in open'[i], NEW x \in Own(i), Rank[x] < Rank[r]
        PROVE  x \in open'[i]
    <3>1. x \in open[i]
      BY <2>3, <2>4, <2>5 DEF OpenAt
    <3>2. Rank[r] < Rank[last]
      BY <2>1, <2>4
    <3>3. {x, r, last} \subseteq Resources \cup {"jobs"}
      BY <2>1, <2>4, OwnFacts DEF TypeOK
    <3>4. x # last
      BY <2>5, <3>2, <3>3, Ranks
    <3>5. QED
      BY <2>4, <3>1, <3>4
  <2>6. OpenAt(i, pc'[i], open'[i])
    BY <2>2, <2>3, <2>4, <2>5 DEF OpenAt
  <2>7. \A j \in Instances : j # i => pc'[j] = pc[j] /\ open'[j] = open[j]
    BY <2>1, <2>2 DEF TypeOK
  <2>8. MadeSoFar'
    BY <2>6, <2>7 DEF MadeSoFar
  <2>9. QED
    BY <2>1, <2>8
<1>4. CASE DieServer(i)
  <2>1. Die({i})
    BY <1>4 DEF DieServer
  <2>2. Registered'
    BY <2>1, DieRegistered
  <2>3. MadeSoFar'
    BY <2>1 DEF Die, MadeSoFar, OpenAt
  <2>4. QED
    BY <2>2, <2>3
<1>5. QED
  BY <1>1, <1>2, <1>3, <1>4 DEF Step, Quiet

LEMMA OthersKeepMade ==
  ASSUME TypeOK, Registered, MadeSoFar, Others
  PROVE  Registered' /\ MadeSoFar'
<1>1. CASE DieParent
  <2>1. Die(Consumers) /\ Consumers \in SUBSET Instances
    BY <1>1 DEF DieParent, Instances
  <2>2. Registered'
    BY <2>1, DieRegistered
  <2>3. MadeSoFar'
    BY <2>1 DEF Die, MadeSoFar, OpenAt
  <2>4. QED
    BY <2>2, <2>3
<1>2. CASE UNCHANGED <<pc, mgr, open>>
  BY <1>2 DEF Registered, MadeSoFar
<1>3. QED
  BY <1>1, <1>2 DEF Others, ClientMoves, PinKeys, Answer, Refuse, Upgrade, Request,
                    Configure, life


-----------------------------------------------------------------------------
(* Validation, calls and the claim.                                        *)

\* A step of one instance touches no other, no table and no certificate.
LEMMA StepIsLocal ==
  ASSUME TypeOK, NEW i \in Instances, Step(i)
  PROVE  /\ \A j \in Instances : j # i => pc'[j] = pc[j] /\ conf'[j] = conf[j]
         /\ UNCHANGED <<config, release, table, cert>>
<1>1. UNCHANGED <<config, release, table, cert>>
  BY DEF Step, LoadServer, ConnectModule, ConnectDB, ConnectRedis, MakeSigner, ResolveOptions,
         SetupJobs, NewValidator, Start, Stop, Drained, StopComponent, Stopped, DieServer, Die,
         rotation, traffic
<1>2. CASE Quiet(i)
  BY <1>1, <1>2, QuietMoves
<1>3. CASE ConnectDB(i) \/ ConnectRedis(i) \/ SetupJobs(i)
  BY <1>1, <1>3 DEF ConnectDB, ConnectRedis, SetupJobs, Connect, Goto, TypeOK
<1>4. CASE StopComponent(i)
  BY <1>1, <1>4 DEF StopComponent
<1>5. CASE DieServer(i)
  BY <1>1, <1>5 DEF DieServer, Die
<1>6. QED
  BY <1>2, <1>3, <1>4, <1>5 DEF Step, Quiet

\* Each check is passed before the stages that rely on it.
LEMMA StepValidates ==
  ASSUME TypeOK, Validated, NEW i \in Instances, Step(i)
  PROVE  ValidAt(pc'[i], conf'[i])
<1>1. ValidAt(pc[i], conf[i])
  BY DEF Validated
<1>2. \A to : Goto(i, to) => pc'[i] = to
  BY DEF Goto, TypeOK
<1>3. CASE LoadServer(i) \/ ConnectModule(i)
  <2>1. pc'[i] = "db" /\ conf'[i] = config
    BY <1>2, <1>3 DEF LoadServer, ConnectModule, TypeOK
  <2>2. config # None
    BY ConfigsAssumption DEF TypeOK
  <2>3. QED
    BY <2>1, <2>2 DEF ValidAt
<1>4. CASE ConnectDB(i) \/ ConnectRedis(i)
  <2>1. conf'[i] = conf[i] /\ pc[i] # "off" /\ pc'[i] \in {"redis", "signer", "closing"}
    BY <1>2, <1>4 DEF ConnectDB, ConnectRedis, Connect
  <2>2. QED
    BY <1>1, <2>1 DEF ValidAt
<1>5. CASE MakeSigner(i) \/ ResolveOptions(i)
  <2>1. conf'[i] = conf[i]
    BY <1>5 DEF MakeSigner, ResolveOptions
  <2>2. \/ pc[i] = "signer" /\ pc'[i] = "options" /\ ResolveSigner(conf[i]) # None
        \/ pc[i] = "options" /\ pc'[i] = "jobs" /\ conf[i].knobs
        \/ pc[i] \in {"signer", "options"} /\ pc'[i] = "closing"
    BY <1>2, <1>5 DEF MakeSigner, ResolveOptions
  <2>3. QED
    BY <1>1, <2>1, <2>2 DEF ValidAt
<1>6. CASE SetupJobs(i) \/ NewValidator(i) \/ Start(i) \/ Stop(i) \/ Drained(i)
  <2>1. /\ conf'[i] = conf[i]
        /\ pc[i] \in {"jobs", "validator", "built", "up", "draining"}
        /\ pc'[i] \in {"validator", "built", "dropped", "up", "draining", "closing"}
    BY <1>2, <1>6 DEF SetupJobs, NewValidator, Start, Stop, Drained
  <2>2. QED
    BY <1>1, <2>1 DEF ValidAt
<1>7. CASE StopComponent(i)
  BY <1>1, <1>7 DEF StopComponent
<1>8. CASE Stopped(i) \/ DieServer(i)
  <2>1. pc'[i] = "off" /\ conf'[i] = None
    BY <1>2, <1>8 DEF Stopped, DieServer, Die, TypeOK
  <2>2. QED
    BY <2>1 DEF ValidAt
<1>9. QED
  BY <1>3, <1>4, <1>5, <1>6, <1>7, <1>8 DEF Step

LEMMA ValidatedKept ==
  ASSUME TypeOK, Validated, Next
  PROVE  Validated'
<1>1. ASSUME NEW i \in Instances, Step(i)
      PROVE  Validated'
  BY <1>1, StepValidates, StepIsLocal DEF Validated
<1>2. CASE DieParent
  BY <1>2 DEF DieParent, Die, Validated, ValidAt
<1>3. CASE UNCHANGED <<pc, conf>>
  BY <1>3 DEF Validated
<1>4. CASE Others
  BY <1>2, <1>3, <1>4 DEF Others, ClientMoves, PinKeys, Answer, Refuse, Upgrade, Request,
                          Configure, life
<1>5. QED
  BY <1>1, <1>4, NextMoves

LEMMA DropOnlyKept ==
  ASSUME TypeOK, ServersDropOnly, Next
  PROVE  ServersDropOnly'
<1>1. ASSUME NEW i \in Instances, Step(i)
      PROVE  ServersDropOnly'
  <2>1. \A to : Goto(i, to) => pc'[i] = to
    BY DEF Goto, TypeOK
  <2>2. i \in Consumers => i \notin Servers
    BY InstancesAssumption
  <2>3. i \in Consumers => pc'[i] \notin {"validator", "dropped"}
    <3>1. CASE Quiet(i)
      BY <3>1, QuietMoves DEF ServersDropOnly, Leads
    <3>2. CASE ConnectDB(i) \/ ConnectRedis(i) \/ SetupJobs(i)
      BY <2>1, <2>2, <3>2 DEF ConnectDB, ConnectRedis, SetupJobs, Connect
    <3>3. CASE StopComponent(i) \/ DieServer(i)
      BY <3>3 DEF StopComponent, DieServer, Die, ServersDropOnly
    <3>4. QED
      BY <1>1, <3>1, <3>2, <3>3 DEF Step, Quiet
  <2>4. QED
    BY <1>1, <2>3, StepIsLocal DEF ServersDropOnly, Instances
<1>2. CASE DieParent
  BY <1>2 DEF DieParent, Die, ServersDropOnly, Instances
<1>3. CASE UNCHANGED pc
  BY <1>3 DEF ServersDropOnly
<1>4. CASE Others
  BY <1>2, <1>3, <1>4 DEF Others, ClientMoves, PinKeys, Answer, Refuse, Upgrade, Request,
                          Configure, life
<1>5. QED
  BY <1>1, <1>4, NextMoves

\* An instance leaves its service only without calls, or takes them along.
LEMMA CallsKept ==
  ASSUME TypeOK, CallsAtLive, Next
  PROVE  CallsAtLive'
<1> DEFINE Live == {"up", "draining"}
<1>1. ASSUME NEW i \in Instances, Quiet(i)
      PROVE  CallsAtLive'
  <2>1. call' = call
    BY <1>1 DEF Quiet, LoadServer, ConnectModule, MakeSigner, ResolveOptions,
                NewValidator, Start, Stop, Drained, Stopped, traffic
  <2>2. pc[i] \in Live => pc'[i] \in Live \/ \A c \in Clients : call[c] # i
    <3>1. CASE Drained(i)
      BY <3>1 DEF Drained
    <3>2. CASE ~Drained(i)
      <4>1. pc[i] \in Live => Stop(i)
        BY <1>1, <3>2 DEF Quiet, LoadServer, ConnectModule, MakeSigner, ResolveOptions,
                          NewValidator, Start, Drained, Stopped
      <4>2. Stop(i) => pc'[i] = "draining"
        BY DEF Stop, Goto, TypeOK
      <4>3. QED
        BY <4>1, <4>2
    <3>3. QED
      BY <3>1, <3>2
  <2>3. \A j \in Instances : j # i => pc'[j] = pc[j]
    BY <1>1, QuietMoves
  <2>4. QED
    BY <2>1, <2>2, <2>3 DEF CallsAtLive, TypeOK
<1>2. ASSUME NEW i \in Instances, ConnectDB(i) \/ ConnectRedis(i) \/ SetupJobs(i)
      PROVE  CallsAtLive'
  <2>1. call' = call /\ pc[i] \notin Live
    BY <1>2 DEF ConnectDB, ConnectRedis, SetupJobs, traffic
  <2>2. \A j \in Instances : j # i => pc'[j] = pc[j]
    BY <1>2 DEF ConnectDB, ConnectRedis, SetupJobs, Connect, Goto, TypeOK
  <2>3. QED
    BY <2>1, <2>2 DEF CallsAtLive, TypeOK
<1>3. ASSUME NEW S \in SUBSET Instances, Die(S)
      PROVE  CallsAtLive'
  BY <1>3 DEF Die, CallsAtLive, TypeOK
<1>4. ASSUME NEW i \in Instances, DieServer(i)
      PROVE  CallsAtLive'
  <2>1. Die({i}) /\ {i} \in SUBSET Instances
    BY <1>4 DEF DieServer
  <2>2. QED
    BY <1>3, <2>1
<1>5. CASE DieParent
  <2>1. Die(Consumers) /\ Consumers \in SUBSET Instances
    BY <1>5 DEF DieParent, Instances
  <2>2. QED
    BY <1>3, <2>1
<1>6. ASSUME NEW c \in Clients, Answer(c) \/ Refuse(c)
      PROVE  CallsAtLive'
  BY <1>6 DEF Answer, Refuse, life, CallsAtLive, TypeOK
<1>7. ASSUME NEW c \in Clients, NEW i \in Instances, Request(c, i)
      PROVE  CallsAtLive'
  BY <1>7 DEF Request, life, CallsAtLive, TypeOK
<1>8. CASE UNCHANGED <<call, pc>>
  BY <1>8 DEF CallsAtLive
<1>9. CASE Others
  BY <1>5, <1>6, <1>7, <1>8, <1>9 DEF Others, ClientMoves, PinKeys, Upgrade, Configure,
                                      life, traffic
<1>10. ASSUME NEW i \in Instances, Step(i)
       PROVE  CallsAtLive'
  <2>1. CASE StopComponent(i)
    BY <1>8, <2>1 DEF StopComponent, traffic
  <2>2. QED
    BY <1>1, <1>2, <1>4, <1>10, <2>1 DEF Step, Quiet
<1>11. QED
  BY <1>9, <1>10, NextMoves


\* Only what an instance owns is ever stopped.
LEMMA SharedKept ==
  ASSUME TypeOK, Registered, MadeSoFar, SharedStayOpen, Next
  PROVE  SharedStayOpen'
<1>1. ASSUME NEW i \in Instances, Step(i)
      PROVE  SharedStayOpen'
  <2>1. CASE StopComponent(i)
    BY <2>1, StopRegistered DEF SharedStayOpen
  <2>2. CASE ~StopComponent(i)
    BY <1>1, <2>2 DEF Step, LoadServer, ConnectModule, ConnectDB, ConnectRedis, MakeSigner,
                      ResolveOptions, SetupJobs, NewValidator, Start, Stop, Drained, Stopped,
                      DieServer, SharedStayOpen
  <2>3. QED
    BY <2>1, <2>2
<1>2. CASE Others
  BY <1>2 DEF Others, ClientMoves, PinKeys, DieParent, Answer, Refuse, Upgrade, Request,
              Configure, life, SharedStayOpen
<1>3. QED
  BY <1>1, <1>2, NextMoves

\* Taken by the first of the consumers, the claim is free when that one is off.
LEMMA ClaimKept ==
  ASSUME TypeOK, OneModule, Next
  PROVE  OneModule'
<1>1. ASSUME NEW i \in Instances, Step(i)
      PROVE  OneModule'
  <2>1. CASE i \in Consumers
    <3>1. CASE ConnectModule(i)
      <4>1. ~claimed /\ claimed' /\ pc'[i] = "db"
        BY <3>1 DEF ConnectModule, Claim, Goto, TypeOK
      <4>2. \A j \in Consumers : j # i => pc'[j] = "off"
        BY <1>1, <4>1, StepIsLocal DEF OneModule, Instances
      <4>3. QED
        BY <2>1, <4>1, <4>2 DEF OneModule
    <3>2. CASE Stopped(i)
      <4>1. claimed' = FALSE /\ pc'[i] = "off" /\ pc[i] = "closing"
        BY <2>1, <3>2 DEF Stopped, Goto, TypeOK
      <4>2. \A j \in Consumers : j # i => pc[j] = "off"
        BY <2>1, <4>1 DEF OneModule
      <4>3. \A j \in Consumers : pc'[j] = "off"
        BY <1>1, <4>1, <4>2, StepIsLocal DEF Instances
      <4>4. QED
        BY <4>1, <4>3 DEF OneModule
    <3>3. CASE ~ConnectModule(i) /\ ~Stopped(i)
      <4>1. claimed' = claimed
        BY <1>1, <3>3 DEF Step, LoadServer, ConnectDB, ConnectRedis, MakeSigner, ResolveOptions,
                          SetupJobs, NewValidator, Start, Stop, Drained, StopComponent, DieServer
      <4>2. pc[i] # "off" /\ pc'[i] # "off"
        <5>1. i \notin Servers
          BY <2>1, InstancesAssumption
        <5>2. CASE Quiet(i)
          <6>1. ~LoadServer(i)
            BY <5>1 DEF LoadServer
          <6>2. pc[i] # "off"
            BY <3>3, <5>2, <6>1 DEF Quiet, MakeSigner, ResolveOptions, NewValidator, Start,
                                    Stop, Drained
          <6>3. pc[i] # "closing"
            BY <3>3, <5>2, <6>1 DEF Quiet, MakeSigner, ResolveOptions, NewValidator, Start,
                                    Stop, Drained
          <6>4. QED
            BY <5>2, <6>2, <6>3, QuietMoves DEF Leads
        <5>3. CASE ConnectDB(i) \/ ConnectRedis(i) \/ SetupJobs(i)
          <6>1. \A to : Goto(i, to) => pc'[i] = to
            BY DEF Goto, TypeOK
          <6>2. QED
            BY <5>1, <5>3, <6>1 DEF ConnectDB, ConnectRedis, SetupJobs, Connect
        <5>4. CASE StopComponent(i)
          BY <5>4 DEF StopComponent
        <5>5. ~DieServer(i)
          BY <5>1 DEF DieServer
        <5>6. QED
          BY <1>1, <5>2, <5>3, <5>4, <5>5 DEF Step, Quiet
      <4>3. \A j \in Consumers : pc'[j] = "off" <=> pc[j] = "off"
        BY <1>1, <4>2, StepIsLocal DEF Instances
      <4>4. QED
        BY <4>1, <4>3 DEF OneModule
    <3>4. QED
      BY <3>1, <3>2, <3>3
  <2>2. CASE i \notin Consumers
    <3>1. \A j \in Consumers : pc'[j] = pc[j]
      BY <1>1, <2>2, StepIsLocal DEF Instances
    <3>2. claimed' = claimed
      <4>1. CASE Stopped(i)
        BY <2>2, <4>1 DEF Stopped, TypeOK
      <4>2. CASE ~Stopped(i)
        BY <1>1, <2>2, <4>2 DEF Step, LoadServer, ConnectModule, ConnectDB, ConnectRedis,
                                MakeSigner, ResolveOptions, SetupJobs, NewValidator, Start, Stop,
                                Drained, StopComponent, DieServer
      <4>3. QED
        BY <4>1, <4>2
    <3>3. QED
      BY <3>1, <3>2 DEF OneModule
  <2>3. QED
    BY <2>1, <2>2
<1>2. CASE DieParent
  BY <1>2 DEF DieParent, Die, OneModule, Instances
<1>3. CASE UNCHANGED <<pc, claimed>>
  BY <1>3 DEF OneModule
<1>4. CASE Others
  BY <1>2, <1>3, <1>4 DEF Others, ClientMoves, PinKeys, Answer, Refuse, Upgrade, Request,
                          Configure, life
<1>5. QED
  BY <1>1, <1>4, NextMoves

-----------------------------------------------------------------------------
(* The keys of the fleet.                                                  *)

\* Tables only gain keys, each the true one.
LEMMA TablesGrow ==
  ASSUME IInv, Next
  PROVE  /\ \A k \in Kids : release'[k] \in {SeedOf[k], None}
         /\ \A cl \in Clients : \A k \in Kids :
              /\ table'[cl][k] \in {release'[k], None}
              /\ table[cl][k] # None => table'[cl][k] = table[cl][k]
<1>1. TypeOK /\ KeysPinned
  BY DEF IInv
<1>2. CASE UNCHANGED <<release, table>>
  BY <1>1, <1>2 DEF KeysPinned
<1>3. ASSUME NEW i \in Instances, PinKeys(i)
      PROVE  /\ \A k \in Kids : release'[k] \in {SeedOf[k], None}
             /\ \A k \in Kids : release[k] # None => release'[k] = release[k]
             /\ table' = table
  <2> DEFINE shown == PublicKeys(ResolveSigner(conf[i]))
  <2>1. conf[i] \in Configs /\ ResolveSigner(conf[i]) # None
    BY <1>3 DEF PinKeys, IInv, TypeOK, Validated, ValidAt
  <2>2. \A k \in Kids : shown[k] \in {SeedOf[k], None}
    BY <2>1, SignerOfConfig DEF PublicKeys
  <2>3. /\ release' = [k \in Kids |-> IF release[k] = None THEN shown[k] ELSE release[k]]
        /\ table' = table
    BY <1>3 DEF PinKeys
  <2> HIDE DEF shown
  <2>4. QED
    BY <1>1, <2>2, <2>3 DEF KeysPinned
<1>4. ASSUME NEW c \in Clients, Upgrade(c)
      PROVE  /\ release' = release /\ table' = [table EXCEPT ![c] = release]
  BY <1>4 DEF Upgrade
<1>5. ASSUME NEW i \in Instances, PinKeys(i)
      PROVE  /\ \A k \in Kids : release'[k] \in {SeedOf[k], None}
             /\ \A cl \in Clients : \A k \in Kids :
                  /\ table'[cl][k] \in {release'[k], None}
                  /\ table[cl][k] # None => table'[cl][k] = table[cl][k]
  BY <1>1, <1>3, <1>5 DEF KeysPinned
<1>6. ASSUME NEW c \in Clients, Upgrade(c)
      PROVE  /\ \A k \in Kids : release'[k] \in {SeedOf[k], None}
             /\ \A cl \in Clients : \A k \in Kids :
                  /\ table'[cl][k] \in {release'[k], None}
                  /\ table[cl][k] # None => table'[cl][k] = table[cl][k]
  BY <1>1, <1>4, <1>6 DEF KeysPinned, TypeOK
<1>7. CASE Others
  BY <1>2, <1>5, <1>6, <1>7 DEF Others, ClientMoves, DieParent, Die, Answer, Refuse, Request,
                                Configure, rotation
<1>8. ASSUME NEW i \in Instances, Step(i)
      PROVE  UNCHANGED <<release, table>>
  BY <1>1, <1>8, StepIsLocal
<1>9. QED
  BY <1>2, <1>7, <1>8, NextMoves

\* The kid that c means is pinned in the tables of the next state.
PinnedNext(c) ==
  MeantKid(c) \in Kids => \A cl \in Clients : table'[cl][MeantKid(c)] = SeedOf[MeantKid(c)]

\* What was pinned stays pinned.
LEMMA MeantStaysPinned ==
  ASSUME IInv, Next, NEW c, MeantIsPinned(c)
  PROVE  PinnedNext(c)
<1>1. SUFFICES ASSUME MeantKid(c) \in Kids, NEW cl \in Clients
               PROVE  table'[cl][MeantKid(c)] = SeedOf[MeantKid(c)]
  BY DEF PinnedNext
<1>2. table[cl][MeantKid(c)] = SeedOf[MeantKid(c)]
  BY <1>1 DEF MeantIsPinned
<1>3. SeedOf[MeantKid(c)] # None
  BY <1>1, ConfigsAssumption, SignerMarks
<1>4. QED
  BY <1>1, <1>2, <1>3, TablesGrow


LEMMA KeysKept ==
  ASSUME IInv, Next
  PROVE  KeysPinned'
<1>1. TypeOK /\ KeysPinned
  BY DEF IInv
<1>2. /\ \A k \in Kids : release'[k] \in {SeedOf[k], None}
      /\ \A cl \in Clients : \A k \in Kids : table'[cl][k] \in {release'[k], None}
  BY TablesGrow
<1>3. PinnedNext(config')
  <2>1. CASE config' = config
    <3>1. MeantIsPinned(config)
      BY <1>1 DEF KeysPinned
    <3>2. \A c : MeantIsPinned(c) => PinnedNext(c)
      BY MeantStaysPinned
    <3>3. QED
      BY <2>1, <3>1, <3>2
  <2>2. CASE config' # config
    <3>1. PICK new \in Configs : Configure(new)
      <4>1. ~(\E i \in Instances : Step(i))
        BY <1>1, <2>2, StepIsLocal
      <4>2. Others
        BY <4>1, NextMoves
      <4>3. QED
        BY <2>2, <4>2 DEF Others, ClientMoves, PinKeys, DieParent, Die, Answer, Refuse,
                          Upgrade, Request, rotation
    <3>2. config' = new /\ table' = table
      BY <3>1 DEF Configure
    <3>3. ASSUME MeantKid(new) \in Kids, NEW cl \in Clients
          PROVE  table[cl][MeantKid(new)] = SeedOf[MeantKid(new)]
      BY <1>1, <3>1, <3>3 DEF Configure, Carried, KeysPinned
    <3>4. QED
      BY <3>2, <3>3 DEF PinnedNext
  <2>3. QED
    BY <2>1, <2>2
<1>4. ASSUME NEW i \in Instances, conf'[i] # None
      PROVE  PinnedNext(conf'[i])
  <2>1. conf'[i] \in {conf[i], config, None}
    <3>1. ASSUME NEW j \in Instances, Step(j)
          PROVE  conf'[i] \in {conf[i], config, None}
      <4>1. CASE i # j
        BY <1>1, <3>1, <4>1, StepIsLocal
      <4>2. CASE i = j
        BY <1>1, <3>1, <4>2
           DEF Step, LoadServer, ConnectModule, ConnectDB, ConnectRedis, MakeSigner,
               ResolveOptions, SetupJobs, NewValidator, Start, Stop, Drained, StopComponent,
               Stopped, DieServer, Die, TypeOK
      <4>3. QED
        BY <4>1, <4>2
    <3>2. CASE Others
      BY <3>2 DEF Others, ClientMoves, PinKeys, DieParent, Die, Answer, Refuse, Upgrade,
                  Request, Configure, life
    <3>3. QED
      BY <3>1, <3>2, NextMoves
  <2>2. MeantIsPinned(conf'[i])
    BY <1>1, <1>4, <2>1 DEF KeysPinned
  <2>3. \A c : MeantIsPinned(c) => PinnedNext(c)
    BY MeantStaysPinned
  <2>4. QED
    BY <2>2, <2>3
<1>5. QED
  BY <1>2, <1>3, <1>4 DEF KeysPinned, MeantIsPinned, PinnedNext

LEMMA AcceptanceKept ==
  ASSUME IInv, Next
  PROVE  FleetAccepts'
<1>1. TypeOK /\ KeysPinned /\ FleetAccepts
  BY DEF IInv
<1>2. ASSUME NEW c \in Clients, cert[c] # None
      PROVE  Accepts(table'[c], cert[c])
  <2>1. Accepts(table[c], cert[c])
    BY <1>1, <1>2 DEF FleetAccepts
  <2>2. table'[c][cert[c].kid] = table[c][cert[c].kid]
    BY <2>1, TablesGrow DEF Accepts
  <2>3. QED
    BY <2>1, <2>2 DEF Accepts, Verify
<1>3. CASE cert' = cert
  BY <1>2, <1>3 DEF FleetAccepts
<1>4. ASSUME NEW c \in Clients, Answer(c)
      PROVE  FleetAccepts'
  <2> DEFINE k == MeantKid(conf[call[c]])
             signed == SignCert(ResolveSigner(conf[call[c]]))
  <2>1. call[c] # None /\ table' = table
    BY <1>4 DEF Answer, rotation
  <2>2. /\ call[c] \in Instances /\ conf[call[c]] \in Configs
        /\ k \in Kids /\ SeedOf[k] \in Seeds
        /\ signed = [kid |-> k, sig |-> SeedOf[k]]
    BY <2>1, Signed
  <2>3. table[c][k] = SeedOf[k]
    <3>1. conf[call[c]] # None
      BY <2>2, ConfigsAssumption
    <3>2. QED
      BY <1>1, <2>2, <3>1 DEF KeysPinned, MeantIsPinned
  <2>4. Accepts(table[c], signed)
    <3>1. SeedOf[k] # None
      BY <2>2, SignerMarks
    <3> HIDE DEF k, signed
    <3>2. signed.kid = k /\ signed.sig = SeedOf[k]
      BY <2>2
    <3>3. QED
      BY <2>2, <2>3, <3>1, <3>2 DEF Accepts, Verify
  <2>5. cert' = [cert EXCEPT ![c] = IF signed = None THEN @ ELSE signed]
    BY <1>4 DEF Answer
  <2>6. ASSUME NEW d \in Clients, cert'[d] # None
        PROVE  Accepts(table'[d], cert'[d])
    <3>1. CASE d = c /\ signed # None
      <4> HIDE DEF signed
      <4>1. cert'[d] = signed
        BY <1>1, <2>5, <3>1 DEF TypeOK
      <4>2. QED
        BY <2>1, <2>4, <3>1, <4>1
    <3>2. CASE d # c \/ signed = None
      <4> HIDE DEF signed
      <4>1. cert'[d] = cert[d]
        BY <1>1, <2>5, <3>2 DEF TypeOK
      <4>2. QED
        BY <1>2, <2>6, <4>1
    <3>3. QED
      BY <3>1, <3>2
  <2>7. QED
    BY <2>6 DEF FleetAccepts
<1>5. ASSUME NEW i \in Instances, Step(i)
      PROVE  cert' = cert
  BY <1>1, <1>5, StepIsLocal
<1>6. CASE Others
  BY <1>3, <1>4, <1>6 DEF Others, ClientMoves, PinKeys, DieParent, Die, Refuse, Upgrade,
                          Request, Configure, traffic
<1>7. QED
  BY <1>3, <1>5, <1>6, NextMoves

-----------------------------------------------------------------------------
(* The theorems.                                                           *)

LEMMA InitIInv == Init => IInv
<1> SUFFICES ASSUME Init
             PROVE  IInv
  OBVIOUS
<1> USE DEF Init
<1>1. TypeOK
  <2>1. release \in [Kids -> Seeds \cup {None}] /\ config \in Configs
    BY ConfigsAssumption
  <2>2. << >> \in Seq(Resources \cup {"jobs"})
    OBVIOUS
  <2>3. QED
    BY <2>1, <2>2 DEF TypeOK, Stages
<1>2. Registered
  <2>1. DOMAIN << >> = {}
    OBVIOUS
  <2>2. \A i \in Instances : open[i] = {} /\ DOMAIN mgr[i] = {}
    BY <2>1
  <2>3. QED
    BY <2>2 DEF Registered
<1>3. MadeSoFar
  BY DEF MadeSoFar, OpenAt
<1>4. Validated
  BY DEF Validated, ValidAt
<1>5. ServersDropOnly
  BY DEF ServersDropOnly, Instances
<1>6. CallsAtLive /\ FleetAccepts /\ SharedStayOpen
  BY DEF CallsAtLive, FleetAccepts, SharedStayOpen
<1>7. OneModule
  BY DEF OneModule, Instances
<1>8. KeysPinned
  BY DEF KeysPinned, MeantIsPinned
<1>9. QED
  BY <1>1, <1>2, <1>3, <1>4, <1>5, <1>6, <1>7, <1>8 DEF IInv

LEMMA NextIInv == IInv /\ [Next]_vars => IInv'
<1> SUFFICES ASSUME IInv, [Next]_vars
             PROVE  IInv'
  OBVIOUS
<1> USE DEF IInv
<1>1. CASE Next
  <2>1. TypeOK'
    BY <1>1, NextMoves, StepType, OthersType
  <2>2. Registered' /\ MadeSoFar'
    BY <1>1, NextMoves, StepKeepsMade, OthersKeepMade
  <2>3. Validated' /\ ServersDropOnly' /\ CallsAtLive'
    BY <1>1, ValidatedKept, DropOnlyKept, CallsKept
  <2>4. SharedStayOpen' /\ OneModule'
    BY <1>1, SharedKept, ClaimKept
  <2>5. KeysPinned' /\ FleetAccepts'
    BY <1>1, KeysKept, AcceptanceKept
  <2>6. QED
    BY <2>1, <2>2, <2>3, <2>4, <2>5
<1>2. CASE UNCHANGED vars
  BY <1>2 DEF vars, rotation, traffic, life, TypeOK, Registered, MadeSoFar, Validated,
              ServersDropOnly, CallsAtLive, KeysPinned, MeantIsPinned, FleetAccepts,
              SharedStayOpen, OneModule
<1>3. QED
  BY <1>1, <1>2

\* The inductive invariant holds of every deployment.
THEOREM DeploymentInvariant == Spec => []IInv
  BY InitIInv, NextIInv, PTL DEF Spec

\* A rotation by the procedure never makes a client refuse a certificate, with
\* any number of replicas on any mixture of configurations.  (NewSigner, Sign)
THEOREM RotationKeepsFleet == Spec => []FleetAccepts
<1>1. IInv => FleetAccepts
  BY DEF IInv
<1>2. QED
  BY <1>1, DeploymentInvariant, PTL

\* No call meets a closed resource or a signer without its key, until the very
\* end of a stop.  (Server.Stop, service.New)
THEOREM CallsFindTheirService == Spec => []CallsAreServed
<1>1. IInv => CallsAreServed
  <2> SUFFICES ASSUME IInv, NEW c \in Clients, call[c] # None
               PROVE  /\ \A r \in Resources : Usable(call[c], r)
                      /\ conf[call[c]] # None /\ ResolveSigner(conf[call[c]]) # None
                      /\ Ready(ResolveSigner(conf[call[c]])) /\ conf[call[c]].knobs
    BY DEF CallsAreServed
  <2> DEFINE i == call[c]
  <2>1. i \in Instances /\ pc[i] \in {"up", "draining"}
    BY DEF IInv, TypeOK, CallsAtLive
  <2>2. open[i] = Own(i) \cup {"jobs"} /\ shared = Resources
    BY <2>1 DEF IInv, MadeSoFar, OpenAt, SharedStayOpen
  <2>3. \A r \in Resources : Usable(i, r)
    BY <2>1, <2>2, OwnFacts DEF Usable
  <2>4. conf[i] \in Configs /\ conf[i] # None /\ ResolveSigner(conf[i]) # None /\ conf[i].knobs
    BY <2>1 DEF IInv, TypeOK, Validated, ValidAt
  <2>5. Ready(ResolveSigner(conf[i]))
    BY <2>4, SignerOfConfig DEF Ready
  <2>6. QED
    BY <2>3, <2>4, <2>5
<1>2. QED
  BY <1>1, DeploymentInvariant, PTL

\* A failed construction is rolled back completely, wherever it fails, and a
\* stop closes everything.  (service.New, Service.Stop)
THEOREM RollbackIsComplete == Spec => []NothingLeftOpen
<1>1. IInv => NothingLeftOpen
  BY DEF IInv, MadeSoFar, OpenAt, NothingLeftOpen
<1>2. QED
  BY <1>1, DeploymentInvariant, PTL

\* What a component uses outlives it.  (the order of lifecycle.Manager.Stop)
THEOREM StopsInReverse == Spec => []ClosedInReverse
<1>1. IInv => ClosedInReverse
  <2> SUFFICES ASSUME IInv, NEW i \in Instances
               PROVE  /\ "jobs" \in open[i] => \A r \in Resources : Usable(i, r)
                      /\ "redis" \in open[i] => Usable(i, "db")
    BY DEF ClosedInReverse
  <2>1. \A r \in open[i] : \A x \in Own(i) : Rank[x] < Rank[r] => x \in open[i]
    BY DEF IInv, MadeSoFar, OpenAt
  <2>2. shared = Resources
    BY DEF IInv, SharedStayOpen
  <2>3. ASSUME NEW r \in open[i], NEW x \in Resources, Rank[x] < Rank[r]
        PROVE  Usable(i, x)
    BY <2>1, <2>2, <2>3, OwnFacts DEF Usable
  <2>4. QED
    BY <2>3, Ranks, OwnFacts
<1>2. QED
  BY <1>1, DeploymentInvariant, PTL

\* The claim admits one module to a process, and comes free with it.  (Connect)
THEOREM ModulesKeepToThemselves == Spec => []OneModule
<1>1. IInv => OneModule
  BY DEF IInv
<1>2. QED
  BY <1>1, DeploymentInvariant, PTL

\* No rollback and no stop of a module closes what its parent has given it.
\* (dbx.Connect, redisx.Connect, service.New)
THEOREM ParentKeepsItsOwn == Spec => []SharedStayOpen
<1>1. IInv => SharedStayOpen
  BY DEF IInv
<1>2. QED
  BY <1>1, DeploymentInvariant, PTL

=============================================================================
