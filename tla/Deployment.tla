----------------------------- MODULE Deployment -----------------------------
(***************************************************************************)
(* A deployment of the service: servers of their own (pkg.NewServer) and   *)
(* modules embedded in one parent process (pkg.Connect), built, started    *)
(* and stopped while the operator rotates the signing keys and clients     *)
(* with pinned key tables ask for certificates.                            *)
(*                                                                         *)
(* Each instance reads the configuration when it is built and keeps it, so *)
(* that instances with different configurations run side by side.          *)
(***************************************************************************)
EXTENDS Signer

CONSTANTS
  Servers,        \* instances that are processes of their own
  Consumers,      \* instances embedded in the parent process
  Clients,        \* installations of the client, each with a key table
  Injected,       \* instance -> the resources its builder injects
  Configs,        \* the configurations the operator ever deploys
  SeedOf          \* kid -> the seed that belongs to it

Instances == Servers \cup Consumers

Config == [keys : Seq(SigningKey \cup {Nil}), signKeyID : Kids \cup {Empty}, knobs : BOOLEAN]

Resources == {"db", "redis"}

ASSUME InstancesAssumption == /\ Servers \cap Consumers = {} /\ None \notin Instances
                              /\ Injected \in [Instances -> SUBSET Resources]
                              /\ \A s \in Servers : Injected[s] = {}

\* A kid is never given another seed, except by the mistake of listing it twice.
ASSUME ConfigsAssumption ==
  /\ Configs \subseteq Config /\ None \notin Configs
  /\ SeedOf \in [Kids -> Seeds]
  /\ \A c \in Configs : ~Duplicate(c) =>
       \A i \in Listed(c) : c.keys[i].kid \in Kids
                              => c.keys[i].seed \in {SeedOf[c.keys[i].kid], Malformed}

VARIABLES
  config,         \* the configuration an instance would load now
  release,        \* the key table of the current client release
  table,          \* client -> the key table it carries
  call,           \* client -> the instance that serves its call, or None
  cert,           \* client -> the certificate it was last given, or None
  pc,             \* instance -> where its construction, life or stop stands
  conf,           \* instance -> the configuration it has loaded, or None
  mgr,            \* instance -> components its lifecycle manager has registered
  open,           \* instance -> components it has created and not yet closed
  shared,         \* resources of the parent process that are open
  claimed         \* moduleClaim of the parent process

rotation == <<config, release, table>>
traffic  == <<call, cert>>
life     == <<pc, conf, mgr, open, shared, claimed>>
vars     == <<rotation, traffic, life>>

Stages == {"off", "db", "redis", "signer", "options", "jobs", "validator", "built",
           "up", "draining", "closing", "dropped"}

TypeOK ==
  /\ config \in Configs
  /\ release \in [Kids -> Seeds \cup {None}]
  /\ table \in [Clients -> [Kids -> Seeds \cup {None}]]
  /\ call \in [Clients -> Instances \cup {None}]
  /\ cert \in [Clients -> [kid : Kids, sig : Seeds] \cup {None}]
  /\ pc \in [Instances -> Stages]
  /\ conf \in [Instances -> Configs \cup {None}]
  /\ mgr \in [Instances -> Seq(Resources \cup {"jobs"})]
  /\ open \in [Instances -> SUBSET (Resources \cup {"jobs"})]
  /\ shared \subseteq Resources
  /\ claimed \in BOOLEAN

\* The kid a configuration is meant to sign with: the one selected, or the only one.
MeantKid(c) ==
  IF c.signKeyID # Empty THEN c.signKeyID
  ELSE IF \E i \in DOMAIN c.keys : Listed(c) = {i}
       THEN c.keys[CHOOSE i \in Listed(c) : TRUE].kid
       ELSE Empty

\* The fleet carries kid k.
Carried(k) == \A c \in Clients : table[c][k] # None

\* The key of the first release is pinned before the first deployment.
Init ==
  /\ config \in {c \in Configs : MeantKid(c) \in Kids}
  /\ release = [k \in Kids |-> IF k = MeantKid(config) THEN SeedOf[k] ELSE None]
  /\ table = [c \in Clients |-> release]
  /\ call = [c \in Clients |-> None]
  /\ cert = [c \in Clients |-> None]
  /\ pc = [i \in Instances |-> "off"]
  /\ conf = [i \in Instances |-> None]
  /\ mgr = [i \in Instances |-> << >>]
  /\ open = [i \in Instances |-> {}]
  /\ shared = Resources
  /\ claimed = FALSE

-----------------------------------------------------------------------------
(* Construction: service.New, NewServer and Connect.                       *)

Goto(i, stage) == pc' = [pc EXCEPT ![i] = stage]

\* Bug: the scheduler is not registered.
CreateUnregistered(i, r) ==
  /\ open' = [open EXCEPT ![i] = @ \cup {r}]
  /\ mgr'  = IF r = "jobs" THEN mgr ELSE [mgr EXCEPT ![i] = Append(@, r)]

\* A component built here is registered with the manager and closed by it.
Create(i, r) == /\ open' = [open EXCEPT ![i] = @ \cup {r}]
             /\ mgr'  = [mgr EXCEPT ![i] = Append(@, r)]

\* Bug: an injected resource is registered like one of its own.
ConnectRegisters(i, r, next) ==
  \/ /\ Goto(i, next)
     /\ mgr' = [mgr EXCEPT ![i] = Append(@, r)]
     /\ open' = IF r \in Injected[i] THEN open ELSE [open EXCEPT ![i] = @ \cup {r}]
  \/ /\ r \notin Injected[i]
     /\ Goto(i, "closing")
     /\ UNCHANGED <<mgr, open>>

\* dbx.Connect, redisx.Connect: an injected resource is used as it is, its own
\* is created and registered, or cannot be and everything so far is stopped.
Connect(i, r, next) ==
  \/ /\ r \in Injected[i]
     /\ Goto(i, next)
     /\ UNCHANGED <<mgr, open>>
  \/ /\ r \notin Injected[i]
     /\ Create(i, r)
     /\ Goto(i, next)
  \/ /\ r \notin Injected[i]
     /\ Goto(i, "closing")
     /\ UNCHANGED <<mgr, open>>

\* The configuration is loaded and the construction begins.
LoadServer(i) ==
  /\ i \in Servers /\ pc[i] = "off"
  /\ Goto(i, "db")
  /\ conf' = [conf EXCEPT ![i] = config]
  /\ UNCHANGED <<rotation, traffic, mgr, open, shared, claimed>>

\* Bug: the claim is taken without a look.
ClaimBlindly == claimed' = TRUE

\* A second module of one process is refused: only a free claim starts one.
Claim == ~claimed /\ claimed' = TRUE

ConnectModule(i) ==
  /\ i \in Consumers /\ pc[i] = "off"
  /\ Claim
  /\ Goto(i, "db")
  /\ conf' = [conf EXCEPT ![i] = config]
  /\ UNCHANGED <<rotation, traffic, mgr, open, shared>>

ConnectDB(i) ==
  /\ pc[i] = "db"
  /\ Connect(i, "db", "redis")
  /\ UNCHANGED <<rotation, traffic, conf, shared, claimed>>

ConnectRedis(i) ==
  /\ pc[i] = "redis"
  /\ Connect(i, "redis", "signer")
  /\ UNCHANGED <<rotation, traffic, conf, shared, claimed>>

MakeSigner(i) ==
  /\ pc[i] = "signer"
  /\ Goto(i, IF ResolveSigner(conf[i]) # None THEN "options" ELSE "closing")
  /\ UNCHANGED <<rotation, traffic, conf, mgr, open, shared, claimed>>

\* resolveDomainOptions
ResolveOptions(i) ==
  /\ pc[i] = "options"
  /\ Goto(i, IF conf[i].knobs THEN "jobs" ELSE "closing")
  /\ UNCHANGED <<rotation, traffic, conf, mgr, open, shared, claimed>>

\* The scheduler is always the instance's own; a bad timezone is an error.
SetupJobs(i) ==
  /\ pc[i] = "jobs"
  /\ \/ /\ Create(i, "jobs")
        /\ Goto(i, IF i \in Servers THEN "validator" ELSE "built")
     \/ /\ Goto(i, "closing")
        /\ UNCHANGED <<mgr, open>>
  /\ UNCHANGED <<rotation, traffic, conf, shared, claimed>>

\* A server that gets no validator drops the finished service without stopping it.
NewValidator(i) ==
  /\ pc[i] = "validator"
  /\ Goto(i, "built") \/ Goto(i, "dropped")
  /\ UNCHANGED <<rotation, traffic, conf, mgr, open, shared, claimed>>

-----------------------------------------------------------------------------
(* Start, stop, and the death of a process.                                *)

\* Handler and gRPC server start; a gRPC server that cannot rolls back.
Start(i) ==
  /\ pc[i] = "built"
  /\ \/ Goto(i, "up")
     \/ i \in Servers /\ Goto(i, "closing")
  /\ UNCHANGED <<rotation, traffic, conf, mgr, open, shared, claimed>>

\* Bug: the service is stopped before the transport.
StopServiceFirst(i) ==
  /\ pc[i] = "up"
  /\ Goto(i, "closing")
  /\ UNCHANGED <<rotation, traffic, conf, mgr, open, shared, claimed>>

\* A server first stops its transport, which takes no new call; a module is
\* no longer called once its parent stops it, before or after its start.
Stop(i) ==
  /\ pc[i] = "up" \/ (i \in Consumers /\ pc[i] = "built")
  /\ Goto(i, "draining")
  /\ UNCHANGED <<rotation, traffic, conf, mgr, open, shared, claimed>>

\* The calls it serves are answered before the service is stopped.
Drained(i) ==
  /\ pc[i] = "draining"
  /\ \A c \in Clients : call[c] # i
  /\ Goto(i, "closing")
  /\ UNCHANGED <<rotation, traffic, conf, mgr, open, shared, claimed>>

\* Bug: the manager stops in the order of registration.
NextToStopFirst(i) == mgr[i][1]

\* The component the manager stops next: the last one registered.
NextToStop(i) == mgr[i][Len(mgr[i])]

Unstopped(i) == SubSeq(mgr[i], 1, Len(mgr[i]) - 1)

StopComponent(i) ==
  /\ pc[i] = "closing" /\ mgr[i] # << >>
  /\ IF NextToStop(i) \in Injected[i]
     THEN shared' = shared \ {NextToStop(i)} /\ UNCHANGED open
     ELSE open' = [open EXCEPT ![i] = @ \ {NextToStop(i)}] /\ UNCHANGED shared
  /\ mgr' = [mgr EXCEPT ![i] = Unstopped(i)]
  /\ UNCHANGED <<rotation, traffic, pc, conf, claimed>>

\* Stopped, or not built: the claim of a module is released.
Stopped(i) ==
  /\ pc[i] = "closing" /\ mgr[i] = << >>
  /\ Goto(i, "off")
  /\ conf' = [conf EXCEPT ![i] = None]
  /\ claimed' = (claimed /\ i \notin Consumers)
  /\ UNCHANGED <<rotation, traffic, mgr, open, shared>>

\* The end of a set of instances with their process: nothing is left of them.
Die(S) ==
  /\ pc'   = [i \in Instances |-> IF i \in S THEN "off" ELSE pc[i]]
  /\ conf' = [i \in Instances |-> IF i \in S THEN None ELSE conf[i]]
  /\ mgr'  = [i \in Instances |-> IF i \in S THEN << >> ELSE mgr[i]]
  /\ open' = [i \in Instances |-> IF i \in S THEN {} ELSE open[i]]
  /\ call' = [c \in Clients |-> IF call[c] \in S THEN None ELSE call[c]]
  /\ UNCHANGED <<rotation, cert>>

DieServer(i) ==
  /\ i \in Servers /\ pc[i] # "off"
  /\ Die({i})
  /\ UNCHANGED <<shared, claimed>>

DieParent ==
  /\ \E i \in Consumers : pc[i] # "off"
  /\ Die(Consumers)
  /\ shared' = Resources /\ claimed' = FALSE

-----------------------------------------------------------------------------
(* Certificates.                                                           *)

\* A call of a client reaches a running instance.
Request(c, i) ==
  /\ call[c] = None /\ pc[i] = "up"
  /\ call' = [call EXCEPT ![c] = i]
  /\ UNCHANGED <<rotation, life, cert>>

\* The handler has committed its transaction and signs.
Answer(c) ==
  /\ call[c] # None
  /\ LET signed == SignCert(ResolveSigner(conf[call[c]]))
     IN  cert' = [cert EXCEPT ![c] = IF signed = None THEN @ ELSE signed]
  /\ call' = [call EXCEPT ![c] = None]
  /\ UNCHANGED <<rotation, life>>

\* Refused, limited or failed before the signature.
Refuse(c) ==
  /\ call[c] # None
  /\ call' = [call EXCEPT ![c] = None]
  /\ UNCHANGED <<rotation, life, cert>>

-----------------------------------------------------------------------------
(* The operator, who follows the rotation procedure.                       *)

\* The next client release adds the keys that ShowPubKey of an instance lists.
PinKeys(i) ==
  /\ pc[i] = "up"
  /\ LET shown == PublicKeys(ResolveSigner(conf[i]))
     IN  release' = [k \in Kids |-> IF release[k] = None THEN shown[k] ELSE release[k]]
  /\ UNCHANGED <<config, table, traffic, life>>

Upgrade(c) ==
  /\ table[c] # release
  /\ table' = [table EXCEPT ![c] = release]
  /\ UNCHANGED <<config, release, traffic, life>>

\* Any change but a cutover to a kid that some client does not carry.
Configure(new) ==
  /\ new # config
  /\ MeantKid(new) \in Kids => Carried(MeantKid(new))
  /\ config' = new
  /\ UNCHANGED <<release, table, traffic, life>>

-----------------------------------------------------------------------------
Step(i) ==
  \/ LoadServer(i) \/ ConnectModule(i)
  \/ ConnectDB(i) \/ ConnectRedis(i) \/ MakeSigner(i) \/ ResolveOptions(i)
  \/ SetupJobs(i) \/ NewValidator(i)
  \/ Start(i) \/ Stop(i) \/ Drained(i) \/ StopComponent(i) \/ Stopped(i)
  \/ DieServer(i)

Next ==
  \/ \E i \in Instances : Step(i) \/ PinKeys(i)
  \/ DieParent
  \/ \E c \in Clients : Answer(c) \/ Refuse(c) \/ Upgrade(c)
                          \/ \E i \in Instances : Request(c, i)
  \/ \E new \in Configs : Configure(new)

Spec == Init /\ [][Next]_vars

-----------------------------------------------------------------------------
(* Properties.                                                             *)

\* An instance can use resource r.
Usable(i, r) == IF r \in Injected[i] THEN r \in shared ELSE r \in open[i]

\* An operator who follows the procedure never locks a client out: whatever
\* instance answers, with the configuration of whatever day, and however
\* configurations are mistaken on the way, the client accepts the certificate.
\* (NewSigner, resolveSigner, Sign; the procedure of SigningConfig.SignKeyID)
FleetAccepts == \A c \in Clients : cert[c] # None => Accepts(table[c], cert[c])

\* A call in progress, also one that a stopping instance still serves, finds
\* its database, its redis and a signer that is ready.  (Server.Stop, NewServer)
CallsAreServed ==
  \A c \in Clients : call[c] # None =>
    /\ \A r \in Resources : Usable(call[c], r)
    /\ conf[call[c]] # None /\ ResolveSigner(conf[call[c]]) # None
    /\ Ready(ResolveSigner(conf[call[c]])) /\ conf[call[c]].knobs

\* A construction that fails and an instance that stops close what they made,
\* wherever they fail; only a server without a validator is dropped with its
\* resources open.  (service.New, Server.Start, NewServer)
NothingLeftOpen == \A i \in Instances : pc[i] = "off" => open[i] = {}

\* No module closes what its parent has injected, in no failure and no stop.
\* (the own* rule of option.go)
SharedStayOpen == shared = Resources

\* The scheduler, whose jobs use them, is gone before redis and the database,
\* and redis before the database, also when a construction is rolled back.
ClosedInReverse ==
  \A i \in Instances :
    /\ "jobs" \in open[i] => \A r \in Resources : Usable(i, r)
    /\ "redis" \in open[i] => Usable(i, "db")

\* One process runs one module at most, and a module that failed or stopped
\* leaves the claim to the next.  (Connect, moduleClaim)
OneModule ==
  /\ \A i, j \in Consumers : i # j => pc[i] = "off" \/ pc[j] = "off"
  /\ claimed <=> \E i \in Consumers : pc[i] # "off"

-----------------------------------------------------------------------------
(* The inductive invariant of the proofs.                                  *)

Rank == [db |-> 1, redis |-> 2, jobs |-> 3]

\* The manager knows what is open, in the order it was made.
Registered ==
  \A i \in Instances :
    /\ open[i] = {mgr[i][k] : k \in DOMAIN mgr[i]}
    /\ \A k, l \in DOMAIN mgr[i] : k < l => Rank[mgr[i][k]] < Rank[mgr[i][l]]

Own(i) == Resources \ Injected[i]

\* What is open at each stage; a stop takes it away from the end.
OpenAt(i, stage, o) ==
  /\ stage \in {"off", "db"} => o = {}
  /\ stage = "redis" => o = {"db"} \cap Own(i)
  /\ stage \in {"signer", "options", "jobs"} => o = Own(i)
  /\ stage \in {"validator", "built", "up", "draining", "dropped"} => o = Own(i) \cup {"jobs"}
  /\ o \subseteq Own(i) \cup {"jobs"}
  /\ \A r \in o : \A x \in Own(i) : Rank[x] < Rank[r] => x \in o

MadeSoFar == \A i \in Instances : OpenAt(i, pc[i], open[i])

\* What has been validated at each stage.
ValidAt(stage, c) ==
  /\ stage = "off" <=> c = None
  /\ stage \in {"options", "jobs", "validator", "built", "up", "draining", "dropped"} =>
       ResolveSigner(c) # None
  /\ stage \in {"jobs", "validator", "built", "up", "draining", "dropped"} => c.knobs

Validated == \A i \in Instances : ValidAt(pc[i], conf[i])

ServersDropOnly == \A i \in Consumers : pc[i] \notin {"validator", "dropped"}

CallsAtLive == \A c \in Clients : call[c] # None => pc[call[c]] \in {"up", "draining"}

\* Clients know keys by their own seeds, no more than the release, and the key
\* that the present or a loaded configuration is meant to sign with.
MeantIsPinned(c) ==
  MeantKid(c) \in Kids => \A cl \in Clients : table[cl][MeantKid(c)] = SeedOf[MeantKid(c)]

KeysPinned ==
  /\ \A k \in Kids : release[k] \in {SeedOf[k], None}
  /\ \A cl \in Clients : \A k \in Kids : table[cl][k] \in {release[k], None}
  /\ MeantIsPinned(config)
  /\ \A i \in Instances : conf[i] # None => MeantIsPinned(conf[i])

IInv == /\ TypeOK /\ Registered /\ MadeSoFar /\ Validated /\ ServersDropOnly
        /\ CallsAtLive /\ KeysPinned /\ FleetAccepts /\ SharedStayOpen /\ OneModule

=============================================================================
