# Verification of the license service

TLA+ models of the license service, model-checked with TLC on small instances,
and proofs with TLAPS for every size. The models are translated from the Go
code; where a document or a comment says something else, a run shows the
difference (see *Findings*).

## The system

The service issues signed offline license certificates over gRPC. Client
applications call `Activate`, `Deactivate` and `TrialStart`; operators call the
admin surface. State lives in PostgreSQL, through GORM at the default READ
COMMITTED level; every multi-statement operation is one `db.Transaction`.
Redis holds the counters of the rate limiter and nothing else. Any number of
requests run concurrently, in goroutines of any number of server processes:
they meet only in the database.

| component | state | operations | hard behaviour | what makes it correct |
|---|---|---|---|---|
| slot discipline (`activation.go`, `admin.go`, `dal/key.go`, `dal/device.go`) | the `license_keys` row: `status`, `max_slots`; the `license_devices` rows of the key | `Activate`, keyed `TrialStart`, `Deactivate`, `KickDevice`, `UpdateKey`, `RevokeKey`, `UnrevokeKey`, `DeleteKey` | transactions interleave statement by statement; some lock the key row (`FOR UPDATE`), some do not; failures roll back; deadlocks | no activation enters a full roster or a key that is revoked; a slot is lost only to a request that names it; refusals have no effect; requests end |
| trial ledger (`activation.go`, `dal/trial.go`) | `license_trials` rows per fingerprint and module | `TrialStart`, `ResetTrial`, `ShowTrial` | concurrent starts collapse through `ON CONFLICT DO NOTHING`; the keyless list is read after the commit | one start per fingerprint and module; later calls resume it; certificates carry the ledger |
| entitlements (`admin.go`, `dal/entitlement.go`) | `license_entitlements` rows per key and module | `CreateKey` grants, `GrantModule`, `RevokeModule`, `DeleteKey` | read-modify-write of the expiry without a lock | extensions add up; perpetual has no expiry; a deleted key leaves only rows of writers that came late |
| key minting (`admin.go`, `key.go`) | a new key row | `CreateKey` | retry in a transaction that has failed | the plaintext shown belongs to the stored row |
| tenant gate and configurations (`tenantres`, `appauth.go`, `admin/app.go`, `admin/actor.go`) | `license_apps` rows | `Require`, `ensureTrusted`, the tenant-configuration requests | first-use creation races with itself and with deletion | a disabled tenant stays out until an operator enables or deletes its row; a scope sees only its tenants |
| rate limiter (`ratelimit.go`) | window counters in Redis | `allow` | fails open; counts refused requests too | at most the quota per window while Redis answers |
| signer (`cert`, `helper.go`) | the configured keys, the active key id | `resolveSigner`, `Sign`, `Verify`, `PublicKeys`, `Ready` | keys rotate while instances with old and new configurations run side by side, before clients with old and new key tables | a client accepts every certificate it is given; a flaw of the key material is an error at start-up |
| clients (`docs/wire-contract.md`; `pkg/client.go`, `pkg/interceptor`, `xcodes`) | what a device believes of its slot; calls in progress | activate, heartbeat, pick and evict, give up, retry; the mapping of errors to statuses | a call that is given up goes on; the device sees a status and nothing else | beliefs are true; only a bad license reads as one; one pick is enough; retries end |
| canonical JSON, key normalisation | none | pure functions | others re-spell the texts: escapes, blanks, order; lower case, separators | a certificate reads as it was signed and is written again byte for byte; every spelling is the one key |
| life cycle and jobs (`service.go`, `server.go`, `connect.go`, `jobs.go`) | the manager's list, open connections, the module claim of the process | `New`, `NewServer`, `Connect`, `Start`, `Stop` | failures half-way with some resources injected; stops while calls run; several consumers in one process | what was made is closed, what was injected is not, in reverse order; calls find their resources |
| migration (`migrate.go`), health | the schema | `Migrate`, `Health` | failure half-way; replicas that migrate together | steps can be repeated |
| handlers, client, configuration | none | forwarding | none | none |

`PROJECT.json` lists each component with its status, and each hazard with the
line where it bites and the properties that cover it.

## Modules

| module | what it is |
|---|---|
| `SlotLedger` | the abstract promise: a key has a status, a bound and a roster, and each request changes them in one step |
| `Slots` | the handlers, one action per SQL statement, with uncommitted writes, row locks, waits, deadlocks, failures and commits |
| `MCSlots` | workloads (sets of requests) for the runs |
| `SlotsProofs` | the inductive invariant of `Slots` and the theorems that follow from it |
| `TrialBook` | the abstract promise: a module's trial has one start, which stays until a reset |
| `TrialLedger` | the trial rows of one installation and the certificates issued to it, one action per SQL statement |
| `MCTrials` | workloads for the runs |
| `TrialProofs` | the inductive invariant of `TrialLedger` and the theorems that follow from it |
| `TenantGate` | the registry of gate rows, the calls that pass it and the operators that edit it, one action per SQL statement |
| `MCGate` | workloads for the runs |
| `TenantGateProofs` | the inductive invariant of `TenantGate` and the theorems that follow from it |
| `Grants` | the entitlement rows of one key and the key row's creation and deletion, one action per SQL statement |
| `MCGrants` | workloads for the runs |
| `GrantsProofs` | the inductive invariant of `Grants` and the theorems that follow from it |
| `Signer` | the signer as operators: from key material to a signer, from a signer to a signature, from a key table to a verdict |
| `Deployment` | servers and embedded modules that are built, started, stopped and killed while keys rotate and clients ask for certificates |
| `MCDeployment` | the configurations of a rotation, and who injects what |
| `DeploymentProofs` | the inductive invariant of `Deployment` and the theorems that follow from it |
| `Quota` | the abstract promise of the rate limiter: so many requests per window, and no window outlives its time |
| `Limiter` | the fixed-window counters and `allow`, with the fail-open path |
| `Clients` | the composition: devices that call through the gate, the limiter, the transaction and the error mapping, and read the answers; extends `Limiter` |
| `MCClients` | the initial key of the run |
| `ClientsProofs` | the inductive invariant of `Clients`, the refinements of `Quota` and `SlotLedger`, and the theorems that follow |
| `Canonical` | `MarshalCanonical` and `UnmarshalCanonical` as operators |
| `KeyText` | `GenerateKey` and `NormalizeKey` as operators |
| `Texts` | certificates and keys that others spell anew on their way |
| `MCTexts` | the certificates of the run |
| `Recursion` | what the proofs about texts need of functions defined by recursion: that they exist, and induction over their arguments |
| `TextsProofs` | what a parser of tokens makes of every spelling, and the two theorems about texts that follow |

### How `Slots` corresponds to the code

One license key is modelled; no request touches two, and rows of different keys
share no lock. Its state is `status` and `maxSlots` (the key row, `"deleted"`
when there is none), `dev` (the committed device rows, from token to
fingerprint), and `keyLock`, the transaction that holds the key row. Each process has the
statement it is at (`pc`), its request (`req`), the values the handler keeps
between statements (`loc`: `k.MaxSlots`, `before`, `released`), its uncommitted writes
(`wr`) and its last answer (`reply`).

| actions | code |
|---|---|
| `Receive` | a handler is called; the tenant gate and the rate limiter are in front of it |
| `GetKeyForUpdate` | `SELECT … FOR UPDATE` and the returns for a missing or revoked key |
| `CheckEntitled` | the `ALREADY_ENTITLED` return of a keyed `TrialStart`; either outcome is possible, the entitlements are not in this module |
| `Evict`, `GetDevice`, `TouchDevice`, `CountDevices`, `InsertDevice` | the statements of `occupySlot`, in order |
| `CountBefore`, `DeleteDevice`, `CountAfter` | the body of `Deactivate` and of `KickDevice` |
| `ResolveKey`, `UpdateKeyRow` | `resolveKey`, then the update and read-back of `UpdateKey`, `RevokeKey`, `UnrevokeKey` |
| `ScanDevices`, `PurgeDevice`, `DeleteKeyRow` | the two deletes of `DeleteKey`; the delete of the device rows takes its rows one by one |
| `Commit` | COMMIT; `NewStatus`, `NewMaxSlots`, `NewRoster` say what it publishes |
| `SignCert` | what an activation does after its transaction |
| `Fail`, `DeadlockVictim` | any statement fails, or the database picks it to end a deadlock: ROLLBACK and an internal error |

The database is modelled from how the handlers use it, and marked external in
the map. A statement reads the committed rows under its transaction's own writes (`View`). A write waits for
a transaction with an uncommitted write on the row (`RowHolders`,
`KeyHolders`, `keyLock`); deletes and updates of a row the statement does not
see affect nothing and wait for nobody. A multi-row delete works on the rows
that were visible when it began, skips those another transaction has deleted
since, and does not see new ones.

Left out: hashes and masking, logging, rosters and `KeyInfo` that reach only the reply, an
`UpdateKey` of the label alone (it locks the key row and changes nothing this
module has), and the rows of other tables, which lie behind the lock of the key
row or are not locked by these requests.

### How `TrialLedger` corresponds to the code

One fingerprint is modelled: `ledger` holds its committed `license_trials` rows
(module to start), `ents` the entitlement rows of the one key its requests
present. `begun` is a history variable: every row that has ever been committed.
A request writes at most the row of its module, so a transaction's uncommitted write is one value
(`wr`). The clock is a counter that advances at any time.

| actions | code |
|---|---|
| `GetKeyForUpdate`, `CheckEntitled`, `OccupySlot` | the key and slot half of a keyed `TrialStart` and of `Activate`: it holds the key row and may refuse, for the reasons that are in `Slots` |
| `ListEntitlements`, `ListTrials` | what `Activate` reads for its certificate |
| `GetTrial`, `InsertTrialOnConflictDoNothing`, `RereadTrial` | the ledger half of `TrialStart`; a re-read that finds no row, because a reset came in between, is an internal error, as in the code |
| `FindTrial`, `ScanTrial`, `DeleteTrial` | `ResetTrial`: SELECT, then DELETE, which finds its row and may have to wait for it |
| `Commit` | COMMIT; a keyed `TrialStart` then signs with the one row it has, a keyless one goes on to list the ledger; a DELETE that waited for the row of a reset goes on without it (`AfterReset`) |
| `ListLedger`, `SignCert` | the list outside the transaction, and `signCert` with its priority of key entries (`Certificate`) |
| `Tick`, `ChangeEntitlement` | the surroundings: time, and the grants, which take no lock of these transactions |

`INSERT … ON CONFLICT DO NOTHING` waits for a transaction that has inserted or
deleted the row and then looks again. The rows and locks of the slots, the
certificate's other fields and `FirstDeviceToken`, which is for audits, are left out.

### How `TenantGate` corresponds to the code

`apps` is the table `license_apps`: from row id to `key`, `tenant` (or NULL) and
`disabled`. There are no transactions here: every statement commits by itself,
and the model has no uncommitted writes. `loc` keeps what a handler holds between statements: the
tenant it works for, the minted key, the row id it has loaded. Three history
variables: `removals`, the requests during which the row of their tenant was deleted; `barred`, the
tenants whose row an operator has disabled and since then neither enabled nor deleted; `admissible`,
the calls whose tenant was not barred at some moment since they arrived. Initially the registry is
any that earlier releases and the migration can have left, rows without a
tenant included.

| actions | code |
|---|---|
| `Receive` | `Require` and `scopeFromCtx`: without a trusted identity the request ends here |
| `MintAppKey` | `mintUniqueAppKey`, at most 3 candidates, and `clampTenantKey` |
| `SelectByTenant`, `SelectByKey` | the two SELECTs of `GetAppForTenant`; `UseRow` is what each caller makes of the row it finds |
| `EnsureTenantApp` | `INSERT … ON CONFLICT DO NOTHING` of a first call; the gate then looks again, once |
| `CreateApp`, `UpdateApp`, `DeleteApp`, `ListApps` | the last statement of the operators' requests; update and delete go by id and match no row when it is gone |
| `Fail` | any statement fails; what earlier ones wrote stays |
| `Backfill` | the migration's fill of `tenant_key`, while requests are running |

Left out: names, times, the parsing of the gateway's headers, the row's secret
and the order of a list.

### How `Grants` corresponds to the code

One key hash is modelled: `key` says whether its row is committed, `ents` holds the
committed `license_entitlements` rows (kind and expiry), `wr` each transaction's
uncommitted writes on both. `loc` keeps `now`, `attempt`, the grant a `CreateKey` is
at (`next`) and the expiry a `GrantModule` has read (`current`). Four history
variables: `superseded`, the grants whose row another transaction has changed between their read
and their upsert; `unseen`, for each `DeleteKey` the modules whose row was committed after its
DELETE had looked; `late`, the grants that had resolved the key when its deletion committed;
`stray`, the modules with a row that the deletion did not see or that a late grant has added.

| actions | code |
|---|---|
| `Receive` | a handler is called by a platform operator, takes `time.Now()` and begins its transaction |
| `MintKey` | the retry loop of `CreateKey` for a candidate with this hash; after a unique violation PostgreSQL fails the next INSERT, so the retry ends in an error |
| `ResolveKey`, `GetEntitlement` | the SELECTs of `GrantModule`, `RevokeModule` and `DeleteKey`; none locks |
| `UpsertEntitlement` | `grantRow` with `resolveExpiry` (`Expiry`, `Later`) and the upsert, for `GrantModule` and for each grant of `CreateKey` in order |
| `ScanEntitlements`, `PurgeEntitlement` | DELETE of one module's row or of all: its snapshot, then row by row |
| `DeleteKeyRow`, `Commit` | the end of `DeleteKey`; COMMIT |
| `ShowCreatedKey` | `keyToProto` after the transaction of `CreateKey` |
| `Fail`, `DeadlockVictim`, `Tick` | as in the other modules |

The devices of `DeleteKey` are in `Slots`. Left out: `granted_at`, the replies, the
plaintext and its hash, and durations in days rather than in units of the clock.
`MaxTime` is the last time the database can store; a later one is an error.

### How `Signer` and `Deployment` correspond to the code

`Signer` has no state. A public key is named by the seed it is derived from, and a signature by the
seed that made it, so `Verify` compares the two; the canonical bytes are the
same on both sides and left out. `ResolveSigner`, `NewSigner`, `Sign`, `PublicKeys` and `Ready`
are the functions of these names.

`Deployment` runs any number of instances: servers, each a process of its own, and modules of one
parent process, to which the parent may inject the database or redis (`Injected`). An
instance keeps the configuration it has read (`conf`), what its lifecycle manager has
registered (`mgr`), what it has open (`open`), and the point of its construction or
stop (`pc`). The parent process has its own resources (`shared`) and `moduleClaim`
(`claimed`). Clients carry a key table (`table`), the next release's is `release`.

| actions | code |
|---|---|
| `LoadServer`, `ConnectModule` | `runServer` up to `NewServer`; `Connect` in module mode, up to the claim |
| `ConnectDB`, `ConnectRedis`, `MakeSigner`, `ResolveOptions`, `SetupJobs` | the five resolves of `service.New`; each may fail and goes to the rollback |
| `NewValidator` | `protovalidate.New` in `NewServer`; its failure drops the finished service (`"dropped"`) |
| `Start`, `Stop`, `Drained` | `Server.Start` with its rollback; `Server.Stop`, which drains the transport and then stops the service; `Handler.Start` and `Handler.Stop` of a module |
| `StopComponent`, `Stopped` | `Manager.Stop`, component by component from the last registered, also for the rollbacks; the claim is released |
| `DieServer`, `DieParent` | the end of a process at any moment |
| `Request`, `Answer`, `Refuse` | a call up to `signCert`, which signs with the active key; what it does to the database is in the other modules |
| `PinKeys`, `Upgrade`, `Configure` | the rotation procedure of `SigningConfig.SignKeyID` and `design.md:408`: pin what `ShowPubKey` lists, upgrade clients, then cut over |

`dbx`, `redisx`, `grpcx` and `lifecycle` are libraries outside the repository. Of them the
model assumes what the code relies on: `Connect` registers what it creates and nothing it is
given, a manager stops in reverse order of registration, a server's `Stop` waits for its
calls. Of the embedder it assumes what `handler/license.go:48-49` asks: it does not call a handler it is
stopping. Left out: `Ping` and `Health`, which only read, `Connect` in grpc mode, and
clients that go back to an older release.

### How `Limiter` and `Clients` correspond to the code

`Limiter` keeps per target (key hash and device token) the counter in Redis (`count`), the
ticks to its expiry (`left`), and, as a history variable, the requests let through in the window
(`passed`). A request is counted before it is judged, refused ones included. `count` stops at
`Max`: one more refusal makes no difference. The library behind `allow` is modelled from how `ratelimit.go` and
its tests use it, and marked external; its other failure, an error with or without the count, is
`Unavailable`.

`Clients` composes the components in front of one key. A call (`call`) is at its entry, in its
transaction, or answered; the transaction is one step, `Activate` or `Deactivate`, because `Slots`
implements `SlotLedger`, whose requests are single steps. A heartbeat whose row is released
while it runs (`Miss` of `SlotLedger`) is a heartbeat before that release, and the row an
activation can leave behind a deleted key (`slots_orphans`) is not in this module: nothing asks
for it once the key is gone.

| actions | code |
|---|---|
| `Send` | the device activates, heartbeats, releases, or names a device from the picker that its last answer has shown; with no answer on its screen it may do so at any time |
| `GiveUp` | 15 seconds without an answer (`wire-contract.md:56`): the handler goes on, as the call `Stray`, or the answer is lost |
| `Enter` | `requireCaller` and `limiter.allow`; the gate row is reduced to `door`, its creation and lookup are in `TenantGate` |
| `Activate`, `Deactivate` | the transactions, with `Occupy` and `Full` for `occupySlot` |
| `Fail` | a statement, the signer or the outcome of COMMIT fails: `internal`, or a bare error; after a COMMIT the work stands |
| `Answer` | the device reads the HTTP status, and nothing else (`wire-contract.md:51`), through `GRPC` (the interceptor), `HTTP` (the gateway) and `Reading` |
| `SetDoor`, `SetStatus`, `SetSlots`, `KickDevice` | `UpdateTenantConfig`; `RevokeKey`, `UnrevokeKey`, `DeleteKey`; `UpdateKey`; `KickDevice` |

`sure` is a history variable: the devices that have missed nothing since their last answer.
A device leaves it when it asks again without a picker, gives up, reads a fault, or the roster
changes under it. Left out: fingerprints, certificates, the details of statuses, `BAD_KEY_FORMAT`
(a device sends a well-formed key), and `TrialStart`, which has counters of its own.

### How `Canonical`, `KeyText` and `Texts` correspond to the code

A text is a sequence of symbols: the bytes that the grammar and the escapes tell apart, and one symbol
each for a member's name, a literal and a time stamp. The operators have the
names of the functions. `Texts` puts a certificate and a key on their way:
`Reorder`, `InsertBlank` and `EscapeNeedlessly` are what a store or a proxy of JSON may do to a text,
`TypeLower`, `InsertSeparator` and `LeaveOutDash` what people do to a key. A time has a part
below the second, which `formatTime` cuts off, so what is read back is the payload to the second
(`AsRead`).

## Runs

| run | instance | question |
|---|---|---|
| `slots_pairs` | 2 processes, 3 tokens, 2 fingerprints, bounds {1, 2}, all requests | `IInv` (with `TypeOK`), `NoDoubleInsert`, `DeadlockNeedsDeleteKey`, `SlotLostOnlyByName`, `RefusalLeavesNoTrace`, `ImplementsLedger` |
| `slots_live` | 2 processes, 2 tokens, bound 2, all requests | `EveryRequestAnswered` under `FairSpec` |
| `slots_orphans`, `slots_released` | 2 processes, 2 tokens | the disagreements about devices below |
| `trials` | 2 processes, 1 module, a trial of 1 day, clock up to 1, entitlements absent, perpetual or ending at 1, all requests | `IInv`, `CertShowsCommittedTrials`, `NoRingOfWaits`, `ImplementsBook`, `EveryRequestAnswered` |
| `gate` | 2 processes, 2 tenants, 1 app key to mint, 2 row ids, calls with and without identity, operators of the platform and of one tenant | `IInv`, `OneRowPerTenant`, `SeesOwnTenant`, `AbsentMeansDeleted`, `BarredStayOut`, `StepsKeepToTheirTenant` |
| `grants` | 2 processes, 2 modules, clock up to 1, times up to 2, grants of days, with an end, for ever and invalid, all requests | `IInv`, `KindMatchesExpiry`, `OrphansCameLate`, `RingsContainDeleteKey`, `CreatedWhole`, `ExtensionLostOnlyToOverlap`, `EveryRequestAnswered` |
| `deployment` | 1 server, 2 modules of one parent (one is given both resources, one the database), 2 kids, 2 clients, 4 right and 4 mistaken configurations | `IInv`, `FleetAccepts`, `CallsAreServed`, `NothingLeftOpen`, `SharedStayOpen`, `ClosedInReverse`, `OneModule` |
| `clients` | 2 devices, one slot at first, bounds {1, 2}, a quota of 1 per 2 ticks, 2 troubles | `IInv`, `BeliefHolds`, `InvalidOnlyIfBad`, `PickIsEnough`, `ImplementsQuota`, `AnsweredInTheEnd` |
| `texts` | 3 certificates, all keys of 2 groups of 2 letters, 2 edits | `ReadsAndRewritesAsSigned`, `OneKeyHoweverTyped` |
| `trials_started`, `trials_merged` | 2 processes and 1 module, 1 process and 2 modules | the two disagreements about trials below |

Bounds. Two tokens are enough for the boundary of the slot count: with
`max_slots` 1 the second device meets a full roster and has one to evict, with 2
the roster fills and the bound can shrink under it; the third meets a roster that is
full at 2. Two processes show every race of two transactions; longer queues and
rings are covered by the proofs, which are for any number. The
second fingerprint is needed only to tell a rebind from a heartbeat. Requests
are drawn again and again, so a run explores every sequence of them, and
`Fail` may strike at each statement. For the trials one module is enough where
requests conflict, since rows of different modules share no lock, and two for
what a certificate leaves out; a clock of two values tells the start of a row
from the time of a later request, and an entitlement that ends at 1 is valid before and
expired after the tick. The gate's conflicts are on one tenant's row, and
a second tenant is who must not see or change it; one mintable key makes the
collision of two candidates certain, and two row ids let a row be deleted and
created again under a new id (`MaxApps` bounds the ids: no row is inserted after the
last). For the entitlements two modules let a deletion meet the first grant of a
`CreateKey` before the second, and `MaxTime` 2 makes a second extension fail, so the
error path after a successful upsert is taken. For the deployment one rotation from a to b and the
mistakes that the start-up checks are there for (no selection among two keys, a kid
listed twice, a selection without its key, knobs missing) cover the branches of
`resolveSigner`, `NewSigner` and `resolveDomainOptions`; an empty kid and a malformed seed take the
same return as the last of them and are in the proofs. Two modules contend for
the claim, and two clients make a fleet that is half upgraded. The proofs are for every size.

For the clients, two devices and one slot are the least in which one is refused, picks and evicts;
a quota of 1 puts the evicting retry in the same window as its refusal, which is
the hardest case, and a window of 2 ticks is open for a while after it is opened. `MaxTrouble` bounds all that fails, is
given up or is moved by an operator, together: 2 is enough for an operator to move the key while a stray call is
on its way, or for two calls to be lost. There is one stray call at a
time, in the proofs as well: a device whose earlier call still runs does not give up another. The other
bounds are not in the proofs. For the texts, the certificates
hold each escape, both kinds of other control bytes, the
two characters an unneeded escape can hide, `licenseId` and `expiresAt` with and without null, and
none to two modules. Two edits let any two kinds of respelling meet; the parser
has no state but its position, so a third meets nothing new. `MaxEdits` is the only reason that
this run stops.

Fairness. `FairSpec` has strong fairness of each process's statements: a statement
that can run does run, and a row lock that keeps coming free reaches each waiter, as
PostgreSQL grants row locks in the order of a queue. It has weak fairness of
`DeadlockVictim`: the database detects deadlocks. No fairness is assumed of
arrivals or of failures. In `Clients` each device's call moves on: its handler runs (Go runs every
goroutine, and the transactions end by `EveryRequestAnswered`), its answer arrives, and after a network
error it asks again; and time passes. Nothing is assumed of stray calls. The client does not
retry by itself, but its user does, and so does the heartbeat at the next start or day (`wire-contract.md:56`, `wire-contract.md:58`).

Deadlock. TLC's deadlock check is on but in `texts`: in no reachable state is the whole system stuck.

## What is proved

For the slots, for arbitrary sets of processes, tokens, fingerprints and
requests, under the assumptions that `Slots` names: the tokens are finite, the
markers (`None`, `Free`, `Clean`) are not values, bounds lie in 1..100, and
`TrialStart` names no device to evict.

- `Invariance`: `Spec => []IInv`. `IInv` has five parts. `TypeOK` and
  `StatementsMatchRequest` say where a process can be. `KeyHeld`: from
  `GetKeyForUpdate` to COMMIT an activation holds the key row, so the status is still active
  and `k.MaxSlots` is still the bound. `RowsHeld`: one transaction at a time has an
  uncommitted write on a device row, and only on rows its request names.
  `RoomKept`: what the count established still holds at the insert and at the COMMIT.
  No part is inductive alone: the room is kept because the others that could take
  it would need the key row (`KeyHeld`), and because nobody else's commit can
  put a row where this one has written (`RowsHeld`).
- `TypeCorrect`, `UniqueIndexNeverFires`, `RefusalsLeaveNoTrace`,
  `SlotsAreLostByName`: each from the invariant and one look at `Commit`, the only
  step that changes committed rows (`OnlyCommitPublishes`).
- `DeadlockTakesDeleteKey`: a ring of transactions of any length contains a
  `DeleteKey`. Without it everyone in the ring waits for the holder of the key
  row, who would wait for itself.
- `SlotsImplementLedger`: `Spec => Ledger!Spec`, with the identity as refinement
  mapping on `status`, `maxSlots` and `dev`. Every step but `Commit` stutters;
  `Commit` of an activation is `Heartbeat`, `Admit` or `Miss`, by what its writes are.

For the trial ledger, likewise for arbitrary sets of processes, modules and
requests and any length of trial:

- `LedgerInvariance`: `Spec => []IInv`. `RowsHeld` is its core: a trial row has one
  uncommitted writer, since INSERT and DELETE wait for any other before they write, and
  a new row is written only where none is committed. `ReadsWereCommitted`: what a
  handler has read is in the history, or is its own write, which reaches the history
  with its own commit.
- `CertificatesShowTheLedger`, `TrialsNeverDeadlock`: consequences of it. A transaction
  that has written a trial row waits for nothing, and the holder of the key row
  waits only for such a transaction.
- `TrialsImplementBook`: `Spec => Book!Spec`, the identity on `ledger` and `clock`.
  `Commit` of a new row is `Start`, of a deletion `Reset`, any other step stutters.

For the gate, for arbitrary sets of processes, tenants, app keys and requests and any
bound of the ids:

- `GateInvariant`: `Spec => []IInv`. Two facts carry it. Ids are given out once and
  a row's tenant never changes (`LoadedRowsKeepTheirTenant`), so a row that was in an
  operator's scope when it was read is in it when it is written, or is gone. And rows
  without a tenant, which the unique index of `tenant_key` does not cover, only become
  fewer, so the duplicate check of `CreateTenantConfig` is still valid at its insert
  (`NoUnmappedDuplicate`). `EnsuredRowFound` ties a first call's insert to
  its second look.
- `OneRow`, `ScopesHold`, `AbsentOnlyIfDeleted`: parts of the invariant, each named for
  what it promises.
- `WritesKeepToTheirTenant`: no step of a scoped request changes another tenant's row.
- `BarredTenantsStayOut`: the row that a tenant's calls resolve to is the one it owns
  (`DoorIsOwned`), and a barred tenant has such a row, disabled (`BarsRecorded`), until an operator enables
  or deletes it. A first-sight insert finds it and does nothing, so calls, creations and the
  migration leave the tenant out, and whoever is admitted was under way when its tenant was not barred.

For the entitlements, for arbitrary sets of processes, modules and requests (with any
number of grants each) and any clock:

- `GrantsInvariant`: `Spec => []IInv`. `KeyHeld` and `RowsHeld`: one transaction has an
  uncommitted write on the key, or on a row, and only what its request asks for.
  `CurrentIsCommitted`: what a `GrantModule` has read is still committed unless it is in
  `superseded`. `DeletesSeeRows`: each row a `DeleteKey` has not deleted is still on its list, or
  was committed after its DELETE had looked. `LateRecorded`: a grant that works on a key that is gone is late.
- `KindAlwaysMatches`, `OrphansAlwaysCameLate`: parts of the invariant. The second follows at a COMMIT
  from the two facts before it: that of a `DeleteKey` leaves what it has not seen, and without
  a key only late grants write.
- `KeysCreatedWhole`, `ExtensionsCount`: what the COMMIT of a `CreateKey` and of a
  `GrantModule` does, from `GrantsWritten` and `CurrentIsCommitted`.
- `RingsAlwaysContainDeleteKey`: without a `DeleteKey` everyone who is waited for and
  waits is a `CreateKey` that has inserted the key, and there is one at most.

For the deployment, for arbitrary sets of servers, modules, clients, kids and
configurations and any injection:

- `DeploymentInvariant`: `Spec => []IInv`. `Registered` and `MadeSoFar` say what is open at
  each stage, and that the manager has it in the order it was made, so that a rollback from any
  stage and a stop are the same walk. `Validated` carries what `New` has checked to the calls. `KeysPinned`
  is why a rotation is safe: the kid that a configuration is meant to sign with is
  carried by every client when it is deployed, key tables only grow, and so
  this stays true of each configuration that some instance has loaded, however old.
- `RotationKeepsFleet`, `CallsFindTheirService`, `RollbackIsComplete`,
  `StopsInReverse`, `ModulesKeepToThemselves`: consequences of it.

The assumptions are `ConfigsAssumption` (a kid keeps its seed, but for a duplicate entry),
`InstancesAssumption` and the markers of `Signer`. That operators follow the procedure is the guard
of `Configure`: they may deploy any configuration, also a mistaken one, but do not cut over to
a kid that some client does not carry. A configuration without a selection among several keys is
meant to sign with none, which is why `FleetAccepts` rests on the error that
`NewSigner` returns for it.

For the clients and the limiter, for any finite set of devices, any quota and window, any bounds of the
key and any amount of trouble:

- `LimiterKeepsQuota`, `QuotaKept`: `LimiterSpec => Quota!Spec` and `Spec => Quota!Spec`, with `passed` for the
  requests used and `Window - left` for the age of the window. `CountersAgree` is the invariant: a
  window is open exactly while its counter is there, and the counter has seen all
  it let through, so refusing by the counter keeps the promise.
- `ClientsInvariant`: `Spec => []IInv`. `SureIsTrue` is its core: for a device that has missed
  nothing, what it was told or is about to be told, and what its picker shows, is the roster.
  Each step that moves the roster takes those out whose picture it spoils (`Moves`), and the
  step that ends a device's own call puts it back with what it has just seen.
- `BeliefsAreTrue`: a part of it. `InvalidForCause`: by cases on how a call can end; only three
  reasons are read as an invalid license (`WhatIsRead`), and each is returned under its
  condition. `OnePickIsEnough`: the evicted device is in the roster, which is within the
  bound, so without it there is room (`EvictionMakesRoom`).

- `ClientsImplementLedger`: `Spec => Ledger!Spec`, the slots as the devices see them and the slots as the
  transactions keep them are one promise. The roster is the set of devices that are not free in the
  ledger. `Activate` is `Heartbeat` for a device in the roster and `Admit` for one that enters (its victim
  leaves in the same step), `Deactivate` and `KickDevice` are `Release`, the operators' steps are
  those of the same names, and `DeleteKey` is `Erase`. TLC agrees on the instance of `clients`, where the property is
  left out of the run because the theorem covers it.

For the texts, for any certificate that `signCert` can assemble (any identifiers, times and kinds; both
modules, one or none), any length and number of groups of a key, and any number of edits:

- `TypedKeyIsTheShown`: `Spec => []OneKeyHoweverTyped`. The invariant is `TypedIsRead`: what is typed, in capitals and
  without what is neither capital nor digit, is the prefix and the secret. It is preserved because `Upper` and
  `Strip` go symbol by symbol and so pass over a concatenation. For `Display` it takes an induction over the letters
  of the key.
- `CertificateIsReadAsSigned`: `Spec => []ReadsAndRewritesAsSigned`. The invariant is `CertIsRead`: there
  is a sequence of tokens (symbols outside strings, and strings without their escapes) that the wire is a spelling of, and
  that denotes the signed payload. The argument has four parts. What `MarshalCanonical` writes
  is a spelling of its tokens (`Writes`), and the members in the opposite order one of theirs. A blank
  outside strings and an escape inside one leave the tokens as they are (`BlankInserted`, `LetterEscaped`,
  `BackslashEscaped`), because the scanner and `After` agree on what is inside a string. `parse`, on a
  text, does what it would do on its tokens (`Parses`, `Accepts`), so the value is that of the
  tokens (`Denotes`), from whichever order. Last, `UnmarshalCanonical` takes from the value `AsRead(payload)`
  (`CertificateRead`), which `MarshalCanonical` writes as it wrote the payload (`CertificateRewritten`): cutting
  the times to the second twice is cutting them once, and the members and the modules are listed in
  an order that depends only on their names.

Both rest on two lemmas of `Recursion`, which say nothing of the service: a function whose value at an argument
depends only on its values at smaller ones satisfies its equation (`Defined`), and what passes from the smaller
arguments to each holds of all (`OnSmaller`). The library states these with an operator as a parameter of the
theorem, which the provers cannot instantiate; here the operators are parameters of the module
(`Stripping == INSTANCE Recursion WITH ...`) and the induction is about a set.

The assumptions are `SymbolsAssumption` and `RunesAssumption` (the texts may hold the symbols the code names),
`GroupsAssumption` (there is at least one group of at least one letter), and `PayloadsAssumption` (`IsCertificate`, and
the absent value is not a time). `CertIsRead` quantifies over all sequences of tokens, which TLC cannot enumerate:
it checks the consequence, `ReadsAndRewritesAsSigned`.

Only model-checked: `EveryRequestAnswered` of the three modules and `AnsweredInTheEnd`. They are liveness under
fairness, which is beyond the prover. Every other property of a passing run is a theorem.

## Findings

| run | code | the documents |
|---|---|---|
| `slots_orphans` | `DeleteKey` deletes the devices before it locks the key; an activation that commits in between leaves a row without a key | `admin.go:411-412`: the key goes with its devices "in the same transaction"; the entitlements have the same gap, see the first difference below |
| `slots_released` | `released` is a difference of two unlocked counts and is false after a real release when another device enters in between | `wire-contract.md:117`: `released:false` means the device was in no slot |
| `trials_started` | the loser of a concurrent first start re-reads the row but answers `alreadyStarted:false` (`activation.go:328`) | `design.md:335`, `design.md:444`, `activation_test.go:527`: N−1 of N report `alreadyStarted` |
| `trials_merged` | a keyed `TrialStart` signs with the one trial it started and leaves out those of other modules | `activation.go:369-370`: the trial ledger is "ALWAYS merged"; `design.md:339` |

More differences that have no run; the first nine are behaviours of the models:

- A `GrantModule` that resolves the key before `DeleteKey` commits and upserts after `DeleteKey`'s DELETE
  of the entitlements has looked (`admin.go:428`, `admin.go:458-472`) leaves an entitlement row without a key, for good:
  nothing locks the key in `GrantModule`, there are no foreign keys, and a `DeleteKey` that is repeated finds no key.
  `admin.go:411-412` says that the entitlements go "in the same transaction", and so does `design.md:187`. The
  answer of that `GrantModule` is a success. `OrphansCameLate` bounds what is left: rows committed after the
  DELETE looked, and rows of grants that had resolved the key; such a row would count as the grant of a later key
  of the same hash (`CreatedWhole` has it as the exception), which the random keys make a matter of theory.
- `DeleteTenantConfig` of a disabled row lets its tenant in again: the tenant's next call finds no row, and the
  first-sight insert creates an enabled one (`admin/app.go:128`, `tenantres.go:82`). The comments say that "A
  disabled gate row fails closed" (`tenantres.go:75`), and of the deletion only that "the row's identity becomes
  reusable" (`admin/app.go:122`). `BarredStayOut` counts the deletion among what ends a bar.
- `UpdateTenantConfig` writes back the `disabled` it has read, so an edit of the name undoes a
  disabling that commits in between (`UpdateApp` of `TenantGate`), while `admin/app.go:79` says "Absent optional
  fields keep their current values."
- `GrantModule` extends the expiry it has read without a lock (`admin.go:463-472`), so of two concurrent
  extensions one is lost, while `design.md:255` adds the duration to the larger of now and the current
  `expires_at`. `ExtensionLostOnlyToOverlap` bounds the damage.
- After an `UpdateKey` below the roster an evicting retry that names a device in a slot is refused
  again (`Full` of `Clients`), while `design.md:312` gives 200; `PickIsEnough` holds because it asks
  for a roster within the bound.
- `UpdateKey` may set the bound below the roster (`SetSlots` of `SlotLedger` has no
  guard), while `design.md:326` says that the rows are at most `max_slots` at any time.
- A heartbeat whose row is released between its SELECT and its UPDATE is answered
  200 and holds no slot (`Miss` of `SlotLedger`), while `design.md:308` says that the
  slot is reused.
- The collision retry of `CreateKey` (`design.md:389`, `admin.go:188-189`) runs in the
  transaction that the collision has failed, so it never mints a key (`MintKey`).
- When `protovalidate.New` fails, `NewServer` returns without stopping the service that is
  already built (`server.go:82-85`, `NewValidator`), while the comment on `New` promises rollback for
  its own failures only; `NothingLeftOpen` holds of `"off"` and not of `"dropped"`. The
  process exits right after (`main.go:61-64`).
- `option.WithCron` (`option.go:62-64`) is accepted and ignored: `setupJobs` always
  builds its own scheduler.
- `activation.go:47-48` says that a quota of 0 or less falls back to `defaultRateMax`, which does not
  exist; `resolveDomainOptions` refuses to start instead.
- `ratelimit.go:28-30` says that the pick-and-retry flow stays inside the quota when `Max > 1`; that is so
  only for a device that has sent nothing else in the window, since refusals and releases count as well. The evicting
  retry then reads 429, which a client takes for a network error (`AnsweredInTheEnd` says that it
  gets through later).
- `retryAfterSeconds` cuts a window to whole seconds (`ratelimit.go:58`): a window below one second is hinted as 0.
- A disabled tenant is answered 401, and by its status a client reads 401 as an invalid license; `wire-contract.md`
  gives 401 for an unknown key.
- `postMigrateDropLegacy` looks for the column and then drops it, while its comment (`migrate.go:97`) says
  that `DROP COLUMN IF EXISTS` keeps it idempotent: of two processes that migrate together one can fail.
  Its statements also name `license_apps` without the table prefix that the database may be configured with.
- `pkg.Client` has no delegations for the five tenant-configuration requests, which the handler serves:
  in gRPC mode they are `Unimplemented`, while `client.go:19-21` says that a consumer can hold either backend.

`UniqueIndexNeverFires` also shows that the integrity error of which the comment on
`InsertDevice` (`device.go:69-71`) speaks cannot occur under the lock of the key
row, and that no retry of the judgment is needed.

## Not modelled

- What only reads or forwards: `Ping`, `Health`, `ShowKey`, `ListKeys`, `ListKeyDevices`, `ShowTrial`, the
  methods of the handler, of the facade and of the gRPC client, masking and audit logging. They have no state and
  one path.
- `KeyHash` and `LicenseID` (SHA-256 and a prefix of it: the models name a key by itself), the
  conversions of modules and kinds, and the random identifiers.
- The migration beyond the backfill. `reconcileTenantKey` fails only for rows that a release not in this repository
  writes, no code reads the column that is dropped, and `AutoMigrate` is a library.
- The registration of periodic jobs, of which there are none, and `Connect` in gRPC mode.
- Numbers other than the version, short `\u` escapes and `\u` escapes of surrogate halves in `UnmarshalCanonical`.
  Its own writer produces none of them; a store that spells a character outside the basic plane as a pair of
  halves would break the certificate, since `WriteRune` makes U+FFFD of each half (`canonical.go:364-368`). The
  respellings of `Texts` are the three of its actions: another order of the members, blanks, and
  unneeded escapes of single symbols.
- The two hazards without a property: the race of two migrations, and a `CreateKey` whose read after the
  COMMIT fails, so that the plaintext is lost with the reply (`ShowCreatedKey` has the failure; nothing the
  service keeps tells it from a lost answer).

## How the modules build on each other

`Slots` implements `SlotLedger` and `TrialLedger` implements `TrialBook`: what is proved of the statements
may be used as single steps. `Limiter` implements `Quota`. `Clients` extends `Limiter` and takes a transaction for a step
by the first of these, and the gate as a door by `TenantGate` (`BarredStayOut`: it opens only by what an operator does); it implements `SlotLedger` in turn.
`Deployment` uses the operators of `Signer`. `Texts` uses those of `Canonical` and `KeyText`, which are recursive
functions, so that `TextsProofs` can reason about them with one instance of `Recursion` for each.
