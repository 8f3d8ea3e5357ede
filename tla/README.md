# Verification of marstack-secrets

marstack-secrets is a secret store: one Go process, one SQLite file, one audit
log. This directory holds TLA+ models of it, the TLC configurations that check
them on small instances, and TLAPS proofs for every value of the constants.

    tlc -workers 2 -config Seal.cfg Seal          # one run
    tlapm SealProofs.tla                          # one module of proofs

`PROJECT.json` lists the runs, the source lines behind every definition, the
hazards, the findings and the theorems.

## 1. The system

| Component | State | Operations | Hard part |
|---|---|---|---|
| seal (`internal/modules/seal`) | `seal_config` row; root key, key version and collected shares in memory | Initialize, Unseal, Seal, Rotate, Cipher | memory and database hold two copies of the version; a statement may take effect and be reported as failed; wrong and repeated shares |
| secret (`internal/modules/secret`) | `secret_metadata`, `secret_versions` | Put with compare-and-set and pruning, Get, Delete, Undelete, Destroy, Rewrap | sealing inside a transaction, versions destroyed while a rotation holds a page of them |
| param (`internal/modules/param`) | `param_values` | Put, Get, Resolve with inheritance, Delete, Rewrap | sealing before the statement that stores |
| rotate (`internal/modules/rotate`) | `busy` | rotate: claim, raise the version, walk secrets, walk parameters | races every writer, may stop anywhere |
| lease (`internal/modules/lease`) | `lease_records` | Issue, Renew, Revoke, RevokePrefix, Sweep | read-then-write renewals, a revocation of three statements, a background sweeper |
| auth (`internal/modules/auth`) | identities, tokens, spent assertions | issue, Authenticate, Exchange, LoginInstance, Revoke, DisableIdentity | single use, requests authenticated before a revocation |
| policy (`internal/modules/policy`) | policies and bindings | Evaluate, Put, Bind | limit checked before the insert |
| audit (`internal/platform/audit`) | the file, the buffered writer, the tip of the chain | Open, Append, Verify, Close | failed flush, failed sync, power failure, restart |
| app (`internal/app`) | wiring, the sealing sink, the sweeper | Handler, Run, Close | seal after a failed append races other requests |
| platform | one SQLite connection, rate limiter buckets, JWKS | | the connection and the seal manager's lock |
| agent, client, command line | session, rendered files, tracked leases | Cycle, renewLeases | partial cycles |

Requests run concurrently. A handler is not atomic: it authenticates, accesses
the database in one or more statements, issues a lease, appends an audit record
and answers. The database is opened with one connection
(`platform/sqlite/sqlite.go`), so each statement, and each transaction as a
whole, is atomic for everyone else; a transaction holds the connection to its
end. The seal manager's methods hold its lock for their whole body. These two
facts give the grain of every action below.

What makes the parts correct, in short: only a quorum opens the store, and
custodians cannot be locked out; a rotation never makes a value unreadable,
never revives a destroyed one and leaves nothing behind; a served secret is a
recorded secret; who holds a secret stays on record, and a revocation that
answers has taken the tokens of those it names.

## 2. The modules

### KeyVersion

The abstract specification of the key encryption key's version: the stored copy
(`seal_config.kek_version`) and the copy held in memory while the store is open.
`Establish`, `Load`, `Raise` and `Forget` are all that may happen to the pair.
It is what the cipher, the secret store and a rotation rely on. `Seal` and
`Rotation` both implement it (`KeyLifecycle`).

### Seal

`seal/manager.go`. `stored` is the row, `root`, `kekVersion` and `collected` are
the manager's fields. `Initialize`, `SubmitGenuine`/`SubmitWrong` (Unseal),
`SealStore` and `Rotate` are its methods, one step each. `InitializeUnreported`
and `RotateUnreported` are the same methods when the driver reports an error for
a statement it applied, because the request's context ended. Shares and keys are
abstracted to what Combine and the key check value tell apart: genuine or not,
and the index byte. `delivered` says whether the shares of the initialization
reached the operator; `round` and `established` are history.

### Rotation (and MCRotation)

`rotate`, with the parts of `secret`, `param` and `seal` it races. `row` is both
tables; a row carries the version column, the version its data key is really
wrapped under, the data key inside, and the data key the ciphertext was made
with, so that "it opens" is a fact about the row and not an assumption. A secret
is sealed inside the transaction that stores it (`SecretPut`, one step, pruning
included); a parameter is sealed first and stored by a later statement
(`ParamSeal`, `ParamUpsert`). `SecretDestroy` erases one version, also the current
one. A rotation is `CheckVersion`, `Claim`, `Rotate`,
then for each subject `ReadPage`, and for each row `AlreadyCurrent`,
`RewrapRefused`, or `Rewrap` followed by `ReplaceWrapping`; it ends in `Finish`,
`Abandon`, a refusal or `Restart`. `late` is history: parameters whose write a
rotation overtook. MCRotation adds the symmetry of requests and writers.

### AuditTrail

`audit/log.go`, the sealing sink of `app.go`, and the order of access, record
and answer in the handlers. `file` is what the operating system holds, `synced`
how much of it survives a power failure, `sequence` and `previous` the log's
fields, `writer` the buffered writer with its sticky error. A piece of the file
is a whole line, a record without its newline or less than a record. A request
reads or writes the store (`Access`) or is an attempt to unseal, which is recorded
also when it fails (`DenyUnseal`); `Answer` serves what was read and acknowledges
what was written. Append
succeeds, fails at the sync, fails at the flush, or is cut by the end of the
process; `Reopen` is Open, which verifies the file and takes up its tip or
refuses to start. A request's identifier stands for the hash of its record.

### Leases

`lease/manager.go`, the read path of `secret/http.go` that issues leases, and
the tokens a revocation takes (`auth/manager.go`). A read is `Authenticate`,
`IssueLease` (`Extend` or `Replace`, one transaction), `Answer`. A renewal reads
and writes in two statements (`CheckRenewal`, `WriteRenewal`). RevokePrefix is
`ListHolders`, `RevokeLeases`, one `RevokeHolder` per name, `FinishRevocation`,
and may fail between any two. `Sweep` deletes one batch. Time is a counter; a
renewal waits for the database at most `MaxDelay`. `served`, `barred`, `mark` and
`took` are history. `Items` are versions of paths and `Under` those a prefix
covers. Expiry and logout of tokens only take tokens away and are left out.

### VersionedSecrets

The abstract specification of the secret store: numbered versions of a path, a
write that compares, numbers, stores and prunes in one step, and the marks on a
version. It knows nothing of requests, connections, locks or keys. `SecretStore`
implements it (`KeepsVersions`), which is to say that the compare-and-set of Put is
atomic although its transaction waits for the seal manager and may be given up.

### SecretStore

`secret/store.go` and `secret/service.go`, with the two resources every request
shares: the database connection (`conn`) and the seal manager's lock (`writer`,
`readers`). Put is `Begin` (the transaction and the comparison with the version
the write names), `SealValue` under the lock, and `Commit` with pruning, or it
ends in `Conflict` or `SealRefused`. Get is `Resolve`, `ReadRow` and `OpenValue`.
`Delete`, `Undelete` and `Destroy` are transactions that wait for nothing, one
step each. `Status`, `Unseal`, `ReadConfig`/`UpdateVersion` (Rotate) and `Seal`
are the manager's methods, which keep the lock while they wait for the
connection; `UpdateUnreported` is the update that takes effect and is reported as
failed, after which the manager goes on sealing under the version before it; "gauge" is the metrics gauge, which asks for the status with a
context nothing ends. `Cancel` is a client that gives up: `database/sql` then
fails the statement, rolls the transaction back and takes its connection.
`floor`, `gone` and `seen` are history. Next to Rotation, which takes a secret
write as one step, this module shows that it may: between sealing and commit no
version moves (`NothingMovesBeforeCommit`).

### SingleUse

The abstract specification of a login credential: it is spent in the step that
sells its one session, and is never sold again. `Sessions` implements it
(`BuysOnce`).

### Sessions (and MCSessions)

`auth`, the check of `platform/jwt`, and the operator commands of
`cmd/marsec/operator.go`, which write to the same database from processes of
their own. `identities`, `tokens` and `spent` are the three tables. A login by
bootstrap token is `Exchange` (one transaction); one by assertion is `Verify` and
then `LoginInstance`, the transaction that spends, enrols and issues. Both go on
with `Record`, or `RecordFails`, which seals, and `Answer` or `LoseAnswer`.
`Authenticate`, `Serve`, `Logout` and `RevokeHolder` use a session.
`RegisterIdentity`, `ReadIdentity`/`IssueBootstrap` and
`DisableIdentity`/`RevokeIdentity` are the operator's commands, statement by
statement; `Interrupt` is a command that dies in between. A token row remembers
in `paidBy` what bought it; `held`, `recorded` and `barred` are history.

### Policies, and Parameters on top of it (and MCParameters)

`Policies` is `policy`: the tables, `Put`, `Delete`, `Unbind`, and `Bind` in its
three statements (`BindGet`, `BindCount`, `BindInsert`) from several operator
processes; and the pure part, `Evaluate` over the rules `SetFor` collects. A path
is a sequence of pieces. `Parameters` adds the handlers of `param`: `Permit`, then
for a read one `ReadCandidate` per level of the inheritance chain and
`AuthorizeReference`/`Reveal` for each reference, or `Write`, `DeleteParameter`,
`Listing`, whose prefix may be empty; `End` records and answers. A value is a sequence of parts, so that
`Substitute` replaces a reference everywhere it occurs, also in the plaintext of
an earlier one. `allowed` and `absent` are history: what the policies allowed the
caller, and which candidates were missing, at some time since the request began.

### Agent (and MCAgent)

`agent/agent.go` and the calls of `client` it makes. `phase`, `turn` and `buffer`
say where in `Run` and `Cycle` the process is, which template it has in hand and
what its lookups returned; `loggedIn` and `leases` are the agent's fields, the
latter abstracted to the kinds of lease it tracks (held, due for renewal,
forgotten by the store). `Wake` begins a cycle; `HaveSession`, `Login`,
`LoginFails` are ensureSession; `Lookup`, `LookupFails`, `Render` are render with
its functions; `Unchanged`, `WriteTemporary`, `Rename` are place; `Command`;
`Renew`, `RenewFails`, `EndCycle`. `FailCycle` is what Run does with an error. A
login whose answer is lost, a template that cannot be read or rendered
(`RenderFails`), a write or a command that fails, and a process that stops
anywhere (`Mishap`) take a fault each from `MaxFaults`, as do an outage, a
path that becomes refused and a session that ends (`StoreStep`). `began` and
`missed` are history. Templates have destinations of their own.

## 3. What TLC checks

| Run | Module | States | Shows |
|---|---|---|---|
| `seal` | Seal | 17 thousand | `QuorumOpens`, `NoShareLingers`, `LostSharesAreFinal`, `KeyLifecycle`, `Reopens` |
| `rotation` | MCRotation | 2.6 million | `NoValueAheadOfKey`, `ValuesOpen`, `DestroyedStaysErased`, `NothingLeftBehind`, `ExaminedOnce`, `KeyLifecycle` |
| `rotation_param_write` | MCRotation | | finding: `EveryValueOpens` is violated |
| `rotation_two_requests` | MCRotation | | finding: `RotatesOnlyTheNamedVersion` is violated |
| `audit` | AuditTrail | 144 thousand | `ServedIsRecorded`, `ChainContinues`, `TornRecordIsLast`, `UnrecordedWriteCloses`, `FailureSeals` |
| `audit_reopen` | AuditTrail | | finding: `AcceptedLogVerifies` is violated |
| `lease` | Leases | 0.8 million | `OneHolding`, `HoldingsStayOnRecord`, `NamedHoldersAreBarred`, `Swept` |
| `lease_prefix` | Leases | | finding: `HoldersLoseTokens` is violated |
| `secret_store` | SecretStore | 157 thousand | `NothingMovesBeforeCommit`, `WritesStand`, `ReadsObserveWrites`, `KeepsVersions`, `EveryRequestEnds` |
| `sessions` | MCSessions | 358 thousand | `BarredSessionsAreRevoked`, `ActsWhereAsserted`, `ServesRecordedLogins`, `BuysOnce` |
| `parameters` | MCParameters | 491 thousand | `AnsweredWasAllowed`, `ResolvesNearest`, `DecidesAsStated`, `BindingsSound` |
| `agent` | MCAgent | 428 thousand | `NothingWorse`, `Converges` |

Every passing run but `agent`, `audit` and `secret_store` also checks its module's
`TypeOK`; those of AuditTrail and SecretStore are theorems. The definitions marked
"Slip" in the modules are plausible errors in the code; with one of them in place
of the definition after it, TLC reports the property it is listed with.

Bounds, and why they are enough:

- `Seal.cfg`: four shares, so every threshold from two to four of up to four
  occurs; three wrong shares occupy indices, spoil a round and are left to spoil
  another; three seals or restarts; three key versions.
- `Rotation.cfg`: one secret of up to three versions and one parameter, with a page
  of two rows, so that a walk crosses pages and subjects and a page goes stale; two
  versions kept, so pruning and destroying erase rows of a page, the current one
  too; three key versions and two requests, so a rotation follows one that was cut
  short and another competes with it; two data keys, since the values of one row
  are only compared for equality. That the walk goes from one secret to the next is
  left to the proofs, which hold for any number of them.
- `AuditTrail.cfg`: two requests in flight and four in all, so a request is
  answered between another's failure and its seal and the store is unsealed
  after it; two failing appends in each life of the process.
- `Leases.cfg`: two identities with two tokens and two lease records on one
  version; a retention of two and a clock to four, so a lease expires, is
  replaced, renewed late and swept; batches of one, so the sweeper needs several.
- `SecretStore.cfg`: three requests of any kind on a path that is empty or has
  one version, since a write, a reader of the seal's state and an operation that
  takes the lock are what it takes to wait in a circle; two versions with one
  kept, so a write prunes what a read has resolved; two key versions.
- `Sessions.cfg`: one name that two tenants assert and the operator registers
  meanwhile; two genuine assertions whose windows overlap by the skew only and one
  that is not genuine; two requests and two operator processes, so that a login
  stands between the two statements of a disabling; three tokens, enough for a
  bootstrap token, its session and another; a clock that passes both lifetimes.
- `Parameters.cfg`: a parameter at two levels, so that a nearer one appears or
  vanishes between two statements of a read; values with two references, one of
  them nested in the other's plaintext, and one to another tenant; two operators
  on a limit of one binding, so that both pass the count; four writes to the
  tables. `DecidesAsStated` takes every list of up to three rules and paths of up
  to two pieces: a denial, a grant and an order between them.
- `Agent.cfg`: two templates that share a secret, the first with a second lookup
  and a command, so that the store moves between two lookups and between two
  files; two versions of each path; three faults, so that a cycle fails while the
  effects of an earlier failure (a spent credential, a missed command) are there.

Deadlock is checked where the system can always go on (rotation, sessions,
parameters, agent). The other models stop when a bound is used up, and their
configurations say so.

Fairness. `Seal!FairSpec`: custodians who hold a share keep submitting it;
nothing else is assumed, and seals and wrong shares are finitely many by their
bounds. `AuditTrail!FairSpec`: a handler whose append failed runs on to the seal,
which is the next statement of the sink. `Leases!FairSpec`: the sweeper runs,
which `App.Run` starts and which ends only with the server.
`SecretStore!FairSpec`: a handler that can go on does, and the client of one that
cannot gives up; `client.go` does so after ten seconds, the server has no timeout
for a handler. Without the clients' giving up `EveryRequestEnds` is false, since
a write, a gauge and a seal wait for each other for ever. It says that no circle
of waits lasts, and not how long a request may queue behind an endless stream of
others: the requests of the bound are finitely many. `Agent!Spec`: the agent's
process runs and is started again by its supervisor, an outage ends, and whoever
wrote the credential file replaces a credential that is spent. The last is an
assumption about the deployment and not about the code: without it the first
failed cycle is the last that can log in, since either kind of credential buys
one session. Nothing is assumed of refused paths: `Converges` promises nothing for
the templates behind one, because a failed lookup ends the cycle.

## 4. What is proved

All proofs are for every value of the constants under the `ASSUME`s of the
modules (sizes are natural numbers, the erased key is not a data key, retention
and delay are natural numbers; for policies and parameters see below).

- **SealProofs**: `TypeOK`, `QuorumOpens`, `NoShareLingers`, `LostSharesAreFinal`,
  and the refinement of KeyVersion, from which follows what the cipher relies on:
  the version held is the stored one or an earlier one, and the stored one never
  falls. The invariant adds that the stored split is a
  valid one and an uninitialized store holds nothing, that an open store has a
  version and no shares while a sealed one has no version and fewer shares than
  its threshold, that the version held is never past the stored one, and that
  every genuine share collected belongs to the current round: what turns "a
  quorum was collected" into "a quorum of this round".
- **RotationProofs**: `TypeOK`, `NoValueAheadOfKey`, `ValuesOpen`,
  `DestroyedStaysErased`, `NothingLeftBehind`, `ExaminedOnce` and the refinement
  of KeyVersion with the same two consequences. `NothingLeftBehind` is not inductive. The invariant adds that a
  sealed write which no rotation overtook is on the stored version while a walk is
  active, that the rows of a page lie ahead of the cursor and the examined ones
  behind it, that a row still on the version its page was read at has the page's
  data key unless it was overtaken, and that every live row not overtaken is on
  the stored version or ahead of the walk.
- **AuditTrailProofs**: `TypeOK`, `ServedIsRecorded`, `ChainContinues`,
  `TornRecordIsLast` and `UnrecordedWriteCloses`. The invariant adds that requests
  are in flight only on a started server and have identifiers already given out, so
  that no record is taken for another's. That a torn record stays the last one goes through the
  restart: it is torn by a flush, which leaves the writer failed for good, or by the
  end of the process, after which Open refuses the file; so on a started server
  whose writer works no record is torn (`NoneTorn`), and only there is one written. For
  `UnrecordedWriteCloses`, requests in flight have identifiers of their own and one
  that has not made its access has committed nothing (`WriteInv`).
- **LeasesProofs**: `TypeOK`, `OneHolding`, `HoldingsStayOnRecord` and
  `NamedHoldersAreBarred`. The invariant adds that identifiers are given out in
  order, that a checked renewal's expiry is never far in the past, that every
  served version has a record that outlives its retention, and that a holder
  struck from a revocation's list has no usable token from before the listing.
- **SessionsProofs**: `TypeOK`, `BarredSessionsAreRevoked`, `ActsWhereAsserted`,
  `ServesRecordedLogins`, the refinement of SingleUse, and for SingleUse itself
  that no credential pays for two sessions. The invariant adds that a request past
  its verification holds a verified assertion and one past its record a recorded
  session (`RequestsSound`), that a command revokes only what it disabled
  (`CommandsSound`), that tokens belong to known identities (`TokensKnown`), that
  a barred identity is disabled, which keeps every later login from issuing
  (`BarredAreDisabled`), and that the value of a session left the server only
  after its record (`HeldAreRecorded`).
- **SecretStoreProofs**: `TypeOK`, `NothingMovesBeforeCommit`, `WritesStand`,
  `ReadsObserveWrites` and the refinement of VersionedSecrets, from which follows
  that no version number is given out twice and nothing erased returns. The
  invariant adds that the key version held is never past the stored one
  (`HeldNotAhead`), though it may be behind after an unreported update; that whoever has the connection is a write, not given up, for the
  version behind the current one (`WriteSound`), so that nothing commits in
  between; that whoever is about to raise the key version has the lock and found
  room (`LockSound`); and that what was gone when a read began is gone still,
  unless it was undeleted (`ReadSound`). The connection orders writes and
  rotations, the lock orders the changes of the key; neither alone would do. In the refinement the commit is
  the whole abstract write, since the connection kept what it compared current.
- **AgentProofs**: `NothingWorse`. It is a property of steps, and the rename is the
  only step that changes a file. The invariant says what the rename relies on: the
  versions in the buffer lie between the store at the beginning of the cycle and
  now (`BufferFresh`), there are as many as the template looks up (`BufferWhole`),
  and a file the cycle has not come to is from before it (`Pending`), which ties
  the new content to the old through `began`.
- **ParametersProofs**: `TypeOK`, `AnsweredWasAllowed`, `ResolvesNearest`,
  `BindingsSound` and `DecidesAsStated`, and beyond the runs: that `Evaluate` decides
  as stated for lists of any length (`EvaluateDecides`); that in every reachable
  state an authorisation is granted by some bound policy and denied by none
  (`BoundPoliciesDecide`); that the limit of Bind is exact for one operator process
  (`OneOperatorKeepsLimit`); and that a parameter changes only by a request that was
  entitled to change it (`OnlyEntitledWrites`). The invariant adds what a request
  under way relies on (`RequestsSound`): its caller is in the tenant and was allowed
  what it asks for (`Entitled`); the same for each secret whose text is in the value
  (`TextEntitled`); a reference in hand was authorised before it is revealed, and is
  to a secret of the tenant (`Pending`); and the candidates it has left are a suffix
  of the chain, all before them absent when they were read (`Descent`). All of it
  only grows with what the request remembers, so steps of others keep it. The part
  that is easy to get wrong is a replacement that brings new references along: it is
  harmless because the list of references is taken from the stored value once, and a
  plaintext brings in the text of its own secret only (`RevealComes`). For the limit,
  bindings and binds past the count are counted together: the count lets one pass
  only when there is room for all the processes at once, and an insert trades the
  one for the other. The loop of `Evaluate` keeps the rule that decides among the
  first n, which needs `beats` to be a strict order whose ties are alike
  (`BeatsOrder`).

The functions behind `Best`, `SetFor`, `References` and `Substitute` are recursive.
The library's induction theorems take an operator as a parameter and cannot be used
here, so the module has its own: the least element of a set of numbers, from which
follow induction over a set of numbers (`UpTo`) and the existence of a function
that is defined step by step (`Recursion`). What `FlattenSeq` contains
(`PartsOfFlattening`) and what the loop ends with (`BestDecides`) rest on them.

The assumptions of Policies and Parameters say of the constants what their types
say in the code: documents are lists of rules, paths are not empty and closed under
the inheritance chain, clients write text and references, and a secret's plaintext
is its own text, which may look like text or references. The last one is how text
is attributed to a secret and no restriction on what secrets hold.

Only model-checked: the liveness properties `Reopens`, `FailureSeals`, `Swept`,
`EveryRequestEnds` and `Converges`, since fairness is beyond the prover; and the
findings, which are counterexamples. Every invariant and every action property of
a passing run is also a theorem.

## 5. Findings

1. A parameter write that a rotation overtakes can leave a parameter that does
   not open (`rotation_param_write`): `param/store.go` seals before it stores, and
   the rewrap compares the version column only.
2. Two rotation requests naming the same version can both rotate
   (`rotation_two_requests`): the comparison is made before the claim.
3. An audit log that ends in a record without its newline is accepted at start
   and broken by the next append (`audit_reopen`).
4. A revocation by prefix can take a lease and leave its holder's tokens
   (`lease_prefix`): holders are listed before the leases are revoked.

Met while modelling, and stated here rather than by a run:

- A write and its audit record do not commit together, although the first
  decision record says so: the record is appended after the commit and may fail, or
  the process may end in between. Such a write is never answered as done
  (`ServedIsRecorded`) and the store does not stay open behind it
  (`UnrecordedWriteCloses`).
- `docs/AGENT.md` says a failed cycle leaves the destination untouched, and that
  the agent reloads the application when its files change. A cycle whose command
  fails has already replaced the file, and the command is not repeated until the
  content changes again: later cycles compare with the file and find nothing to do.
  `Converges` therefore excepts the templates in `missed`.
- PurgeSpentAssertions, which nothing calls, forgets an assertion at its expiry,
  while the verifier accepts it for the clock skew longer. Called by a timer it
  would let an assertion log in twice (the slip `TickAndPurge`, which TLC reports
  against `BuysOnce`).
- Of two rules that are equally specific the first in the order of the policies'
  names decides, and not the union of what they grant (`Beats`).
- The agent renews every lease it was ever given. A poll that reads the same
  version extends the lease the identity has, but the lease of a version that was
  replaced stays tracked, and is renewed as long as the agent runs.

## 6. Not modelled, and why

- The rate limiter: buckets of real numbers over real time, whose only effect is
  a refusal a client may retry. Its eviction is listed as a hazard.
- The text form of times: the models count time in whole units, while the database
  compares RFC 3339 texts. The two orders differ only within one second.
- Migrations and snapshots, which run before the server or beside it and change
  nothing it holds. Shamir's scheme over its field, ciphers, key derivation, hashes
  and signatures: abstracted to what they promise.
- Kinds of parameter values and the ceiling of a listing, which only refuse or
  shorten.
- HTTP routing, decoding, configuration, metrics, logging, hardening and the
  browser interface keep no state that the properties tell apart.

## 7. What could follow

An abstract specification of what a holder of leases can rely on, which `Leases`
would implement; Shamir's scheme over a small field and the order of time texts as
operators over bounded inputs.
