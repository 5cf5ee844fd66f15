# Verification of vault-plugin-secrets-temporalcloud

TLA+ models of the Vault secrets engine that issues Temporal Cloud API keys,
the TLC runs that check them on small instances, and TLAPS proofs of the
properties that matter most. Every definition is translated from the Go source
beside this directory; `PROJECT.json` maps each to its lines.

## 1. The system

The engine is a plugin process that Vault calls. Each call is a handler in a
goroutine of its own, and Vault runs any number of them at once. The engine
has three neighbours, none of which it controls:

* **Vault**, which stores the engine's entries, keeps the leases, and revokes a
  lease by calling the engine again and again until it succeeds;
* **Temporal Cloud** (the Cloud Ops API), which accepts a mutation, answers
  with an identifier and an *asynchronous operation*, and carries it out later:
  the operation, the resource's own state and what reads show move separately;
* **the operator**, who writes and deletes entries and rotates the root key.

| Component | State | Operations | Talks to |
|---|---|---|---|
| Credential issuance (`path_creds.go`, `credential_request_budget.go`) | none of its own: the key under way, and a 55 s context | read of `creds/<name>` | service-account entry, probe settings, shared client, cloud |
| Lease revocation and renewal (`secret_api_key.go`) | what the mint recorded on the lease: key ID, expiry | renew, revoke | Vault's lease manager, shared client, cloud |
| Cloud Ops client (`client/`) | a gRPC connection | create, get, update, delete, count, find; each mutation waits for its operation and reads back | cloud |
| Shared client handle (`backend.go`) | cached handle, `clientMu`; per handle a count, `retired`, `closed` | `getClient`, `release`, `resetClient`, `invalidate` | every handler; the stored configuration |
| Configuration (`path_config.go`) | the stored credential and its metadata | write, read, delete | storage, cloud (validation), shared client |
| Root rotation (`path_rotate_root.go`) | `rotateMu` | rotate | storage, cloud, shared client |
| Service accounts (`path_service_accounts.go`) | one entry per name | write (create, adopt, update), read, list, delete | storage, cloud |
| Propagation probe (`path_creds_probe.go`, `probe_budget.go`, `client/probe.go`) | run of confirmations, remaining budget | probe every granted namespace | namespace front ends |
| Probe settings (`path_probe_config.go`) | interval, number of successes | write, read, delete | storage |
| Token and permission parsing (`client/token.go`, `client/access.go`) | none | conversions | configuration, service accounts |
| Sweep (`cmd/sweep`) | a page token, a count | list, delete what acceptance tests left | cloud |
| Propagation benchmark (`cmd/propagation-benchmark`) | a temporary account, one key per trial | create, wait for acceptance, clean up | cloud, a namespace |
| Entry point and scripts (`cmd/vault-plugin-secrets-temporalcloud`, `scripts/`) | none of the engine's | — | — |

### What is hard

* **An outcome that is unknown.** A wait can end before the operation does. The
  handler must act on a key that may or may not come to exist.
* **Two parties that retry.** Vault repeats a failed revocation; what an earlier
  attempt asked for may still be in progress, or done.
* **Read-backs.** A fulfilled operation does not mean the record is readable,
  and a removed record may still be readable, marked deleted.
* **A client shared by everybody and replaced by anybody.** A configuration
  change must neither close the connection of a running request nor let a
  request put a client with the old credential back into the cache.
* **Replacing the credential one authenticates with.** Create, verify, store,
  delete: a failure, a crash or another writer may come between any two.
* **Time.** A key's expiry is fixed when it is minted; the policy that bounds
  its lease is not.
* **Crashes.** The process may die anywhere, and nothing it did not store
  survives.

### What makes each component correct

* *Issuance and revocation*: a lease is closed on a working key, and a working
  key drops out of sight, by named accidents only; no key has two owners or is
  deleted under a lease in force; revocation converges.
* *Client handle*: no use after close, no leak, an exact count, a cache that
  is never older than a change that has returned, no request blocked for ever.
* *Root credential*: what is stored works; a replaced key is dealt with and
  only replaced keys die; a new key is left unnoticed by a failure or a crash
  and never by two calls at once; rotations end.
* *Renewal*: a valid lease has a living key, and never outgrows the policy.
* *Service accounts*: an entry names an account that exists and that has the
  stored permissions; an account is forgotten, or outlives its entry, by named
  accidents only; an adopted account is never destroyed by a failed write.
* *Probe*: a namespace that is not warned about gave the whole run of
  confirmations, counted by one snapshot of the settings; a healthy one is not
  warned about; every verification ends.
* *Probe settings*: whatever writes and deletes interleave, what is stored is
  accepted by the next read.
* *Paged lists*: what exists all the while is counted, found and swept, and no
  call runs for ever that its context or the check of the token can end.
* *Benchmark*: stopped anywhere, it leaves no key, and an account only when it
  was stopped before it had one; whatever fails, no known account is left in
  silence, and no known key that its cleanup could have told of.

## 2. The modules

| Module | Models | Of the code |
|---|---|---|
| `CloudOps` | error categories, operation states, the questions *present?* and *gone?* | `client/errors.go`, `client/async.go`, `client/confirm.go` |
| `Credentials` | the read of `creds/`, the revocation of a lease, `CreateAPIKey` and `DeleteAPIKey` one action per RPC; cloud and lease manager as environment | `path_creds.go`, `secret_api_key.go`, `client/grpc.go` |
| `CredentialLedger` | abstract: keys are born into custody, granted, reported, and custody is closed on a dead key, or out of a revocation that asked for the deletion and was told it is unknown | what `Credentials` promises |
| `CredentialsProofs` | TLAPS proofs about `Credentials` | |
| `ClientHandle` | `clientMu`, `getClient`'s two paths, the counted handle, `resetClient` after a configuration change or an invalidation | `backend.go` |
| `SharedConnection` | abstract: one current connection, users join only it, a superseded one closes when empty | what `ClientHandle` promises |
| `ClientHandleProofs` | TLAPS proofs about `ClientHandle` | |
| `RootCredential` | rotation, configuration writes and deletes over one stored credential | `path_rotate_root.go`, `path_config.go` |
| `KeySuccession` | abstract: one key in force, appointed by an operator or following as a working heir; one at most on its way in or out, and dead, named or forgotten when it is let go | what `RootCredential` promises |
| `RootCredentialProofs` | TLAPS proofs about `RootCredential` | |
| `LeaseRenewal` | expiry at mint, renewal ceiling, the merge of ttl, max_ttl and root_key_ttl, a clock | `secret_api_key.go`, `path_creds.go`, `path_service_accounts.go`, `path_config.go` |
| `LeaseRenewalProofs` | TLAPS proofs about `LeaseRenewal` | |
| `ServiceAccounts` | write (create, adopt, update, compensations) and delete of one entry | `path_service_accounts.go`, `client/grpc.go` |
| `ServiceAccountsProofs` | TLAPS proofs about `ServiceAccounts` | |
| `Probe` | a verified credential read: snapshot, budget, one probe per namespace, warnings; writes and deletes of `config/probe` | `path_creds_probe.go`, `path_probe_config.go`, `probe_budget.go`, `client/probe.go` |
| `ProbeProofs` | TLAPS proofs about `Probe` | |
| `Paging` | the loops that count, find and sweep over pages | `client/grpc.go`, `cmd/sweep/main.go` |
| `PagingProofs` | TLAPS proofs about `Paging` | |
| `Benchmark` | the benchmark's account, its trials and its cleanups | `cmd/propagation-benchmark/main.go` |
| `BenchmarkProofs` | TLAPS proofs about `Benchmark` | |
| `MCCredentials`, `MCRootCredential`, `MCServiceAccounts`, `MCLeaseRenewal`, `MCProbe` | symmetry sets and small values for the runs | |

Handlers of the same kind share a `pc` per invocation; an action is the code
between two points where another goroutine or the cloud can be observed (an
RPC, a storage call, a lock). Local computation between them belongs to the
action before or after.

### Credentials

`pc[r]` walks the handler: `count` (`CountAPIKeys`), `mint` (`CreateApiKey`),
`await` (`awaitOperation`), `confirm` (`confirmAPIKeyExists`), `cleanup`, or
`respond`: the propagation probe and the response, at whose end Vault has
registered the lease or the response is lost and nobody has the key.
`del[k]` walks a running `DeleteAPIKey(k)`, called by a cleanup or by a
revocation: `get`, `delete`, `await`, `recheck`, `confirm`; `Return` is what
each caller makes of its result. `unfound` is `recheck` after a wait that ended
because `GetAsyncOperation` answered NotFound: `awaitOperation` maps that like any
failed call, so that the error the recheck hands back is `ErrNotFound`, which a
revocation takes for success. `ended[r]` is the handler's context: an RPC
sent after it ends fails. The wait for an operation may time out only where its
timer is shorter than what is left of its context, which is why the four timers
are constants of the module.

The cloud moves four things about a key one at a time: its record, whether it
is readable, and the two operations on it. `Faults` chooses what else goes
wrong. `noted[k]` is a history variable: how a key that nobody holds came to be
(an answer lost on its way to the handler or to Vault, a crash, a log line, a
lease closed on the operation's NotFound).

### ClientHandle

`Reading` and `Writing` are the holders of `clientMu`, derived from `pc`. A
request runs `ReadHandle`/`AcquireFast`, or `Lock`, `AcquireSlow` or
`ReadConfig` and `Build`, then `Release`. A writer stores a configuration
(`Store`) or is an invalidation, takes the handle away under the lock
(`TakeHandle`) and retires it outside (`Retire`), as `resetClient` does.
`config.version` counts changes; `built[c]` is the version a client was built
from and `since[r]` the newest change that had returned when a request began.

### RootCredential

One action per client call (what such a call does inside is `Credentials`'
matter). A key is alive or not; `using[r]` is the key the rotation's client
authenticates with, so a call under a dead key is refused. `cached` is the key
of the shared client; `Warm` is any other handler that fills the cache. Five
history variables say what became of a key that is no longer stored or held: a
warning or a log line named it (`named`), an operator's write or delete took it
out of the configuration (`displaced`), or nobody was told of it, because an error
return left it (`abandoned`), because the answer to its `CreateApiKey` never came,
so that the rotation has no key to name (`lost`), or because the process died with
it in hand (`crashed`). `used` and `reused` are the keys that ever
were in the configuration or submitted to it, and those of them that an operator
submitted again, which is the only way to store a key that is dead. `Heirs` and
`Replaced`, what rotations have on its way in and on its way out, map the handlers
to `KeySuccession`, whose `answered` are the named and the displaced and whose
`forgotten` are the other three. `DeleteAPIKey`'s result is a choice here: whatever
error it gives, the rotation names the key in a warning or a log line. A warning
counts as given once the handler returns it: what Vault does with the response is
not modelled here.

### LeaseRenewal

A clock, a policy that writes and deletes of the entry change at any time, one
key and its lease. A write names a field, names it as zero or leaves it out
(`Unset`); `Field` is what the handler makes of it. The recorded expiry is
rounded down to the second. `IssueUnstamped` is a lease from a release that did
not record it, which the code renews on the policy alone: nothing is claimed of
it. The case of a lease without an issue time is left out, because Vault always
records one. `SetRootTTL`, `Rotate` and `RotateEnds` are the same clock over the
root key, whose lifetime has no grace.

### ServiceAccounts

`fresh[r]` is `existing == nil`, `mine[r]` and `adopted[r]` the account and the
flag of the entry the write builds. `DeleteServiceAccount` is shared by the
delete handler and by the undoing of a creation; `Return` is what each makes of
its result, `unfound` the same NotFound of an operation as in `Credentials`: the
delete handler then goes on to erase the entry (`eraseUnfound`). Handlers overlap
freely; the history variable `overlapped` remembers
that they did, and `noted[a] = "overwritten"` that one stored or erased its own
account's entry over that of `a`, `noted[a] = "unfound"` that the entry was erased
although the account stands; `unsettled` holds the accounts an update was
sent to that no write has stored yet. Two assumptions about the cloud are made here
and nowhere else: at most one existing account has a name, and a mutation of an
account is refused while an update or deletion of it is being carried out. A
resource version that turned stale between a Get and the call it is for is one
of the failures of `"rpc"`.

### Probe

One credential read with `verify_propagation`, from the snapshot of the settings
(`Begin`) to the answer (`Return`). Between them the key is minted, which takes
any time the request has (`Tick` while `rpc = "mint"`). `ppc[n]` is the goroutine
of namespace `n`: an attempt, whose answer is any code at any time, or the wait
for a timer. When timer and context are both ready the model takes either, as
Go's `select` does. `streak[n]` and `prompt[n]` are history variables on the
environment's side: what the namespace really answered since its last other
answer, and whether it ever answered late or otherwise. Operators meanwhile
merge (`MergeSettings`) and store (`PutSettings`) `config/probe`, or delete it.

### Paging

Items have numbers in the order the server lists them, and a token is the number
of the last item of a page: a cursor, not an offset, so that a removal moves
nothing to a page that was read already. That is an assumption about Temporal
Cloud; with offsets the loops would skip items. The server may misbehave: it may
return the token it was asked with, or an earlier one (`Tokens`). `Patience`
stands for the context of a request; the sweep has none. `pages` counts the pages
a call was given, the sweep's up to `MaxPages`, one more than a server that never
goes back can give, so that the bound can be seen to fail.

### Benchmark

`pc` is where `run` and `runTrial` are. Keys are created by the raw RPC, so that
a key may work before `GetApiKey` finds it (`readable`), and a cleanup that finds
nothing takes it for deleted; `unseen` remembers such keys, and `unfound` those
whose accepted deletion was waited for and not found. `faulted` is a history
variable: a call to the cloud failed that was not cut short by the signal. An
account that `CreateServiceAccount` had asked for when the signal came may stand
without its ID being known (`accountID`).

## 3. The runs

| Run | Question | Result |
|---|---|---|
| `credentials_safety` | what can become of a key besides an owner or an end, what can close a lease on a working key, and does every step fit the abstract ledger? | holds |
| `credentials_liveness` | is every read answered, does every revocation end, when two requests contend for one slot? | holds |
| `credentials_cleanup` | does the cleanup ask for the deletion it promises? | **violated** |
| `credentials_unfound` | is the key gone when its revocation succeeds? | **violated** |
| `handle_safety` | no use after close, no leak, exact counts, a coherent cache, implements `SharedConnection`; are superseded connections closed and requests served? | holds |
| `root_safety` | can only a key that was submitted again stop working while it is in use, what can leave a root key unnoticed, does every step fit `KeySuccession`, and does every rotation get the mutex and return? | holds |
| `root_reuse` | does the stored credential work when an operator writes the stored key again? | **violated** |
| `renewal_safety` | does the key outlive the lease, and does the cloud accept its expiry, under every change of policy? | holds |
| `accounts_safety` | what can make an account be forgotten, is none unmarked or destroyed by a failed write, with handlers that overlap, and do storage and cloud agree but for an update nobody stored? | holds |
| `probe_verify` | does no warning mean a confirmed namespace, under settings that change meanwhile, is a healthy namespace confirmed, and does every verification end? | holds |
| `paging_lists` | is nothing missed, how many pages can a call be given, and does every call end? | holds |
| `benchmark_cleanup` | what does an interrupted or failing benchmark leave, and does it say so? | holds |

Every module has a type invariant, `TypeOK`; it is proved (section 5) and not
repeated in the runs.

### Bounds, and why they are enough

* *Credentials*: two keys and two reads. A third read meets only what a second
  meets: the code relates a handler to its own key and, through the count, to
  the number of the others. `MaxKeys` is the slot limit, 20 in the code: 2
  leaves room for both reads (`credentials_safety`), 1 makes them contend, so
  that a read which passed the count is refused by the cloud
  (`credentials_liveness`, one key). `credentials_unfound` needs one key and one
  read. A key is minted, deleted and purged once;
  identifiers are not reused.
* *ClientHandle*: two requests, two changes, two clients: one cached, and one
  superseded and still in use while it is being retired. The proofs of its
  safety need no bound.
* *RootCredential*: two rotations, one configuration call, two minted keys, two
  operator keys of which one was stored without its ID; either of them may be
  submitted again. The liveness property allows no symmetry, which is why there is
  one configuration call and not more: it may come between any two steps of the
  rotations, and the proofs of the safety properties and of the refinement are for
  any number of calls.
* *LeaseRenewal*: policies below and above the cloud's minimum expiry, asked for
  in full, in part, as zero and beyond the bounds; ticks finer than a second; a
  clock (`MaxTime`) that outlasts the longest key. The proofs need none of these.
* *ServiceAccounts*: two accounts the engine may create, one of somebody
  else's, two specifications, two handlers and an entry that may already exist
  (an earlier handler's work). Operations an earlier handler gave up on are
  still carried out while the next one runs. Two handlers are enough to overwrite
  an entry from an overlap; the proofs need no bound.
* *Probe*: two namespaces, two operators, three writes of which two are legal
  one by one and not together; a request of five units, a probe of four at most,
  intervals of one or two, up to three confirmations: the probe may have its full
  budget, less, or too little, and a streak may be broken and begun again. The
  context takes part at unit steps, so that "just before", "at" and "just after"
  an end are all met.
* *Paging*: four items, pages of two at most, a patience of four pages: a call
  may pass every item twice before its context ends. `MaxPages` is six, one more
than `PagesBounded` allows.
* *Benchmark*: three trials, so that one is neither first nor last, and two
  attempts (`cleanupAttempts` is 5 in the code; a cleanup tells only the
  last attempt from those before it).

Deadlock is not checked in the models whose handlers are used up: a system in
which every invocation has returned has stopped rightly. `LeaseRenewal` never
stops and checks it.

### Fairness

*Credentials* assumes that a handler runs and its timer fires (Go schedules it,
and every wait selects on its context), that Vault retries revocations, and that
the cloud ends what it accepts, deletes in the end a key it is asked again and
again to delete (strong fairness of `Remove`) and purges deleted records. The
last is needed: a deleted key that is still readable makes `DeleteApiKey` refuse,
so revocation converges only when the record goes. *ClientHandle* assumes weak
fairness of running goroutines and strong fairness of taking `clientMu`: Go's
RWMutex lets a waiting writer in before later readers. *RootCredential* assumes
the same of `rotateMu`, whose starvation mode hands it on, and weak fairness of
the steps of a rotation; a crash ends a rotation as `"killed"`. *Probe* assumes
that time passes, that an attempt is answered (its RPC has the context) and that
a goroutine whose timer or context is ready runs. *Paging* assumes that the loop
runs and its RPC returns.

## 4. What disagrees with the code's own words

1. **The cleanup of an unfinished mint asks for nothing** (`credentials_cleanup`).
   The handler has 55 s and the wait for an operation 60 s, so a wait that is too
   long always ends with the handler's context, and `DeleteAPIKey` is then called
   under that context (`path_creds.go:122`). The key keeps its slot for at least a
   day, against the comment above that line.
2. **An operation that is not found closes the lease on a working key**
   (`credentials_unfound`). `awaitOperation` maps a failed `GetAsyncOperation`
   like the failure of any other call (`client/async.go:57`), so that a NotFound
   of the *operation* becomes `ErrNotFound`. When the recheck finds the key still
   there, or cannot tell, `DeleteAPIKey` returns that error as it is
   (`client/grpc.go:268-271`), and `secretAPIKeyRevoke` takes it to say that the
   key is gone (`secret_api_key.go:154`): no retry, no log line. The comment at
   `grpc.go:261-263` expects "the retry is correct". The same error makes the
   delete handler erase the entry of a standing account
   (`path_service_accounts.go:451-461`, from `grpc.go:134-136`) and the benchmark
   pass over a key it could have reported
   (`cmd/propagation-benchmark/main.go:348`). Each of these is the exception
   `unfound` of a property that otherwise holds: `RevokedIsGone`,
   `NoForgottenAccount` and `ErasedWhenGone`, `NoSilentLeftover`. A NotFound while
   a creation is awaited does no such harm: it leads to the cleanup.
3. **A configuration write can store a key that a rotation has deleted**
   (`root_reuse`). The write is not under `rotateMu`; with the same key written
   again, to change another field, the stored credential ends up dead.
   `OnlyReuseBricks`, proved in section 5, says that nothing else can do it.

Limits of the code that the properties name as their exceptions, each of them
reached in the runs:

* Three things leave a working Global Admin key that no warning and no log line
  names, although the repository's README (244-246) calls a warning that names one
  the worst case of an intermediate failure: a rotation that cannot store the new
  key, or cannot build a client for it, returns at `path_rotate_root.go:111` (or 89)
  (`abandoned`); when the answer to `CreateApiKey` is lost, `CreateAPIKey` returns no
  key and the handler has nothing to delete or to name (`path_rotate_root.go:65-78`;
  `lost`); and a crash between mint and return (`crashed`). `NoOrphanedRootKey` says
  that there is no fourth, and no interleaving that does it.
* The same two accidents leave a credential without a lease: the answer to the mint
  is lost, or the engine's response, after the read-back and up to 50 s of probing
  (`path_creds.go:159-163`), or the process dies before Vault has registered the
  lease: `lost` and `crashed` in `NoUnexplainedOrphan`. Such a key lives until its
  expiry.
* An update that timed out may take effect later, while the stored entry keeps the
  old specification. Writing that specification again calls nothing, because it
  equals what is stored (`path_service_accounts.go:341`), and storage and cloud stay
  apart until another one is written: `unsettled` in `StorageAgrees`.
* A rotation stores a copy of the configuration it read before it minted
  (`path_rotate_root.go:106`): a configuration written in the meantime is
  overwritten, and a deleted one is back. `Succeed` in `KeySuccession` says how far
  that goes: what is overwritten is then an operator's key, and the key that is
  deleted next is one an operator has given up.
* Nothing makes handlers of one service-accounts entry take turns. An update that
  needs no call and read the entry first, overtaken by a delete and a new create,
  stores its old entry over that of the new account: `overlapped` in
  `NoForgottenAccount`.
* `root_key_ttl` of exactly the minimum, 24 h, passes the check of
  `path_config.go:162`, which is there so that the operator hears of a value that
  cannot be honoured "here rather than from a failed rotate-root later". The
  rotation's expiry is `time.Now()` plus that, computed before the request
  travels, so that it arrives below the minimum. The expiry of a credential has a
  grace on top of the same minimum for this reason (`path_creds.go:103`). If the
  cloud's minimum is the one the code names, such a rotation is refused: the
  second conjunct of `CloudAcceptsExpiry`.
* The benchmark takes *not found* for *deleted* when it cleans up a key
  (`cmd/propagation-benchmark/main.go:348`), also of a key that is not readable
  yet: `unseen` in `NoSilentLeftover`. The account's deletion at the end takes
  the key along. Its account cleanup, on the other hand, counts *not found* as a
  failure, and may warn of an account that an earlier attempt deleted.
* A signal that cuts the creation of the benchmark's account short leaves that
  account without a word if its ID had not come yet
  (`cmd/propagation-benchmark/main.go:118-121`, 327-338), though the comment at
  lines 92-93 has both signals delete it; if the ID had come and the account cannot
  be read yet, its cleanup warns. `InterruptLeavesNothing` says that this is the only
  such moment, and that then there are no keys.
* The sweep has no deadline: a server whose tokens go in circles of two or more
  keeps it for ever (`CallEnds`).

## 5. The proofs

TLC checks small instances; TLAPS proves the theorems below for every value of
the constants.

**CredentialsProofs.** Assumed: `KeysAssumption`, and only that `NoKey` is not a
key; nothing about the number of requests, the slots or the faults. *A revoked
key is gone* is not inductive: two of `DeleteAPIKey`'s returns conclude it from
a read that found nothing, and reads lag; and a third from an operation that was
not found, which is the property's exception: a deletion had been asked for
(`DeletionsAreSent`). What makes the conclusion sound is that whoever asks has
seen the key readable before: a lease is granted only on a read-back, and a
deletion passes its first `Get` only on a readable key (`CustodyIsClear`). That
nobody but one handler or one lease answers for a key rests on the cloud giving
each key out once (`KeysAreDealtOnce`). `DeleteKnows` lists every answer
`DeleteAPIKey` can return with what it knows by then; `ReturnKeeps` is what its
two callers make of it. On top of that `Orderly` says when a deletion may start
at all. From these: `TypeCorrect`, `RevokedMeansGone`, `OrphansAreExplained`,
`OneCustodianHolds`, the action property `LeasedKeysAreLeftAlone`, and
`LedgerImplemented`, whose mapping (`Life`, `Custody` and the keys whose
deletion was asked for) is computed case by case before and after a step.
`LedgerPromise` carries the ledger's own promise over: it is proved once of
`CredentialLedger` and needs nothing of the handlers but the refinement.

**ClientHandleProofs.** Assumed: finitely many requests (`RequestsAssumption`)
and that `NoClient` is not a client. That no connection closes under a user is
not inductive by itself: it rests on the count being exact, which rests on who
may touch it. `Inductive` therefore joins the lock discipline (a writer of
`clientMu` excludes all others, and what a reader read is still the cached
handle), that each client has one retirer, where each client is in its life, and
the exact count. One lemma says that `acquire` adds one user and one to the
count, another that `release` takes one of each away; the step lemma has a case
per action. From it follow `TypeCorrect`, `CountExact`, `NeverUsedAfterClose`,
`ClosedForGood` and `ConnectionImplemented` (the initial state maps to an initial
state of `SharedConnection`, every step to a step or a stutter), which carries over
what `SharedConnection` promises (`ConnectionPromise`). Three more
invariants stand on it: `Accounted` (a built client is cached, retired or about
to be, and closed if retired and unused) for `NothingLeaks`, `Coherent` (what a
builder has read stays the stored configuration until a change is about to reset
the client) for `CacheCoherent`, and `Fresh` (the cached client and the one being
built are as new as every change whose reset has taken the handle) for
`ClientFresh`.

**RootCredentialProofs.** Assumed: `KeysAssumption` and `RotationsAssumption`. The
base is `Exclusive` (who is past the lock holds `rotateMu`), with its converse
`MutexHasHolder` (`MutexGivenBack`), `Held` (what a handler holds is a key that was
minted or submitted) and `ReadStill` (until it stores its own, the stored key is
the one a rotation read, or it is an operator's and what was read was given up);
on it stand `NoOrphan` and `ReplacedSettled`. `StoredWorks`, `CachedWorks` and
`OnlyReplacedDie` except the keys in `reused` and no others, and `root_reuse`
shows that the exception is real. They rest on `Works`: the stored, the cached and
every submitted key are alive or reused, and none of them is one a rotation is
about to delete, because a key that is being replaced was used (`Origin`,
`Replacing`) and an unused key belongs to nobody (`Unused`). `SuccessionImplemented`
is the refinement of `KeySuccession`, forgotten keys apart from those answered for:
`HandsNow` and `HandsNext` compute `Heirs` and
`Replaced` from the one rotation that `rotateMu` lets through, and there is a lemma
each for the steps of rotations, configuration calls and crashes. Its promise
carries over as `SuccessionPromise`.

**LeaseRenewalProofs.** Assumed: `TimesAssumption` (the credential budget is
shorter than the grace: 55 s and 10 min; the bounds leave room for a grace) and
`AsksAssumption`. Inductive is that a policy and a root_key_ttl in force are
legal, that a key under way was given its lifetime no longer ago than the budget,
and that a recorded expiry is behind every end its lease was ever given. Lemmas:
rounding down to the second yields an earlier time, a lifetime covers max_ttl and
the minimum, and a ceiling on a recorded expiry ends the lease a grace before it.
From these: a valid lease has a working key, the cloud never refuses the expiry
but in the case above, a renewal never exceeds the policy of the day.

**ServiceAccountsProofs.** Assumed: `AccountsAssumption`. `Shape` and `Created`
say where a handler is and what it has found out by then: that what it undoes it
has created itself, and that somebody else's account is held as adopted. With
`Visible` (an account a handler goes on to store or delete was readable, so that
a read that finds nothing means it is gone) they give `NoneForgotten`,
`AdoptedMarked`, `ForeignSurvives` and `ErasedGone` for handlers that overlap in
any way; the exception of the first and the last is a deletion the cloud had
accepted (`DeletionAccepted`). `Serial` and `Enforced` add what holds while they
have not: the running handler's entry is the stored one, and what it sent is
what the cloud enforces. `SameSpec` is what `StorageAgrees` needs besides
(`AgreesThroughout`): a write that stores without a call to the cloud stores the
specification that was there before.

**ProbeProofs.** Assumed: `BoundsAssumption` (the bounds are positive and the
defaults are legal) and `AsksAssumption`. `Counting` is that a
run is the namespace's own streak, spread over at least (run - 1) intervals, with
the next attempt no earlier than another interval; it needs `CfgLegal`, that the
snapshot is legal, and gives `SilenceConfirms`. `Prompt` says where the probe of
a namespace is that answered at once every time: at `started + run * interval`
exactly. The window of the last attempt lies inside the probe because the
settings are legal, which is where the strict inequality of
`validateProbeConfig` is used, so such a probe does not fail. The arithmetic of
products is in the lemmas `Times` and `TimesMonotone`.

**PagingProofs.** Assumed: `ItemsAssumption`. Inductive is `Reached` (everything
wanted up to the token has been seen), `Counted` (the count is no less than what
was seen and, if the server never went back, no more) and `Looked`. One lemma
says what a page and its token are. For `PagesBounded` (`PagesEnd`) it is
`Measured`: each page beyond the first had a token greater than the last, so
that the pages are no more than the items the token has passed; that is a
statement about cardinalities, and `PassedGrows` and `CardinalityAdds` are its
arithmetic.

**BenchmarkProofs.** Assumed: `CountsAssumption`. Inductive is `Progress` (the
trials so far are those known), `KeysSettled` (where a known key may still work,
but for one its cleanup could not see or was told of no deletion of),
`AccountSettled` and `Standing`: keys are made for a standing account and go with
it, so that a run which ends with an account, and in which nothing failed, never
made a key. That is what `InterruptLeaves` needs.

**Only model-checked**: every liveness property (`EveryRequestReturns`,
`RevocationEnds`, `SupersededCloses`, `EveryRequestServed`, `RotationReturns`,
`RequestReturns`, `CallEnds`) and the violations. Liveness under fairness (and
ENABLED) is out of the prover's reach, as is induction over data. Two of them have
a safety half that is proved: `MutexHasHolder` for `RotationReturns`, `PagesBounded`
for `CallEnds`.

**Only proved**: `TypeOK` of every module; `ReplacedKeyIsSettled` and
`OnlyReplacedKeysDie`, which the runs check as parts of `ImplementsSuccession`;
`StoredWhenEnforced`, a part of `StorageAgrees`; and `MutexHasHolder`.

No definition here is recursive.

## 6. Not modelled

* *Token and permission parsing* (`client/token.go`, `client/access.go`,
  `parseNamespaceAccess`, `specFromProto`): stateless conversions by table and by
  splitting strings. What could be wrong there is a row of a table, which the
  unit tests list in full; a model would copy the table.
* *The other fields of a write*: the merge of description, `namespace_access`,
  `verify_propagation` and `address` follows the rule modelled as `Field`, and no
  property tells their values apart. A configuration write also reads the key's
  own ID and its owner; here it only finds that the key works.
* *Client construction* (`client/client.go`, `NewGRPC`): dialling is I/O; its
  failure is a choice in `ClientHandle` and `RootCredential`.
* *Plugin entry point, scripts*: no state. Of the benchmark, its measurements and
  its output.
* *Reads and lists*, which change nothing; wording and logging (a log line is an
  event only where a property needs it).
* *Several entries and mounts at once*: entries share only the client, which
  `ClientHandle` models for any number of users, and the count of an account's
  keys, which belongs to one entry.
* *A client shared between a rotation and a credential read that began before it*
  is divided: `CachedClientWorks` says who may hold a dead credential (only a
  handler that took its client before the replaced key was deleted), and
  `Credentials` lets every call fail at any time (`"rpc"`), which covers what
  becomes of that handler.
