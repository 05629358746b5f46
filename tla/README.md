# Formal models of AnoRebel/licensing

TLA+ models of the license issuer, its storage and HTTP layers, the device
client and the admin console of this repository, TLC configurations that check
them on small instances, and TLAPS proofs of their safety properties for every
instance, some under hypotheses that section 5 names. The TypeScript port (`typescript/src`) is what the modules translate; the Go port
(`licensing/`) mirrors it function by function, and where the two differ in a
way a property can tell, this text says so. Paths below are relative to
`typescript/src` unless they start with `admin/` or `docs/`.

## 1. The system

| Part | State | Operations |
|---|---|---|
| Lifecycle (`lifecycle.ts`) | a license's status and end dates | activate, suspend, resume, revoke, expire, renew, tick; effectiveStatus |
| License service (`license-service.ts`) | `licenses` rows, the license key | createLicense, findLicenseByKey, rotateLicenseKey |
| Usage service (`usage-service.ts`) | `license_usages` rows (seats) | registerUsage, revokeUsage, sweepInactiveUsages |
| Token service, codecs (`token-service.ts`, `lic1.ts`, `lic2.ts`) | none of their own | issueToken; encode, decode, verify |
| Key hierarchy, scope service (`key-hierarchy.ts`, `scope-service.ts`) | `license_keys` rows | generateRoot, issueSigning, rotateSigning, verifyAttestation |
| HTTP handlers (`http/*-handlers.ts`) | requests in flight | activate, refresh, heartbeat, deactivate; the admin routes |
| HTTP pipeline (`http/adapters`, router, auth, `rate-limit.ts`, `middleware`) | buckets, requests in flight | adapt, match, authenticate, limit, guard, answer |
| Storage (`storage/{memory,sqlite,postgres}`) | all tables, open transactions, cursors | reads, writes, lists, withTransaction |
| High-level issuer (`Issuer` in `easy.ts`), templates, trials | trial rows, templates, a cached signer | issue, createLicenseFromTemplate, resolveTemplate, ensureSigningKey |
| Client SDK (`client/*`, `Client` in `easy.ts`) | stored token and grace start | activate, validate, refresh, guard, heartbeat, deactivate |
| Replay ledger (`client/jti-ledger.ts`) | seen token ids | recordJtiUse, pruneExpired |
| licensing-keys (`cli/*`) | a key file | make-root, issue-signing, rotate, list, show |
| Admin console (`admin/`) | session cookie; per tab the rows, filters, ticks, forms | sign in and out, list, bulk actions, detail pages, template form |
| Cryptography, fingerprint | none | signing, hashing |

**How they interact.** Services reach their rows only through a `Storage`, and
change them inside `withTransaction`. An HTTP handler is a chain of awaited
storage calls; other requests run at every await. Several handlers read a row
*before* the transaction that acts on it. Devices hold a signed token and work
offline between refreshes; the issuer learns of them through refreshes and
heartbeats, they learn of revocations the same way. The console's tabs share one
cookie and reach the admin routes through a proxy that adds the bearer token.

**What is hard here**, and what correctness means:

* *Seats*: a device holds at most one live seat of a license, live seats stay
  within `max_usages`, a revoked seat never comes back, its end is audited once.
* *Lifecycle*: `revoked` is terminal; the audit log is a chain that ends in the
  stored status; persisting a time-implied status changes nothing for readers.
* *Tokens*: issued only for a seat that was live on a usable license at one
  moment of the request; signed inside the license's tenant; accepted exactly
  when a trusted key issued them; a single-use token used once per window.
* *Keys*: one active signer per scope, never none after the first, an unforked
  rotation chain, also when several issuers start together.
* *Storage*: three adapters that accept, refuse, list and count alike; cursors
  that return every row once; transactions that are all or nothing.
* *Issuance*: template chains walked within a bound and merged exactly, trials a
  cooldown apart.
* *Pipeline*: no handler without its checks, every request answered, a limiter
  that keeps its word to callers that wait their turn.
* *Device*: grace state consistent with the token it belongs to and not
  extended from inside; offline use of a revoked license bounded; once
  connectivity is back, revocations arrive and grace ends.
* *Console*: an action hits what the operator saw, a page shows the operator's
  own writes, edits are not lost, a partial update changes what it names.

`PROJECT.json` lists every component, the hazards at their lines, and for each
definition the source lines it stands for.

## 2. Modules

```
Lifecycle ─┬─ Licensing ─┬─ MCLicensing
(operators)│ (one step   └─ IssuerHTTP ─┬─ LicensingProofs   (about both)
           │  per op)  (one step per    └─ MCIssuerHTTP
           │            await)
           └─ AdminApi ── AdminConsole ── ConsoleProofs    (routes; browser tabs)
PostgresTx ─┬─ PostgresTxProofs             (one step per SQL statement)
            └─ MCPostgresTx
KeyHierarchy ─┬─ ScopeKeys ─┬─ KeyProofs
 (operators)  └─ KeyCli ────┴─ MCKeys
Client ─┬─ ClientProofs                     (one step per await of the device)
        └─ MCClient

StorageRows ─┬─ MemoryStorage ───────────────────┐
             ├─ SqlSchema ─┬─ SqliteStorage ─────┤
             │             └─ PostgresStorage ───┤
             ├─ LicenseStats ────────────────────┤
             └─ StorageContract ── StorageMachine ── StorageSessions ─┬─ StorageProofs
                (abstract spec)    (refines it)                       └─ MCStorage
Templates ── Issuance ─┬─ IssuanceProofs
                       └─ MCIssuance
Tokens ── Verifier ─┬─ MCVerifier ──── MCGateway
          Pipeline ─┴────────────────┴─ GatewayProofs
```

**Lifecycle** holds the license row and, for each function of `lifecycle.ts`,
what it demands (`maySuspend`, ...) and the row it writes (`suspended`, ...).
`effectiveStatus` is the read-time view: past `expires_at` an active license
reads as `grace` until `grace_until`, then as `expired`.

**Licensing** is the issuer's store with every operation of the license, usage
and lifecycle services as one step: `createLicense`, `updateLicense` (the PATCH
route), the transitions, `rotateLicenseKey`, `registerUsage` (idempotent
lookup, cap, insertion, promotion of a pending license), `revokeUsage`,
`Heartbeat`, `sweepInactiveUsages`. Time is a counter; a license key is its
rotation number. `audit` keeps the last lifecycle audit row of a license (the
properties relate consecutive rows through action formulas); `seatAudit` counts,
for each seat, the audit rows that tell of its end. `rotateLicenseKey` writes
one row with the number of seats it ended, which counts for each of them.

**IssuerHTTP** takes the TypeScript handlers apart: a request is a process, and
each awaited storage call outside a transaction is a step. The admin routes
read the license first and hand that row to the transaction; `/activate`
resolves the key, registers in a transaction and then signs; `/refresh` reads
token, license and usage one after the other; the sweep collects in one
transaction and revokes each seat in its own. A transaction is one step.
`seenLive` is an auxiliary variable: the seats that were live at some moment of
each request.

**PostgresTx** opens the transactions of the Postgres adapter. `BEGIN` without
a level means READ COMMITTED, so each statement sees what is committed when it
starts, and what a transaction writes shows at its COMMIT; `createUsage` locks
the license row only after `registerUsage` has counted. Every statement that can
wait is a step of its own: for the license row (`FOR UPDATE`, `UPDATE`, and the
key-share lock that the foreign key of an audit or usage INSERT takes), for a
usage row another transaction is updating, for an entry of the partial unique
index that another transaction added or may free. A registration that hits the
index rolls back. A registration and the revocation of the same device's seat
can wait for each other, one for the index entry and the other for the license
row (`lockCycle`); Postgres' deadlock detector then fails one (`DeadlockVictim`).

**KeyHierarchy** holds key records and what the hierarchy's methods check and
write. An attestation is what it covers; kid, algorithm, public key and
`not_before` never change, so what is left is the root and `not_after`.
**ScopeKeys** runs them in the issuer's transactions behind the admin routes
(which look a root up first), next to `issueToken`, which looks the signer up in
two queries and signs later. **KeyCli** runs them over the CLI's file: each put
or update rewrites the file by an atomic rename, and a command that throws or is
killed leaves what it has flushed.

**Client** is one device: the application's calls and the heartbeat are
processes, and a store read, a request, the issuer's processing, the answer and
a store write are steps. The link may fail at any time, in which case a request
in flight ends without an answer whether or not it was processed
(`Lose`). The issuer's handlers are taken apart too: the reads of
license and usage and the signature are steps (`ServeVerify`, `ServeLicense`,
`ServeUsage`, `issueToken`; `ServeActivate`), and a revocation may fall between
them; a request lasts at most `Timeout`, the client's own limit in `postJson`. `exp`,
`force_online_after` and the grace window are numbers; `Client.refresh`'s health
probe and rollback, `guard`, activation and deactivation are included, as is a
crash of the process (the store is renamed into place, so it survives whole).
`IssuerMatchesSDK` chooses between the issuer of this repository (`FALSE`: it
does not send the ids `activate()` insists on and does not take the body
`deactivate()` sends) and one that speaks the client's dialect, so that what
follows a successful activation or deactivation is explored too.

**StorageRows** holds the tables and the vocabulary of the adapters;
**MemoryStorage**, **SqliteStorage** and **PostgresStorage** define each write
of the `Storage` interface as a function from a database to a result and a new
database, and each list as the rows it selects. The memory adapter checks by
hand; the two SQL adapters meet the indexes, references and checks of
**SqlSchema** and turn the driver's error into a constraint name, SQLite by
re-deriving it from the columns named in the message. **LicenseStats** is the
shared statistics function, fed by each adapter in its own way: Postgres hands it
`Date` objects where it compares strings, so one figure, the licenses that expire
within 30 days, is always 0 there (section 4).
**StorageContract** is the abstract specification: rows of a table never share a
unique key (a null column is a value like any other), references resolve,
template parents form a forest, natural keys never change, audit rows stay and
only trial rows can be deleted. **StorageMachine** has one client make every
write the types allow, refused ones included, against one adapter; in every state
the three adapters are compared on every call the client could make next and on
every list and statistic, and the machine is checked to implement
`StorageContract` (`ImplementsContract`). **StorageSessions** adds what outlives
one call: a walk through pages with the opaque cursor while rows are inserted,
and transactions, where the memory adapter swaps a snapshot in up front and
SQLite's callers share a connection, so that other callers' statements run
inside an open transaction. A page has the limit asked for, the default when none
is, and never more than the adapters' maximum. A clock tick is finer than a millisecond: JavaScript
instants are truncated to it, Postgres keeps the tick.

**Templates** has the deep merge of entitlements and the computed dates.
**Issuance** is the high-level issuer, one step per awaited call: `issue()` walks
the parent chain one read at a time while templates are edited, checks the trial
row, deletes a spent one, creates the license and records the trial, and may fail
between any two of these, while the PATCH route edits parents, durations and
trial cooldowns; `createLicenseFromTemplate`; `ensureSigningKey` of several
issuers, of one algorithm or of two, starting together, with its cached key, next
to rotations. It looks for a signer of its algorithm, while the unique index
admits one active signer a scope whatever the algorithm.

**Tokens** has canonical JSON, the strict parser, both codecs behind the prefix
router, and `verify`, with text abstracted to its structure and ideal
signatures. **Verifier** is `validate`, `peek` and the replay ledger in two
processes with skews of their own: envelopes with every mix of damaged or swapped
parts, every mix of claim values, and repeated presentations with lost answers
and pruning. **Pipeline** is the way of a request of any method through one of five
framework adapters (Express with and without `express.json()` before it), the
router, authentication and the token bucket to a handler that may throw, and the
guard an application puts before its own routes. The router marks public routes
by a header of the request, which authentication and a limiter with `skipPublic`
test (`flagged`); since the adapters copy the request's headers, it may also be
there from the start. A behaviour of **MCGateway** moves one of the two.

**AdminApi** states every admin route as a function of the database and the row
its first read returned: validators, writes, audit rows, answers.
**AdminConsole** puts browser tabs in front of it: a request leaves with the
cookie of that moment, the proxy and the handler's first read are a step, the
write and the answer another, and answers arrive in any order or not at all. It
covers the license table (filters, cursor stack, ticks, bulk actions with one
request per target), the detail pages, the template form and the session. A read
of the list that fails unmounts the table and leaves the page's selection behind;
the license page's audit timeline is a component that reads for itself. Direct callers of the API change the
same rows. `Unit` is the number of database rows a model row stands for, so that
the UI's `limit=200` and the route's cap of 100 differ.

Modules with a `focus` (or `pipe`, `part`, `site`) variable cover several concerns
that share definitions and no state; it is chosen in the initial state and never
changes.

Definitions named `x_Something` are plausible mistakes in `x`; they are used by no
module and exist to show that the properties notice them.

## 3. Runs

| Configuration | Bounds | Shows |
|---|---|---|
| `MCLicensing` | 1 license, 2 devices, 3 usage rows, cap ≤ 2, clock 0..2 | all services, each operation alone |
| `HTTPSeats` | 2 requests in flight, 2 devices, 2 rows, cap patched between 1 and 2, idle after 1, clock 0..2 | activations, heartbeats, deactivations, seat revocations, patches and the inactivity sweep interleaved |
| `HTTPRequests` | 2 requests in flight, 1 device, 2 rows, cap 1, end date 2, clock 0..2 | stale admin transitions, deletion, key rotation and the expiry sweep against activations and refreshes |
| `PgSeats` | 2 connections, 2 devices, 3 rows | seats and progress at READ COMMITTED, lock cycles included |
| `Keys` | 2 requests, 4 keys, the global scope and one other, 2 algorithms; 1 kill of a command | key creation, rotation and signing interleaved; failing and killed commands |
| `ClientStore` | 1 call next to the heartbeat, 2 tokens, 2 seats, 1 crash, requests of up to 1 tick, clock 0..3 | the device's store, every operation |
| `ClientLive` | 1 call, heartbeat, 2 tokens, requests of up to 1 tick, clock 0..3 | liveness, below |
| `Storage` | 1 to 3 rows a table, walk cap 4; 4 ticks, limits 1, 3 and the default, cut at 2; 2 callers with 2 writes each | adapters against each other and against the contract, cursors, transactions |
| `Issuance` | 2 calls, 4 templates, 3 entitlement objects, depth caps 1 and 2, default cooldown 1, a template's cooldown absent or 2, 2 edits, clock 0..3, 3 licenses, 2 algorithms, 6 keys, 1 failure | inheritance, end dates, trials, start-up |
| `Gateway` | 2 requests in flight of 3, 2 peers, burst 1, a token per 2 s, limits on node, `skipPublic` on hono, clock 0..5; 2 verifiers, 4 kids (one bound to the wrong algorithm, one unknown), now 0..4, 3 calls, 1 lost ledger answer | pipeline, limiter, codecs, validate, replay |
| `Console` | 2 tabs, 2 bearer tokens, 4 clicks (2 on detail pages), 1 lost answer | partial updates, table, pages, form, session |
| `StaleAdmin` | 2 requests in flight, 1 row, end date 1, clock 0..1 | ends with a counterexample, section 4 |

Why these bounds are enough to be interesting: two requests suffice for every
race between a stale read and a write. Three usage rows (`MCLicensing`) let a
device lose a seat and come back while another holds one. The clock passes the
idle limit of a seat (`HTTPSeats`: a sweep that has collected it finds it ended,
or beaten again), the end dates and a token's refresh window (`exp + TTL`, `HTTPRequests`),
`force_online_after`, the grace window and `exp` (`ClientStore`; in `ClientLive`
the token outlives its grace window, so that `GraceExpired` happens with a token
that is still good). `ClientStore` sets the proactive threshold so high that a
refresh is always due: on so short a clock none would otherwise be tried, and
fail, before `force_online_after`. Four keys allow a root and a chain of two
rotations, or a root and a key in each of two scopes. Three templates make a
cycle that no single update closes by itself, and four a chain longer than the
depth caps. In `Storage` the walk cap exceeds the number of templates, as the
code's 64 is meant to; section 4 says what happens when it does not. Two ticks
make a millisecond, so that rows of one millisecond and rows a tick apart both
occur. In `Storage` only the pairs in `Conforming` (`MCStorage`) are claimed to
implement the contract.

Several properties are conjunctions of named parts, each with a comment and a
mistake of its own: `AdaptersAgree`, `TemplatesExact`, `PipelineExact`,
`LimiterHonest`, `CodecsExact`, `ValidateExact`, `LedgerExact`, `ListExact`,
`DetailExact`. Each module also has a type invariant (`HTTPTypeOK`,
`ClientTypeOK`, `PgTypeOK`, `KeysTypeOK`, `CliTypeOK`, `StorageTypeOK`,
`IssuanceTypeOK`, `PipeTypeOK`, `VerifierTypeOK`, `ConsoleTypeOK`); these, and
`SeatedLeftPending`, `KeysAttested` and `CliKeysStay`, hold as well when added to
the configuration of their module.

Rows, devices, processes and kids are interchangeable in their runs and
declared symmetric where the run has no liveness property and the module takes
no `CHOOSE` among them. Bounds on ids and counters are conjuncts of guards, named
in the modules. Deadlock checking is off where the system rightly stops: when
row ids, kids, clicks, requests or the clock are used up.

**Fairness.** `Client!FairSpec` assumes weak fairness of each call in progress
(promises settle: `fetch` has a timeout, the store is local) and of the
heartbeat's interval timer. Nobody owes the application another call, and the
link need not come back: the liveness properties assume it themselves
(`<>[]up`). `PostgresTx!FairSpec` assumes strong fairness of each transaction's
next statement, since Postgres grants row locks in queue order, and weak fairness
of its deadlock detector. `PipeFairness` assumes
weak fairness of serving each request that is in the pipeline: Node runs the
continuation of a settled promise, and every store and verifier call settles.
The other modules state no liveness.

**Liveness results.** `RevocationSticks`: if the link eventually stays up, a
revoked license's device ends up without a token for good, or with an expired
one; a refresh answer in flight can delay this, not prevent it. `OutageEnds`:
if the link and the license are eventually fine, grace ends, also after
`GraceExpired`, from which only the heartbeat (or an activation) recovers since
`refresh` no longer calls the issuer. `PgTransactionsEnd`: no transaction waits
for ever, for the license row, a usage row or an index entry; the lock cycle above
does occur, and ends only because Postgres fails one of the two. `EveryRequestAnswered`: a request that entered the
pipeline is answered, also when verifier, limiter or handler throws.

## 4. What the code does against what it says

`StaleAdmin` is listed in `PROJECT.json` as a run that ends with a
counterexample: suspend, resume or renew with a row read before a concurrent
revoke takes a license out of `revoked` (`http/admin-handlers.ts:353`), which
`lifecycle.ts:32` calls "terminal (no further transitions allowed)". The Go
handlers read inside the transaction and do not show this.

The modules state further sentences of the code and its comments as properties
that TLC refutes. To reproduce one, take the configuration named, replace its
properties by the one in the first column, change the constants named, and run
it with the configuration's module. Each ends with a counterexample within a
minute.

*Requests and transactions* (`MCIssuerHTTP`, `MCPostgresTx`)

| Property | From | Line | What the code says of itself |
|---|---|---|---|
| `RotationEvictsOldKey` | `HTTPRequests` | `http/client-handlers.ts:161` | "forcing each device to re-activate with the new key" (`license-service.ts:153`) |
| `SweepSparesLiveSeats` | `HTTPSeats`, `MaxTime = 3` | `usage-service.ts:321` | "Revokes active seats whose last heartbeat is older than" (`usage-service.ts:256`) |
| `DeleteLeavesNoSeat` | `HTTPRequests` | `http/admin-handlers.ts:326` | "reject if any usages are still active" (line 325) |
| `PgSeatsWithinCap` | `PgSeats`, `MaxUsages = 1` | `storage/postgres/adapter.ts:573` | "two racing registrations can't both pass this check" (`usage-service.ts:82`) |
| `PgSeatEndAuditedOnce` | `PgSeats` | `usage-service.ts:148` | "No-op if already revoked" (line 136) |
| `PgRevokedIsTerminal` | `PgSeats` | `usage-service.ts:117` | "terminal (no further transitions allowed)" (`lifecycle.ts:32`) |

*The device* (`MCClient`)

| Property | From | Line | What the code says of itself |
|---|---|---|---|
| `GuardUsableInGrace` | `ClientStore` | `client/validate.ts:153` | "still valid offline within the grace window" (`easy.ts:680`): `validate` refuses past `force_online_after`, and grace only exists past it |
| `HeartbeatNeverClobbers` | `ClientStore` | `client/heartbeat.ts:181` | "a parallel Refresh that wrote a fresh token isn't clobbered" (line 146) |
| `OnlyActivateFillsStore` | `ClientStore`, `Callers = {a, b}`, `Ops = {"refresh", "deactivate"}` | `client/refresh.ts:113` | "a subsequent `validate()` returns `NoToken`" (`client/deactivate.ts:5`) |
| `GraceOnlyWithoutAnswer` | `ClientLive`, `TTL = 1` | `client/errors.ts:171` | "an authoritative response we must NOT mask with grace" (`client/refresh.ts:116`) |
| `ActivationPersists` | `ClientStore`, `IssuerMatchesSDK = FALSE` | `client/activate.ts:84` | "On success, persists the returned token" (line 56) |

*Keys* (`MCKeys`, from `Keys`)

| Property | Line | What the code says of itself |
|---|---|---|
| `NotAfterEnforced` | `http/client-handlers.ts:68` | "still valid for `verify`) until its `not_after`" (`key-hierarchy.ts:19`) |
| `CliSignerNeverLost` | `key-hierarchy.ts:379` | "either complete fully and persist, or throw before persisting partial state" (line 176) |
| `CliOneActivePerScope` | `key-hierarchy.ts:277` | "At most one `active` signing key per (scope_id, role='signing')" (line 17) |
| `CliKeysAttested` | `key-hierarchy.ts:374` | "the stored attestation signature verifies" (line 408) |

*Storage* (`MCStorage`, from `Storage`)

| Property | Constants | Line | What is not so |
|---|---|---|---|
| `ImplementsContract` | `Wirings <- MemoryTemplates` | `storage/memory/adapter.ts`, `updateTemplate` | (scope, name) is unique in `describeSchema()`; the update does not look again |
| `ImplementsContract` | `Wirings <- MemoryLicenses` | `storage/memory/adapter.ts`, `updateLicense` | a patch of `scope_id` may repeat a licensable in the new scope |
| `ImplementsContract` | `WalkCap = 1` | `storage/memory/adapter.ts:138` | the cycle check gives up after its cap, and lets a longer cycle in |
| `PagesExact` | `Wirings <- PostgresPages` | `storage/postgres/adapter.ts:1094` | the cursor holds milliseconds, `created_at` microseconds: rows are skipped |
| `AcknowledgedWritesStay` | | `storage/memory/adapter.ts:774` | an acknowledged write goes with the rollback of another caller's transaction (SQLite too) |
| `ListsAgree` | `StatusLists = {{}}` | `storage/memory/adapter.ts:224` | an empty status list selects nothing in memory, everything in SQL |
| `GlobalTemplatesListed` | `Wirings <- MemoryTemplates` | `storage/postgres/adapter.ts:495` | listing global templates pushes a parameter no clause mentions |
| `ExpiringAgrees` | | `storage/postgres/adapter.ts:918` | "the three adapters can't drift" (`storage/stats.ts:9`): Postgres rows carry a `Date`, which is compared with a string, and `expiring_within_30d` is always 0 |

*Issuance* (`MCIssuance`, from `Issuance`)

| Property | Line | What the code says of itself |
|---|---|---|
| `OneTrialLicensePerCooldown` | `easy.ts:301` | "Re-issuing a trial within the cooldown window fails" (line 163) |
| `NullCooldownNeverRefuses` | `easy.ts:286` | "Null = no cooldown enforced" (`template-service.ts:56`) |
| `IssueTakesTemplateGrace` | `easy.ts:245` | "`graceUntil`, and other inheritable fields default from the resolved template" (line 219) |
| `CachedSignerIsActive`, `CachedSignerInScope` | `easy.ts:348` | "Returns the active signing key" for "the configured algorithm + scope" (line 338) |
| `LoserFindsSigner` | `easy.ts:348` | "Ensure an active signing key exists for the configured algorithm + scope" (line 338): one of another algorithm that was first keeps it out for good |

*Before a handler* (`MCGateway`, from `Gateway`)

| Property | Constants | Line | What the code says of itself |
|---|---|---|---|
| `SecondUseReplayed` | | `client/jti-ledger.ts:67` | "a second validate of the same token surfaces" `TokenReplayed` (line 7) |
| `Lic1AlgsVerify` | `Records`, `Bindings <- HmacRecords`, `Registry = {"hs256"}` | `crypto/hmac.ts` | "Algorithms LIC1 can carry" (`lic1.ts:159`); an HMAC key has no public half to import |
| `BurstRespected` | | `http/rate-limit.ts:89` | "so concurrent requests see the same view" (line 99) |
| `UnknownRoutesNotFound` | | `http/router.ts:47` | "Unknown routes → 404" (line 74); a malformed escape in the path gives 500 |
| `ActorAttributed` | | `http/auth.ts:90` | "Admin handlers record it as `actor_id`" (`http/types.ts:45`); nothing sets the subject |
| `VerifierSkippedOnPublicRoutes` | | `http/auth.ts:73` | "Route's `public` flag tells middleware to short-circuit" (`http/router.ts:110`); the flag is a header, which the adapters also copy from the request |
| `DirectPeersApart` | `Limited = {"hono"}`, `Skipping = {}` | `http/adapters/hono.ts:73` | "the rate limiter keys off of" the "direct peer address" (`http/types.ts:40`) |

*The console* (`AdminConsole`, from `Console`; lines under `admin/app`)

| Property | Line | What the code says of itself |
|---|---|---|
| `PickerFilled` | `pages/templates/[id].vue:52` | "All templates (capped at 200) feed the parent_id combobox"; the route refuses a limit over 100 |
| `SelectionResets` | `components/DataTable/DataTable.vue:211` | "Reset selection when data changes"; a failed read unmounts the table (`pages/licenses/index.vue:241`) and the selection stays |
| `TimelineFollows` | `components/license/LicenseAuditTimeline.vue:34` | "Audit timeline scoped to one license" (line 10); no button of the page (`pages/licenses/[id].vue:543`) makes it read again |
| `BackButtonWorks` | `pages/licenses/index.vue:16` | "links are shareable and back-button works"; the cursor stack is not in the URL |
| `ExtensionAdds` | `components/license/BulkActionsMenu.vue:26` | "Adds N days to the existing expiry"; it adds to the expiry the table read |
| `BulkRefetches` | `pages/licenses/index.vue:128` | "we re-fetch on completion"; not after the dialog was dismissed |
| `DeletedIsGone` | `pages/scopes/[id].vue:180` | "Hard-deletes the scope"; the route answers 204 and deletes nothing |
| `RotatesThisKey` | `pages/keys/index.vue:357` | "marks this one `retiring`"; with a stale page it is another key |
| `FormFollowsTemplate` | `pages/templates/[id].vue:245` | "Sync form when the template loads/refetches" |
| `ChangesAudited` | `pages/audit/index.vue:12` | "the tail of every state-changing operation"; PATCH routes write no row |
| `SignOutForgets` | `composables/useSignOut.ts:15` | "we still want the client to forget the session" |

Also met, without a property: `GraceExpired` is raised when `now` exceeds start
plus window, `docs/token-format.md` says "≥"; a rollback writes the state it read
first, so an overlapping call's older grace start can come back (`GraceNotExtended`
is stated for one call at a time next to the heartbeat for this reason); an
entitlement that canonical JSON refuses (a fraction) makes `encode` throw after
`registerUsage` has taken the seat; Fastify refuses a broken body before
authentication, the other adapters after it; the error of a transaction that
Postgres fails to break a lock cycle is not mapped, so that the request is
answered with 500 and not tried again; `renew` is offered for suspended
licenses and answered with 409.

## 5. Proofs

Each proof module extends the component it is about. A theorem holds for every
value of the constants the component's named assumption allows: any sets of
processes, rows, devices, keys and addresses, any rates, windows and skews. The
bounds that keep a run finite (`MaxTime`, `MaxTokens`, ...) are used by none of
the arguments except as types. Every theorem is about the specification without
its fairness, which the runs' specifications imply.

The shape is the same throughout: an inductive invariant that adds to the
property what the operations in flight hold in their hands, one lemma for each
action (or for each family of actions that move alike), and a last step that
combines them.

**LicensingProofs** (`Licensing`; assumptions `BoundsAssumption` and
`NullAssumption`; finiteness of the live seats is proved, not assumed):

* `TypeCorrect`: `TypeOK` is inductive; one lemma types each lifecycle patch,
  one the transitions, and each action is a case.
* `RevokedTerminal`, `AuditAgrees`, `AuditIsChain`: `StatusStep` says what a
  step does to a license: nothing to its status and audit row, or one of the
  moves of `lifecycle.ts` with a row from the old status to the new. From it,
  `AuditMatchesRow` is inductive given `TypeOK`, and with it the two action
  properties follow for each step.
* `DeviceSeatedOnce`, `SeatEndsAudited`, `SeatedIsNotPending`: `SeatStep` says
  what a step does to a usage row: it stays what it is, is seated from `none` on
  a license where its device has no live seat, or goes from `active` to
  `revoked` with one more audit row. `OneSeatPerDevice`, `SeatEndAuditedOnce`
  and `SeatedLeftPending` are each inductive together with `TypeOK`.
* `CapHolds`: `ActiveStep` says that a step's live seats of a license are those
  before it, fewer, or those and one that `registerUsage` added below the cap.
  Cardinality needs finiteness: `SeatsFinite` shows the live seats stay finite,
  an invariant the statement itself does not mention.
* `PersistenceInvisible`: `EffectiveIsStable` shows that the status a sweep or
  `expire` persists reads the same at every later instant.

**LicensingProofs, second half** (`IssuerHTTP`, any number of requests in
flight; the same assumptions and `HTTPAssumption`). Handlers hand rows they read
earlier to the operations of `Licensing`, so the theorems above do not carry over by themselves, and `RevokedIsTerminal` does not survive
(section 4). `StoreOp` says what one step of any handler or job may do to the
store, a lifecycle function applied to an arbitrary old row included; every
handler step is shown to be one (`Handled`). `HTTPOneSeat`,
`HTTPSeatEndsAudited`, `HTTPAuditAgrees`, `RevokedStaysRevoked` and
`HTTPCapHolds` follow from `StoreOp` with the step lemmas of the first half.
`TokensHadLiveMoment` needs `LiveOK`: a request that is about to sign and whose
license row would let it has its seat in `seenLive`, or still has to look at it.

**PostgresTxProofs** (`PostgresTx`; `PgAssumption`). `OneSeatPerDevicePg` is
inductive only with what each connection holds (`TxShape`, `RevokeHasRow`): the
index is consulted by the INSERT and the row shows at the COMMIT, so the
invariant adds that in between the entry stays free of others (`InsertStands`),
which rests on the waiting for index entries. `LockHeldToCommit` and
`EndsAuditedPg` state the clauses of the invariant that say something by
themselves. `OnlyDeadlock` is the safety half of `PgTransactionsEnd`: any set of
transactions each of which waits for another of the set contains the one cycle
`DeadlockVictim` breaks, a registration against the revocation of a seat of the
same device. It rests on `LockDiscipline`: what a connection holds follows from
the statement it is at.

**KeyProofs** (`ScopeKeys` and `KeyCli`; `KeyAssumption`, `ClockAssumption`,
`KillsAssumption`). `KeyTable` is the conjunction of one signer per scope, a
successor for every retired signer, the unforked chain, a root for every signing
key, and attestations that cover the record. None of these is inductive alone: a
rotation demotes, inserts and links in one transaction, and each clause uses
another in that step. `TokensChain` rests on the root clause and on keys never
changing whose they are (`KeysStay`). For the CLI the invariant is weaker, as the
code is: between two flushes of a rotation a scope may have no active key, so
`CliOneActive` bounds from above only, with `CopyIsFile` (one command at a time)
and `LinkHasKeys`.

**ClientProofs** (`Client`; `ClientAssumption`). A call writes back copies of the
store it read long ago, so `ClientInv` asks of every copy a call holds what it
asks of the store: a grace start past the token's deadline, and a token whose
`iat` is at most `Timeout` after the revocation if there is one. The issuer signs
some time after it has read the license, but a device only takes a token from an
answer that came in time, so the request began before the revocation and ended
within `Timeout`; the same is asked of every request in flight. `GraceFitsToken`
and `RevokedUseBounded` then hold for any number of concurrent calls, the latter
for `Timeout > 0` (with 0 `postJson` waits for as long as it takes).
`GraceIsNotExtended` has the hypothesis `OneCaller` (the application awaits one
call before the next; the heartbeat runs beside it): without it a rollback can put
an older state back, and a later start can follow (section 4, last paragraph).

**StorageProofs** (`StorageSessions`; `ProcsAssumption`).
`TransactionsAreAtomic`: the store and the snapshot a rollback would restore are
both settled (they hold every committed write and no rolled back one), and the
open transaction's own writes are in the first and not in the second. That writes
are numbered below the caller's count (`Made`) makes a new write different from
all that were decided.

**StorageProofs, second half** (`StorageMachine` under `SessionSpec`, any sets of
tables' inputs, status lists, pages and wirings; `NullAssumption`,
`WalkCapAssumption`).

* `AdaptersAlwaysAgree`: `MachineInv` (ids are positive and unique in their
  table, rows have their columns, a session in the catalogue has no license) is
  inductive; under it every write and every query of the three adapters is
  compared operator by operator. The lemmas turn each adapter's own formulation
  into one: a scan of a list against an SQL condition, a filter that mentions
  Null against `IS NULL`, statistics folded by the memory adapter against counts.
  The figure that is left out is `expiring_within_30d` (`ExpiringAgrees`, section 4).
  Hypothesis: no list of statuses is empty. For `[]` the memory adapter selects
  nothing and the SQL adapters drop the condition (section 4).
* `AdaptersImplement`: the refinement of `StorageContract`. Its `Consistent` is
  not inductive: it speaks of acyclic parents, while a write is only checked by a
  walk of at most `WalkCap` (64) steps. `ContractInv` adds that no cycle of any
  length exists and that there are never more than `WalkCap` templates, so that
  the walk sees all of a chain without repetition before it stops (a pigeonhole
  argument on `ancestor`, the n-th parent). Hypotheses: `MaxRows["templates"] <= WalkCap`, because with more than
  64 templates in a line the capped walk does miss a cycle, and
  `ConformingWirings`, because the memory adapter's update of a template or a
  license checks less than the schema (section 4).
* `PagesAreExact` (`TicksAssumption`, `PagesAssumption`): `PageOf` is what a page
  is, whichever adapter cuts it: rows of those left, none twice, and either all of
  them or all down to some row, whose cursor it returns. That the sort exists is
  shown by induction on the number of rows (`SomeOrder`). `WalkBooks` is the
  invariant of a walk: nothing it has returned is after its cursor, and everything
  it still owes is. Hypothesis `MsPages`: where Postgres serves the pages, its
  clock is no finer than the millisecond a cursor keeps; otherwise rows are skipped
  (section 4).

**IssuanceProofs** (`Issuance`; `DepthsAssumption`, `CooldownAssumption`,
`TemplatesAssumption`).
`TrialsAreSpaced`: for every grant there is a row as late as it, or its cooldown
is over (`GrantOK`); a call about to delete a row holds one that is past its
cooldown, and one about to record holds the license it created (`TrialCall`).
A cooldown may be edited meanwhile: the distance is the shortest the template has
had (`low`), since a call judges by the one it read.
`StartupRaceLeavesOneSigner`: what a step does to the keys (`KeysMove`) keeps one
active signer a scope, and the scope of a caller that lost keeps one, which its
next attempt lists if it is of the caller's algorithm (if not: `LoserFindsSigner`,
section 4).
`TemplatesAreExact`: edits keep the stored parents acyclic (`Acyclic`, over
chains of any length), and `WalkOK` says of a walk in flight that it repeats no
template, stays within the cap and, if no edit happened since it began, holds a
prefix of the leaf's lineage. The merge of the collected layers is a recursive function of
their number, and a key's value after n layers is shown, by induction on n, to be the closest of the
n, which is how `InheritanceExact` states it.

The induction theorems of the library take an operator as a parameter, which the
installed provers cannot instantiate; `SetInduction` of IssuanceProofs and
StorageProofs states induction for a *set* of naturals instead, derived from the
well-foundedness of `<` on Nat. What the chains of parents, the merge and the
statistics compute is proved with it.

**GatewayProofs** (`Tokens`, `Verifier` and `Pipeline`; `SkewAssumption`,
`PipeAssumption`).

* `LedgerIsExact`: while the window of an accepted token is open at the verifier
  that accepted it, its jti is in the ledger with an instant that pruning by any
  other verifier does not reach before (`EntryHolds`); verdicts are numbered in
  order (`LogOrdered`), and a call that waits for the ledger holds a token whose
  `exp` is a number.
* `PipelineIsExact`: `Staged` says what is known of a request at each stage, the
  public header included, which may be the router's or the request's own;
  `BodiesAgree` evaluates the body readers of the five adapters on every shape of
  request to a route that takes a body, which are POST and PATCH (`BodyRoutes`);
  and `DispatchResult` the router.
* `LimiterIsHonest`: the inductive invariant relates three things nothing in the
  code relates: for an address whose requests never overlapped, every past window
  has spent at most the burst and the refill *less the credit that is left*
  (`Spent`), and the promised wait brings one token back (`Promised`), measured
  from the last refill; a request between its read and its write of the bucket
  still holds what is stored (`Visit`), because it is alone (`Alone`). The lemmas
  `RefillBounds`, `SpentLater`, `RefuseBudget` and `AdmitBudget` do the
  arithmetic once, over plain buckets and histories.
* `ValidateIsExact`: `VerdictInv` ties every verdict to `Outcome`, the result of
  the checks on the call's own token, time and pins: a call's record must survive
  what others do while it waits for the backend and the ledger, and outside
  "replay" the ledger must be empty before the only call ends (`OneCall`).
  `ChecksExact` then evaluates the order of the claim checks. Hypothesis
  `Kid1Trusted`: the key that signs the tokens of that focus is recorded, bound
  and registered; otherwise every verdict is about the key.
* `CodecsAreExact`, from the same invariant. Reading back what was written needs
  the canonical order to be one (`OrderedMembers`: each rank is taken by one
  member, by counting), the strict parser to accept it (`ObjectParses`) and every
  payload the issuer can build to be an object. For the other direction a variant
  of a token is either `Broken`, which no codec verifies, or still carries the
  issued signature (`Around1`, `Around2`), which fixes every segment it covers
  (`Variants1`, `Variants2`). That `pae` is injective (`PaeApart`) follows by
  reading frames off the front one at a time (`FramedApart`). Hypotheses: no
  issued kid is the empty string, which encode accepts and decode refuses, and
  `hs256` is not in the registry, because its backend refuses a key record
  (section 4). `PaeInjective` speaks of the vectors it lists, up to three pieces
  of up to two bytes, and so does the theorem.

**ConsoleProofs** (`AdminConsole`; `ConsoleAssumption`, `UnitAssumption`).
`CookieWasProbed`: `SlotOK` says that a
sign-in answered with success carries a token some probe of the issuer found
accepted, for every request in flight, because the cookie is set when the answer
is received and the token may have been revoked, or another tab signed in or out,
since the probe. Every action that is not part of a sign-in is a `Bystander`: it
writes only requests of other kinds and keeps or drops the cookie.

The other theorems of the module rest on `ConsoleInv`, one invariant for all
pages: the tables keep their columns and ids (`DbOK`, through every handler),
each request in flight is one its page sends in that lane and carries a row of
the right table (`InFlight`, `Placed`), each tab has the fields of its page
(`TabOK`).

* `PatchesAreExact`: with the columns of rows and bodies known, `patched` is
  evaluated column by column on the row as it is *now*; the row read before is
  used for nothing but the 404.
* `DetailIsExact`: `PagesInv` follows each button from its request to the reads
  after it. `Shown` says of every piece of data on a page that it is as recent as
  the tab's own last change of it, or a read that will be is under way or still to
  be sent (`Acting`); a step of another tab or caller leaves a page's books alone
  (`ApartUnchanged`). A lost answer makes the read a `Null`, which the page shows
  as an error. The theorem is about what the page itself reads (`byPage`); the
  audit timeline is not read again (`TimelineFollows`, section 4).
* `ListIsExact`: `ListInv` has a part for each clause. `SelectionOK`: ticks are
  numbers of rows that are shown, and number to row is one-to-one (`RowNumbers`),
  so that unticking one takes exactly its license away; a selection that has
  outlived its table is one a failed read left behind. `TallyOK` keeps a bulk
  action's books while its requests are under way: counted and pending make up
  the targets, counted and won-but-uncounted successes are at most what was
  written, and each written one that is neither was lost. `PagerOK`: the stack and
  the cursor descend from the first page, and `next` is behind the cursor, which
  needs `LoadOK` (the rows under way belong to the address the tab has now). The
  database of `AdminConsole` has three licenses, and a bulk action a lane for each.

**Only model-checked**, and why:

* `RevocationSticks`, `OutageEnds`, `PgTransactionsEnd`, `EveryRequestAnswered`:
  liveness under fairness is out of the prover's reach.

Every safety property of every passing run is stated by a theorem.

The models keep to what the provers can expand: alternatives whose conditions
overlap in the code's order of checks are `IF`/`ELSE` chains rather than `CASE`,
and functions are extended by explicit constructors rather than `:>` and `@@`.

## 6. Not modelled

* Byte-level encodings (base64url, string escapes, number formats, license key
  strings) and cryptography: fixed by cross-language fixtures, and abstract
  values here; signatures are ideal.
* The device fingerprint: reads and hashes facts of the host.
* Running the migrations; the schema they leave is in `SqlSchema`.
* Dashboard, audit and activity pages of the console, which only read, and all
  layout.
* Several `licensing-keys` commands at once. Each loads the file once and
  rewrites it whole, so the later one drops the other's key.
* Audit rows of events other than lifecycle changes and seat ends in `Licensing`;
  `AdminApi` has one for each route that writes one.
* Isolation inside SQLite and Postgres beyond what `PostgresTx` and
  `StorageSessions` state; serialization failures and connection loss.
* The Go port, except where a finding names it.

## 7. Plan

The modelling part of the plan is done, and so is the proving part: the safety
properties of the issuer, the transactions, the adapters and their contract, the
keys, the device, trials, templates, tokens, ledger, pipeline, limiter and the
admin console are theorems. Four liveness properties stay with TLC. Next would be,
in this order:

1. the parts that are only partly modelled: the claims of the token service no
   property tells apart yet, the scope service beyond its keys, and the
   migrations as steps over a populated schema;
2. two `licensing-keys` commands at once, with the file as shared state;
3. the read-only pages of the console, against rows that change under them;
4. the Go port: its storage and key code against the same abstract
   specifications, `StorageContract` first.
