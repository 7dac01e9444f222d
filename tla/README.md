# Ancra in TLA+

Ancra is a Go API that gives every customer of an organisation a virtual bank
account at Nomba, books what arrives on it in a double-entry ledger, sends money
out of it, and tells the organisation's developers what happened. This directory
holds TLA+ models of the parts that move money or keep state that many actors share, TLC configurations that
check them on small instances, and TLAPS proofs for every value of the constants.

## 1. Inventory

All components run in one process (`cmd/api/main.go`) over one Postgres database.
A request is a goroutine; the two workers are one goroutine each. The actors
share nothing but the database, two in-memory caches, and Nomba.

| Component | State it keeps | Operations | Talks to | Hard behaviour | Correct when |
| --- | --- | --- | --- | --- | --- |
| Inbound webhook handler (`api/handlers/webhook.go`) | `processed_events` | HandleNomba, handleCredit | Nomba (called by), ledger, `webhook_deliveries` | duplicates, overlapping deliveries, a mark that commits before the credit, crashes | one event is posted at most once, and a payment is not lost |
| Sweep worker and backfill (`worker/sweep.go`, `domain/reconciliation`) | none of its own | sweepAllOrgs, BackfillMissedCredits | Nomba (lists transactions), `processed_events`, ledger | check, insert and mark are three statements that race with the webhook; window and page limits | a missed payment is found, a booked one is not booked again |
| Ledger (`domain/ledger`, `store/postgres/ledger.go`) | append-only `ledger_entries`, `system_accounts` | PostCredit, PostDebit, PostSuspense, GetBalance, statements | callers' transactions (`RunInTx`) | balances are derived; check and insert are apart | entries come in pairs; no overdraft |
| Outbound transfers (`api/handlers/transactions.go`) | none but ledger rows | Transfer, reverseLedgerDebit | ledger, Nomba | a call without an answer, a client that goes away, a failing reversal, a crash | the customer pays exactly what Nomba paid out |
| Outbound webhook delivery (`worker/outbound.go`) | `webhook_deliveries`, `webhook_configs` | dispatch, deliver, scheduleRetry, UpsertWebhookConfig | the developer's endpoint | retries with back-off, a full batch, an answer or an update lost | at least once, bounded attempts, a truthful final status |
| Reconciliation run (`domain/reconciliation`) | `reconciliation_runs` | Run | Nomba wallet, pool account | two reads at different times, the sign of the pool | a mismatch means a missed event |
| Account service (`domain/account`) | `virtual_accounts`, `identity_versions` | Create, Update (renames), Close | Nomba | two Creates at once, Nomba succeeds and the insert fails, re-creation after Close, two renames of one version | one account per customer; a current name; closure is final |
| Customers and KYC (`store/postgres/customers.go`) | `customers`, `kyc_tier_history` | Create, UpgradeKYCTier | `identity_versions` | concurrent upgrades under a row lock | tiers only go up, history without gaps |
| Nomba client factory and token cache (`nomba/factory.go`, `nomba/client.go`) | cache of clients, token per client | ForOrg, InvalidateOrg, token refresh | `nomba_configs` | a client built from old credentials stored after the invalidation; the row is read before the expiry is reckoned | stale credentials are not used for longer than the TTL and the time it took to build the client |
| API-key middleware (`api/middleware/auth.go`) | cache of keys | APIKeyAuth, revoke | `api_keys` | a request that fills the cache overlaps a revocation | a revoked key stops at once, or when its entry expires, and for good |
| Auth service (`domain/auth`) | `users`, `orgs`, `refresh_tokens` | Signup, Login, Refresh, Logout | - | several statements without a transaction; a refresh overlaps a logout | a user has an org with system accounts and can log in; a session that was logged out is dead |
| Connection pool (`store/postgres/db.go`) | connections | RunInTx and statements outside it | Postgres | statements inside `RunInTx` that take a second connection | nobody waits for ever |
| Idempotency middleware, identity service (`domain/identity`) | - | - | - | neither is constructed by `main` or the router | - |
| Signature check, encryption, router, settings, admin, web pages | - | - | - | wiring, cryptography, static files | - |

`PROJECT.json` lists each of these with its status, and under `hazards` what is
hard to test, at its line, with the property that covers it or the reason why
none does.

## 2. Plan

Ordered by what a failure costs.

| # | Module | Models | Composes / refines | Status |
| --- | --- | --- | --- | --- |
| 1 | `Ingest` | webhook handler, sweep and backfill over one database | implements `Inbox`, the promise of the endpoint, and the accounting of `Books` | checked, proved |
| 2 | `Transfers` | overlapping transfers, Nomba, reversal | implements `Payout`, the promise to the customer | checked, proved |
| 3 | `Outbound` | delivery queue and worker | implements `Queue`, a queue without worker, polls or process | checked, proved |
| 4 | `Customers` | registration, provisioning with Nomba, renaming, closing, tier upgrades | implements `Registry`, a customer's file | checked, proved |
| 5 | `Books` | every movement of money with all its entries, reconciliation runs and statements that read them | composes the movements of 1 and 2, as atomic steps; 1 implements its inbound half | checked, proved |
| 6 | `Caches` | API keys and Nomba clients in memory, against revocation and replacement | - | checked, proved |
| 7 | `Sessions` | sign-up, login, refresh, logout | - | checked, proved |
| 8 | `ConnPool` | connections held and waited for inside `RunInTx` | - | checked, proved |
| 9 | `Notification` | a payment from Nomba to the developer's endpoint | would compose `Inbox` and `Queue` | not begun |

None of the modules declares a RECURSIVE operator.

## 3. Modules

### Ingest, Inbox

`Ingest` is one organisation. State and code:

| Variable | Code |
| --- | --- |
| `processed` | `processed_events`, unique on the transaction id |
| `ledger` | `ledger_entries` written by webhook calls; `Entry.group` is `txn_group_id` |
| `backfilled` | number of `backfill_credit` entries of a transaction (the sweep writes one leg only) |
| `outbox` | rows of `webhook_deliveries`, by the call that wrote them |
| `status` | `virtual_accounts.status`, `"absent"` before the row exists |
| `hook`, `tx` | where each HandleNomba call is, and what its open `RunInTx` has written |
| `due`, `sweep`, `todo`, `cur` | ticker channel and loop of the sweep worker |
| `paid`, `age` | what Nomba has recorded, and how many sweep intervals ago |

Every database call is one action: `MarkProcessed`, `ResolveAccount`,
`PostSuspense`, `PostCredit`, `CreateDelivery`, `Commit` for the handler,
`StartSweep`, `CheckProcessed`, `LookUpDest`, `InsertBackfill`, `MarkBackfilled`,
`EndSweep` for the worker. Calls interleave freely. Signature check and decoding
have no shared state and are one action (`Reject`) with the two outcomes. The
amount is never looked at by this code, so a payment is only its identity. A fault makes a statement fail, makes a commit take
effect but look failed, loses a delivery, or kills the process; open transactions
are then rolled back. `MaxFaults` bounds their number.

`Inbox` is the abstract specification: an event is claimed once, a claimed
payment is posted at most once, to its customer or to suspense, and crediting and
announcing are one step. It says nothing about losing a claimed payment, because
the code does lose some (`NoPaymentLost`, section 4). `PromiseKept` is the refinement:
`claimed` is `processed`, `credited` and `suspended` are the calls whose leg is in
`ledger`, `announced` is `outbox`. `PostCredit` and `CreateDelivery` map to
stutters and `Commit` to `Credit`; a backfill maps to `Claim`.

`BooksKept` is a second refinement: the ledger that webhook calls and sweeps write,
statement by statement, is one that `Books` allows, where each posting is one step
with all its legs. `Entries` turns the rows into Books' pairs of entry type and
payment; the transfers, readers and faults of `Books` are instantiated with nothing.
A set of pairs does not show that a pair was written again, so a repeated backfill
maps to a stutter: `HookBooksOnce` and `BookingsBounded` are about repetition.

Two history variables name what may go wrong with a payment, and nothing else may. `struck` has the
payments whose own call a fault met, or a crash cut off, after it had claimed the event: `LossNeedsStrike` says that
a processed payment is booked, or in the hands of a call, or one of these. A fault of the sweep, of
another delivery or of the look-up of the account is no excuse. `raced` has the payments that a call
claimed after the sweep had found them unprocessed: `BookingsBounded` counts
webhook and sweep together, and grants a second booking to such a race once and to each fault once.

`ClosedGetsNoCredit` is about the status that `ResolveAccount` reads before the
transaction opens. A call that has seen the account open (`PastCheck`) may credit it
after the closure; once no such call is left, none ever comes back.

### Transfers

Any number of `Transfer` calls. `balance` is the derived balance of the customer
account, `debited` and `reversed` say which calls have their pair of entries;
`phase` is where a call is. `CheckBalance` and `InsertDebit` are the two
statements of `PostDebit`; `CallNomba` and `Answer` are the two ends of
`Client.Transfer`, between which Nomba decides (`NombaPays`, `NombaRefuses`), or
decides later, when the caller no longer waits. `ReverseLedgerDebit` is the
error branch. All of them use the request's context: once `Cancel` has happened
(a fault) each call made with it fails. Nomba is external and is modelled from how
the handler uses it: the reference is Nomba's idempotency key (`merchantTxRef`), so
one reference is paid out once. `hit` is a history variable: the calls that a
fault struck where money hangs on it (`Fails`). There are four such places: a debit that is
stored but reported as failed, an answer that does not come, a reversal that is not stored, and a crash
after the debit. A client that goes away before the debit, a statement that fails there, or a
reversal reported as failed do not put a call into `hit`, and `UnstruckIsExact` holds them to the exact amount.

`Payout` is the abstract specification: money is taken, paid out and given back,
in that order and at most once; a call that ends without having been struck has
taken exactly what was paid. `taken`, `given`, `paid` are `debited`, `reversed` and
`sent`; a call is over when its phase is in `Settled`. Balances, submission and the
answers of Nomba are not in it, and it says of a struck call only what can still
not happen to it: money paid without being taken, or given back after the end.

`Serial` is an assumption on the clients, not on the code: when TRUE no two calls
on one account overlap.

### Outbound

`webhook_deliveries` rows (`status`, `attempts`, and `wait`, the polls left until
`next_retry_at`), the worker's loop (`worker`, `batch`, `cur`) and history
variables: `posts` and `acks` count what the endpoint received and accepted,
`dropped` the deliveries that were settled because their organisation had no
endpoint, `missed` those whose look-up of the endpoint failed, which the worker takes for the same.
`StatusTruthful` is about every settled row, with or without faults: these two sets are the only ones that
may be "delivered" without the endpoint's acceptance. `ListPending`, `GetWebhookConfig`, `Post` and `UpdateDelivery` are the
steps of `dispatch` and `deliver`. Whether the endpoint works is not a fault: it
may accept, refuse or be away at every post. Rows are numbered in the order of
`created_at`, which is how `ListPending` orders them.

`main` starts exactly one worker, so no two workers share the queue; that is an
assumption of the model and holds for one process.

`Queue` is the abstract specification: a delivery is tried, and the try is recorded,
one delivery at a time. It has no batch, no back-off, no process and no endpoint
configuration; a try that is never recorded costs a lapse (`lapses` is `faults`).
`posts` and `acks` are part of its state, so `QueueKept` says when an endpoint may see
a delivery again, and that nothing touches a settled row.

### Customers

One organisation's customers and what hangs on them. A request is a constant:
`KindOf`, `CustomerOf` and `TierOf` are its endpoint, path and body. Rows are named after the
request that inserts them, so `versions`, `open` (`effective_to IS NULL`),
`accounts` and `closed` are sets of requests; `nomba` is the set of customers
that have a virtual account at Nomba, `accountRef` being the customer's id.

| Request | Steps |
| --- | --- |
| POST /customers | `CreateCustomer`, then `CreateIdentityVersion` if the body has a name |
| POST /accounts | `GetCustomer`, `ListAccountsByCustomer`, `CreateVirtualAccount`, `CreateAccount`, `CreateIdentityVersion` |
| PUT /accounts/{id} | `GetAccount`, `GetCurrentIdentity`, `CloseIdentityVersion`, `CreateIdentityVersion` |
| POST /accounts/{id}/close | `GetAccount`, `UpdateAccountStatus` |
| PUT /customers/{id}/kyc-tier | `LockCustomer`, `UpdateTier`, `InsertHistory`, `CommitUpgrade` |

Each step outside the last row is a transaction of its own; `target` is what a
request has read and acts on later, however stale. The upgrade is one
transaction: it holds `lock` on the customer's row from `SELECT ... FOR UPDATE`
until it commits or rolls back, `from` is the tier it read, and its two writes
become visible in `CommitUpgrade`. Postgres checks a foreign key by a `KEY SHARE`
lock on the row referred to, which waits for `FOR UPDATE`: `ForeignKey` makes the
inserts of accounts and identity versions wait for an upgrade. `virtual_accounts.account_ref`
is unique over closed rows too, so `CreateAccount` refuses a second account even after a
closure. The constraint `no_overlapping_active` refuses nothing, since Postgres
takes two NULLs for distinct, and is no guard of `CreateIdentityVersion`. The
same constraint would refuse two versions closed at the same microsecond; the
model has no clock and leaves that out.

A request that fails, or dies, when it has already written something is in the state `"torn"`; one that has written
nothing is refused. `OrphanNeedsTorn` and `NamedUnlessTorn` look for the torn
request of that customer and accept no other failure.

`NamedUnlessTorn` and `ExtraNameNeedsFork` are the two sides of the current name, which no
constraint guards: unless a provision or rename was torn an account does not lose it, and, fault or no fault, a
customer gets a second one only by a name at registration (`Named`) or by two renames that
both read the same version (`Forked`).

`Registry` is the abstract specification: a file per customer, with one registration,
upgrades that raise the tier and enter it in the history in one step, and an account
that is opened once and shut once. `RegistryKept` shows it the customers with a row in
`accounts` as `opened` and those of them without an active one as `shut`: an account
that came back after a closure would leave `shut`, which no step of `Registry` does.
The locking transaction of an upgrade maps to one step, at its commit.

### Books

One organisation's ledger, and Nomba's side of it. `ledger` is a set of pairs of
`entry_type` and the movement (`external_ref`) they belong to; every movement is one unit,
since no code here compares amounts but by adding them up. What `Ingest` and
`Transfers` take apart into statements is one step here (`PostCredit`,
`PostSuspense`, `Backfill`, `CheckBalance`, `PostDebit`, `ReverseLedgerDebit`), with all
the entries it writes: the payments and transfers are there for what they do to the
books together. `Backfill` may come before or after the webhook's posting of the same
payment, as in `Ingest`; a reversal of a transfer that was not refused, a time-out, costs a fault.

Readers look on. A run is `GetWalletBalance`, `GetPoolBalance`, `InsertRun`; a
statement is `ListEntries` and `GetBalanceAsOf`, whose answer `RunningBalance`
turns into one balance per line as the code does. `CreatedAt` is a constant:
created_at of every entry if it is ever posted, so that entries may share a time and
backfilled ones, which have the time of the payment, may sort before older rows.
`Listings` allows every order among rows with the same time. `truth` is a
history variable of what a run should have found: the gap when it read the wallet, the entries the pool account had
then, and those that it got before the run read the pool (`late`).

### Caches

The two caches follow one pattern, and entries for different keys are
independent; the module is one row, its entry, and a `kind` that says which cache
it is. `Lookup`, `Delete`, `Load`, `Build`, `Store` are the steps of a request, `Write` and `Evict`
those of a handler, `Tick` the clock. The differences are in the actions: only the
middleware deletes an expired entry, and by then it may be someone else's fresh one; a key that is revoked is not found, an
organisation without a configuration gets the global client (`Fallback`). A version
stands for the credentials. `straddled` records whether a request held an older version
between its read and its store while an entry was evicted.

The lifetime of an entry does not start when its row is read (`Load`) but when the answer is there and the
secrets are decrypted (`Build`: `factory.go:195`, `:134` for the global client). A write that commits in between
makes the entry stale before its lifetime begins. `gap` is the time in between, up to `MaxGap`; it ends in practice with
the request's time-outs, but the code names no bound. `StaleExpires` says what the code does guarantee: a stale version
is gone `TTL` after the last write, plus the gap of the entry that holds it.

### Sessions

Rows are named after the request that inserts them: `orgs`, `seeded` (the system
accounts), `users`, and `token`, the refresh token of a session. Each action is one
statement of `Signup`, `Login`, `RefreshAccess` or `Logout`: slugs and e-mail addresses are
unique in the database, and a failure of any statement ends the request and leaves what was written.
`Normal` is what the code does to an address before it compares or stores it, lower case and trimmed.
Access tokens are signed and stored nowhere; `access` is the set of sessions that have
a valid one. `late`, `knew`, `ended`, `struck` are history.

### ConnPool

`owner` says who has each connection of the pool, `waiting` who is in its queue.
`open` is chosen at the start: the size is a parameter of the DSN. A statement outside a
transaction takes a connection and gives it back (`Query`, `Answer`, `MarkProcessed`,
`GetAccountByNumber`). `RunInTx` keeps one, and inside it `GetSystemAccount` goes to the
pool instead of the transaction, so that it waits for a second one. `HangUp` is the other side
closing its connection, at any moment: pgx ends the wait or the statement, and the deferred rollback gives the
transaction's connection back. Other transactions (the upgrade of `Customers`,
`InsertEntries` of a debit) ask for nothing more while they are open, so they are
`Others`: one connection, given back.

## 4. Runs

| Run | Shows | Instance |
| --- | --- | --- |
| `ingest_faults` | `HookBooksOnce`, `CreditQueued`, `BookingsBounded`, `LossNeedsStrike`, `ClosedGetsNoCredit` and the refinements `PromiseKept` and `BooksKept` | one payment with two deliveries, another event, 2 faults of all kinds, late sweeps allowed |
| `ingest_live` | `EventuallyBooked`: a payment to a known account reaches the ledger with or without its webhook | two payments, one of them with no webhook at all; sweeps on time; one page holds the window |
| `transfers_faults` | `UnstruckIsExact`, `RefChargedOnce`, `OverdraftBounded` and the refinement `PayoutKept` | 3 overlapping calls, 2 of them with one account and one reference, 2 faults of all kinds |
| `transfers_serial` | `NoOverdraft` when calls on one account do not overlap, and `DebitResolved` | 3 calls on 2 accounts, 2 timeouts |
| `transfers_overdraft` (violated) | two overlapping calls overdraw an account | no fault |
| `outbound` | `PostsBounded`, `AcksBounded`, `StatusTruthful`, `EventuallySettled` and the refinement `QueueKept` | 3 deliveries of 2 organisations, one row per batch, 1 fault of all kinds |
| `customers` | `OneAccount`, `OrphanNeedsTorn`, `NamedUnlessTorn`, `ExtraNameNeedsFork` and the refinement `RegistryKept` | one customer, 8 requests of all kinds that overlap freely, 1 fault of all kinds |
| `books` | `PoolEquation`, `CustomersCovered`, `RunTellsGap`, `StatementRight` | 2 payments, a transfer, a run, a statement from the second entry on, 1 fault |
| `books_delta` (violated) | a run over books without a gap records a mismatch | the same |
| `caches` | `StaleNeedsStraddle`, `StaleExpires`, `KeyDiesForGood`, `EventuallyCurrent` | either cache, 2 threads of requests, 2 writers, a lifetime of 2 ticks, 1 tick between read and stamp, 1 fault of all kinds |
| `sessions` | `AccountWhole`, `OrphanNeedsCause`, `OwnerLogsIn`, `LoggedOutIsDead`, `SessionEnds` | 2 sign-ups, 1 login, 2 clients, 2 slugs, 2 spellings of one address, 1 fault of all kinds |
| `pool` | `OnlyCreditsBlock`, `RoomForAll`, `EventuallyAnswered` | 2 credits, 2 requests, 1 to 3 connections |

`TypeOK` of every module is a theorem (section 5) and no run checks it; nor do they check
four more theorems: `SettledStays`, whose substance is in `QueueKept`, `TierHistory` and
`ClosureFinal`, which are in `RegistryKept` (the second with `OneAccount`), and `PaidFromLedger`, which says of what is submitted to Nomba what
`PayoutKept` says of what is paid.

The violated runs each check one sentence of the documentation or of a comment;
`PROJECT.json` quotes it under `findings`. Five more such sentences are defined in the
modules and have no run here. Each is violated in a configuration that differs from an existing one only in:

| Property | Start from | Change | Shows |
| --- | --- | --- | --- |
| `Ingest!NoPaymentLost` | `ingest_faults` | `FaultKinds = {"crash"}`, `MaxFaults = 1` | a crash between `MarkProcessed` and the credit: the retry is a duplicate, the sweep skips it (`webhook.go:96`, README.md:67) |
| `Ingest!CreditedOnce` | `ingest_faults` | `MaxFaults = 0` | webhook and sweep credit one payment, without any fault (`reconciliation/service.go:150`, docs/webhooks/overview.mdx:40) |
| `Transfers!RejectedNotSent` | `transfers_faults` | `FaultKinds = {"timeout"}`, `MaxFaults = 1` | 502 "rejected" is answered and reversed although Nomba pays (`transactions.go:169`, docs/transfers/initiate.mdx:66) |
| `Transfers!NeverLeftShort` | `transfers_faults` | `FaultKinds = {"cancel"}`, `MaxFaults = 1` | a client goes away, the reversal uses its context and fails (`transactions.go:175`, docs/transfers/overview.mdx:40) |
| `Customers!OneCurrentIdentity` | `customers` | `Named = {n1}`, `MaxFaults = 0` | a registration with a name and then a provision leave two current names (`account/service.go:120`, 000001_initial.up.sql:29) |

Disagreements of the same sort that were seen by reading:

- With `FaultKinds = {"db"}` `NoPaymentLost` fails another
  way: `PostSuspense` fails and the answer is 200 all the same (`webhook.go:136`).
- With `PageLimit = 1` `EventuallyBooked` fails: only page 1 of Nomba's listing is
  fetched (`reconciliation/service.go:135`). With `OnTime = FALSE` it fails too: after
  an outage longer than two intervals nothing looks back far enough
  (`sweep.go:79`), while README.md:125 says that the system stays correct during
  webhook outages.
- The sweep credits a closed account (`reconciliation/service.go:173`), although
  docs/virtual-accounts/close.mdx:21 sends such payments to suspense and the webhook does.
- A failed read of the endpoint's configuration is taken for "no webhook configured"
  and the delivery is recorded as delivered (`outbound.go:127`), although
  README.md:68 promises a notification.
- A suspense posting and a backfill have one entry, although
  `ledger/service.go:3` says that every movement is a pair.
- A reversal that fails is only logged and the answer is the same 502 as when it
  succeeds (`transactions.go:175`, docs/transfers/initiate.mdx:66).
- No transfer looks at the account's status, although docs/virtual-accounts/close.mdx:22
  says that a closed account cannot send.
- With as many credits in progress as the pool has connections, each can hold its
  first connection and wait for its second for ever (`store/postgres/ledger.go:139`): in `pool`,
  `~Stuck` fails with one or two connections. `RoomForAll` is what remains true.
- The dashboard logs out without a body (web/dashboard.html:1236), as
  openapi.yaml allows ("required: false"), and the handler answers 400
  (`handlers/auth.go:136`): the session stays live.
- `Logout` answers 204 when its look-up fails, as if there were no such token
  (`auth/service.go:166`); `Login` answers 401 when its look-up fails (`auth/service.go:121`).
- A sign-up that is refused for its e-mail address has already taken its slug
  (`auth/service.go:81`): the retry with another address and the same name is answered 500.
- GET /api-keys lists revoked keys too, although docs/api-reference/auth.mdx:91
  says "all non-revoked keys".

### Bounds, and why they are enough

- *Ingest*: two deliveries of one event are the smallest number that can overlap; a
  third call carries an event that is not a payment. Two faults allow a fault in the recovery
  from a fault. `LookBack = 2`, in `ingest_live`, is the code's value; `ingest_faults` has 1 for its size: a payment can
  still be in the window or have left it. `age` is capped one above `LookBack`,
  since nothing distinguishes older payments. In `ingest_live` each account has one
  payment, and a page of 2 holds both.
- *Transfers*: amounts are 2. With an opening balance of 3 one call is
  funded and two are not, and a deposit can change that; `MaxBalance` bounds the
  deposits. `transfers_faults` opens with 1, which a deposit makes 2: two calls that
  overlap there take the account to -2, which is the bound of `OverdraftBounded`. One account shared by two calls and one reference shared by two calls
  are the smallest instance of both races, a third call runs beside them.
- *Outbound*: `MaxAttempts = 2` has a first, a last and a terminal attempt; 5 adds
  only repetitions of the middle one, and the theorems hold for any value. One row
  per batch with three rows is what makes starvation possible (50 in the code).
  `Backoff[n] = 2^n` polls is 30 s * 2^(n-1) in polls of 15 s.
- *Customers*: customers share no row, so one is enough. Two provisions, two renames and
  two upgrades are the smallest numbers that race with themselves; `TierOf` lets
  both upgrades succeed in one order and only one in the other. The registration
  of `customers` has no name (`Named`); with one, `OneCurrentIdentity` fails.
- *Books*: two payments and a transfer give a page a first, a middle and a last line, and let each kind of
  gap meet another. The statement starts at the second entry, so there
  is a page before it, and `Times` has entries that come late and entries that tie. Its limit 0 is replaced by the
  default.
- *Caches*: one request that fills and one that reads, and two writers whose
  writes and evictions may cross. A lifetime of 2 ticks has a middle, and a gap
  of 1 tick between read and stamp is shorter than it, as in the code;
  versions of a configuration number as many as the writers.
- *Sessions*: two sign-ups meet in slug or address; a login beside them, and two clients, so
  that a refresh and a logout of one session overlap.
- *ConnPool*: fewer connections than credits, as many, and one more. Two other
  users compete with each other and with the credits.

The passing `transfers_*` runs, `customers`, `books_delta`, `books` and `sessions` switch the deadlock check off: the
set of requests is finite, and when all are answered and nothing else fits the
bounds, the system is idle. All the other passing runs check it: `caches` can always tick, and in
`pool` a caller can always give up, so a stuck pool is no deadlock for TLC, which is why `Stuck` is a definition.

### Fairness, and why the code justifies it

- A request that was accepted runs to its end (`HookStep`, `HandlerStep`): a goroutine
  of net/http, with time limits on every outgoing call.
- The worker goroutines run (`SweepStep`, `Dispatch`) and their tickers fire (`Tick`).
- A dead process is restarted (`Restart`): `render.yaml` deploys it as a web service with a
  health check, which the platform keeps running.
- Nomba attempts the deliveries it has (`Deliver`) and decides the transfers it got
  (`NombaStep`). This is about Nomba, not about this code.

- Time passes (`Tick` of `Caches`, `ExpireAccess` of `Sessions`), and a request that
  has begun goes on (`Continue` of both).
- In `ConnPool` statements end (`Answer`, `CreditStep`), and whoever waits is served if a
  connection is idle again and again (strong fairness of `Grant`): the semaphore of pgxpool serves its
  waiters in the order in which they came. `HangUp` is never required:
  nothing obliges Nomba or a client to close its connection.

No fairness is assumed of payments, of account creation, or of the developer's
endpoint. `OnTime` (a due sweep starts before the next tick) is needed for
`EventuallyBooked` and is an assumption: the channel of a ticker holds one tick and
a sweep that takes longer than the interval makes the window move on.

## 5. Proofs

Each of the eight modules has its theorems in a module of its own, `IngestProofs` to
`ConnPoolProofs`. They hold for every value of the constants that satisfies the named assumption of the
module (`IngestAssumption`, ..., `ConnPoolAssumption`), which only give the constants their
types and ranges, keep kinds of requests apart, and ask for finite sets where something is counted
(the two theorems on overdrafts ask for finitely many requests themselves):

| Theorem | Statement | Along which argument |
| --- | --- | --- |
| `IngestProofs!TypeCorrect` | `Spec => []TypeOK` | inductive by itself |
| `BooksOnce`, `CreditsAreQueued` | `HookBooksOnce`, `CreditQueued` | neither is inductive. The invariant adds which call *holds* an event (`HookInv`): a call behind its first-time mark, at most one per event, only of a claimed payment for which nothing is posted yet; what is posted has been claimed. `TxInv` says exactly what the open transaction of a call contains in each control state |
| `BookingsAreBounded` | `BookingsBounded` | while the sweep is about to post a payment, or may come back to it because it is not marked, the posts made so far have been paid for by faults (`SweepInv`); a call claims a payment the sweep has posted or is about to post only by racing it, which it can do once (`RaceInv`) |
| `LossIsByStrike` | `LossNeedsStrike` | inductive given `TxInv` and `SweepInv`: the call that claims a payment holds it until it has posted, and the sweep marks only what it has posted |
| `ImplementsInbox` | `Spec => Promise!Spec` | each action is shown to be a step or a stutter of `Inbox`, from `HookInv` |
| `ClosureHolds` | `ClosedGetsNoCredit` | an action property: only `ResolveAccount` leads into `PastCheck`, and it reads the status (`PastCheckStep`); a customer leg appears only from `"commit"` |
| `ImplementsBooks` | `BooksKept` | three kinds of step write the ledger (`LedgerWrites`). Each posts what `Books` lets it post: the payment has arrived (`ArrivedInv`, which follows a payment through listing, sweep and calls) and, for the webhook, neither leg is booked yet (`HeldIsUnclaimed`, from `HookInv`); the pool leg is in the same commit (`TxInv`) |
| `TransfersProofs!TypeCorrect`, `LedgerFirst` | `TypeOK`, `PaidFromLedger` | what each control state says about the rows written (`CallOK`) |
| `ExactUnlessStruck`, `ReferenceChargedOnce` | `UnstruckIsExact`, `RefChargedOnce` | for calls outside `hit` the control state fixes `debited`, `reversed` and what Nomba decided (`UnstruckOK`); Nomba pays a reference once (`NombaOK`) |
| `ImplementsPayout` | `PayoutKept` | `CallOK`, `UnstruckOK` and `NombaOK` give each action its step: an answer ends a call exactly (`End`), a time-out strikes the call it ends and a crash those that had debited |
| `OverlapBoundsOverdraft` | while at most k calls on an account are between their check and their debit, each for at most m, `balance >= -(m * (k - 1))` | `NoOverdraft` does not hold and the bound is not inductive: the balance has room for what is about to be debited only as long as the calls have seen the same balance. `Covered` keeps the call that passed its check last: the balance covers its amount, and the others in flight may take m each. The lemmas say how a check (`PassIsCovered`), a debit (`DebitIsCovered`) and everything else (`MoreIsCovered`) move it |
| `OverdraftIsBounded` | `OverdraftBounded` | the former with k the number of calls on the account |
| `SerialIsFunded` | `Serial` implies `Spec => []NoOverdraft` | while a call is about to insert its debit the balance still covers it (`FundsInv`), because no other call of the account is in flight |
| `OutboundProofs!TypeCorrect`, `SettledForGood` | `TypeOK`, `SettledStays` | the batch holds only pending rows, and only the worker changes a row |
| `ImplementsQueue` | `QueueKept` | the delivery in hand is pending with its recorded attempts (`TypeOK`), and the worker has at most one; `good` and `bad` are read off the control state |
| `AttemptsBounded`, `AcceptedOnce`, `FinalStatusTrue` | `PostsBounded`, `AcksBounded`, `StatusTruthful` | posts are bounded by recorded attempts, plus the post not yet recorded, plus faults (`PostsInv`); likewise `AcksInv`, `TruthInv` |
| `CustomersProofs!TypeCorrect`, `AccountIsUnique`, `ClosureIsFinal` | `TypeOK`, `OneAccount`, `ClosureFinal` | the only insert is the customer's first (`NewAccountIsFirst`) and no row is ever removed (`AccountsGrow`) |
| `OrphansAreTorn` | `OrphanNeedsTorn` | a provision past its look-up has found its customer (`FoundInv`), so the insert fails only if another account is there |
| `NameLossIsTorn` | `NamedUnlessTorn` | inductive given that a rename acts on a version of its own customer (`TypeOK`) |
| `ExtraNamesAreForks` | `ExtraNameNeedsFork` | the versions of a customer form a tree, a rename's version under the one it read. What is replaced is closed before (`Hung`), so only leaves are open, and without a fork there is one leaf (`OneLeaf`); the tree has one root because there is one account |
| `TiersAreAccounted` | `TierHistory` | inside the transaction the tier that was read is the one in the row, and the lock keeps every other upgrade out (`TierInv`) |
| `ImplementsRegistry` | `RegistryKept` | five variables are filed and four actions write them (`FileWrites`); `OneAccount` makes the closed account its customer's only one (`ShutStep`), and `TierInv` makes the commit an upgrade from the tier in the row |
| `BooksProofs!TypeCorrect`, `PoolAlwaysBalances` | `TypeOK`, `PoolEquation` | not by induction: wallet, pool and gap are all counts of sets, and `TypeOK` says how these sets lie in one another (which entries come in pairs). `NetBy` turns a balance into counts of these sets |
| `CustomersAlwaysCovered` | `CustomersCovered` | likewise; what is left over on the right side is counted by `received` and by the transfers in the air, never negative |
| `RunsTellTheGap` | `RunTellsGap` | the invariant keeps, from the read of the wallet on, that wallet plus the pool of that moment was the gap of that moment; the pool keeps its entries, so what the second read finds more is what came between, and `NetOfDifference` takes it apart |
| `StatementsAreRight` | `StatementRight` | what was listed is a sequence of the customer's entries without repetition, in order of time, and entries are never removed; so without late entries and ties what `GetBalanceAsOf` counts is exactly the listing from the page's first line on, and taking away the lines above one leaves the balance at that one |
| `CachesProofs!TypeCorrect`, `StaleOnlyByStraddle` | `TypeOK`, `StaleNeedsStraddle` | unless something straddled, a live entry and what a request is about to store are at least as new as the last acknowledged write, and what a request was served at least as new as that of its beginning (`OldInv`) |
| `StaleEntriesExpire` | `StaleExpires` | the lifetime left to a version that is not the row's, cached or in hand, and the time since the last write add up to at most `TTL` and the entry's gap (`ExpiryInv`) |
| `KeysDieForGood` | `KeyDiesForGood` | an action property: from a dead key no step of `Next` leads to a live entry |
| `SessionsProofs!TypeCorrect`, `AccountsAreWhole`, `OrphansHaveACause` | `TypeOK`, `AccountWhole`, `OrphanNeedsCause` | what each control state of a sign-up says about its rows (`Rows`); no session has a token before it has a user (`Owners`) |
| `OwnersLogIn` | `OwnerLogsIn` | the address of a user is never changed and is in normal form; a login that knew it finds a user, whose organisation is there by `AccountWhole` |
| `LogoutIsFinal` | `LoggedOutIsDead` | a session in `ended` is no longer live and never becomes so; a client in `late` is not past its look-up (`Closed`) |
| `ConnPoolProofs!TypeCorrect`, `NothingLeaks` | `TypeOK`, `OnlyCreditsBlock` | what each control state owns: nobody who is settled or waits for a first connection has one, a transaction has one until its second is granted (`Accounted`) |
| `OneMoreIsEnough` | `RoomForAll` | if the pool were stuck, each connection would be owned by a different credit, which makes an injection of `open` into `Credits` |
| `StuckUntilHangUp` | `Spec => [][Stuck => Stuck' \/ \E u : HangUp(u)]_vars` | in a stuck pool every connection is held by a credit that waits (`StuckOwners`), so no statement ends and nothing is granted: nothing inside the program resolves it |

The proof that a step keeps an invariant has one step per action, the proof of a refinement
one per action that writes what the abstract specification sees.

`ImplementsBooks` and the theorems of `BooksProofs` are about the same books, but the second are
not imported into `Ingest`: the instance with empty transfers and readers would have to discharge
`BooksAssumption`, which tlapm does not expand through `INSTANCE`. That `PoolEquation` holds of
the ledger `Ingest` keeps is therefore a conclusion the reader draws. `Transfers` is not shown
to implement `Books`, where every movement is one unit: its amounts and partial balances have no
counterpart there.

Only model-checked: liveness (`EventuallyBooked`, `DebitResolved`,
`EventuallySettled`, `EventuallyCurrent`, `SessionEnds`, `EventuallyAnswered`), which TLAPS does not support under fairness.

## 6. Not modelled

- Isolation of organisations: every module but `Outbound` has one. Most queries carry
  the organisation's id; some do not compare it: `Transfer`, `GetBalance` and `PostDebit` work on the account id in
  the request, `Revoke` looks a key up by id alone, `UpdateAccountStatus` an account. No property is about what a
  request of one organisation does to a row of another.
- Amounts in `Ingest`, currencies, names, signatures, JSON, logging.
- Read-only requests beyond statements, reconciliation runs and the balance that a
  transfer reads: each is one query.
- The access token inside a Nomba client (`nomba/client.go`, `GetToken`): it is read and
  renewed under one mutex, and a client is one version in `Caches`.
- `TouchLastUsed` and the static key of the middleware, `RevokeAllUserTokens`, which has no caller,
  password hashing and token formats.
- `Notification`, the composition of `Inbox` and `Queue`: not begun.
  Its two halves are checked and proved on their own (`CreditQueued` writes the row that `QueueKept` and
  `EventuallySettled` are about).
- The identity service and the idempotency middleware, which nothing constructs, and the
  components of section 1 that are wiring, cryptography or static files.
- Two API processes on one database: `main` gives no protection against it in
  the workers; `render.yaml` asks for one service. The caches would then be two as well.
