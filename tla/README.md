# A verification project for IOT-Server

IOT-Server is the FastAPI backend of an IoT platform. This directory holds TLA+
modules that model its stateful parts, TLC configurations that check them on
small instances, and TLAPS proofs of the most important results. `PROJECT.json`
lists components, runs, mutants, the map from definitions to source lines,
findings, hazards and theorems.

    tlc -config e2e_waiting.cfg MCE2ESession.tla      # a run: configuration, module
    tlapm E2ESession_proofs.tla                       # the proofs of a component

## 1. The system

Two uvicorn worker processes (`Dockerfile:26`) serve the same API. They share
PostgreSQL (accounts, services, subscriptions, rules), Valkey (sessions, rate
limits, onboarding tokens), MongoDB (telemetry) and an MQTT broker, and nothing
else: what a worker keeps in its own memory is its own. An `async` handler
gives way to others at every `await`; a plain `def` handler runs in a thread of
the worker's pool, next to others.

| Part | State | Operations | Talks to |
|---|---|---|---|
| E2E sessions (`app/shared/e2e`, `app/domain/auth`, client `http/e2e.py`) | `e2e_session:{id}` in Valkey, the client's session file | challenge, login, encrypted call, renew, logout, expiry | accounts (at login only), Valkey |
| Entity sessions (`app/shared/session`) | `entity_session:{entity}` and `session_id_index:{id}` | check, create, process a request, touch, invalidate, expiry | Valkey |
| Token sessions (same files, `middleware/auth`) | `user_session:{id}`, `refresh_token:{t}` | authenticate a device or application | Valkey, devices |
| Rate limiter (`app/shared/rate_limit.py`) | `rate_limit:{scope}:{subject}` | count, refuse with Retry-After | called by the routers |
| Authorization policy (`app/shared/authorization`, `app/domain/policy`) | table `casbin_rule`; one enforcer per worker in memory | seed, load, check, add and remove a rule | every protected route |
| Onboarding (`app/domain/onboarding`) | rows of a new account, token in Valkey, mail | register, verify | accounts, Valkey, SMTP |
| Accounts and personal data (`app/domain/personal_data`, administrators, managers, users) | three rows per account | create, update, delete | audit |
| CRUD and audit (`app/shared/base_domain`, `app/domain/audit`) | any table, `audit_log` | create, update, delete, log | all services |
| Subscriptions (`app/domain/payment`) | links user-service, payments, history | assign, pay, expire on read | users, services |
| Services, devices, applications, roles, tickets (`app/domain/service`, `device`, `application`, `role`, `tickets`) | rows, four association tables, ticket tables | CRUD, assign, unassign, list | each other, accounts |
| Webhooks (`app/domain/webhook`) | rows | CRUD; the delivery has no caller | services |
| MQTT bridge (`app/services/mqtt_bridge.py`), telemetry | connection, MongoDB collection | connect, consume, back off | broker, MongoDB |
| Start-up, tenant middleware, cryptography, schema | settings, none | | |

What is hard, and why a unit test hardly reaches it:

* *Several commands, no transaction.* Renewal is GET, DEL, SETEX; a rate-limit
  count is INCR, EXPIRE; an entity session is SET NX, SETEX; onboarding is a
  commit, a SETEX and a mail. Other requests, expiry and failures fall between.
* *Read, then write what was read.* A renewal and a touch write back a record
  read earlier; a deletion of an entity session deletes the index it read and
  the record that is there now.
* *Per-process copies.* Each worker loads its rules once, and runs an MQTT
  bridge of its own over the same subscription.
* *One commit per row.* An account is three rows and up to six commits, with
  those of its audit entries; deletion goes against the foreign keys' direction.
* *Check, then insert.* Links and emails are looked up before they are written,
  and two requests that overlap leave it to a unique constraint.
* *Times as text.* A telemetry query compares instants as the strings they were
  stored as.
* *Swallowed failures.* The onboarding controller answers the same whatever
  happened.
* *TTLs as the only clean-up.* A key that loses its TTL lives for ever.

What makes each part correct is stated by the properties of its module
(section 4). Where the code does something else than a document or a comment
says, a finding or section 6 says so; section 6 also lists what the code does
that nothing in the repository speaks of.

## 2. Plan

| Order | Module | Contents | State |
|---|---|---|---|
| 1 | `SessionLineage`, `E2ESession`, `E2ESession_proofs` | abstract and detailed session store, client, proofs | checked, proved |
| 2 | `EntitySession`, `EntitySession_proofs` | two-key session with keep-TTL touch | checked, proved |
| 3 | `RateLimiter`, proofs in `EntitySession_proofs` | fixed window over INCR and EXPIRE | checked, proved |
| 4 | `PolicyStore`, `PolicyStore_proofs` | enforcers of two workers over one table | checked, proved |
| 5 | `Onboarding`, proofs in `Accounts_proofs` | registration, token, mail, verification | checked, proved |
| 6 | `Subscription`, `Subscription_proofs` | links, subscription types, payments, expiry on read | checked, proved |
| 7 | `TokenSession`, `TokenSession_proofs` | session and refresh token, authentication of devices and applications | checked, proved |
| 8 | `Accounts`, `Accounts_proofs` | three-row accounts, base CRUD with audit, the first administrator | checked, proved |
| 9 | `Links`, `Links_proofs` | associations of services, roles and tickets, with and without foreign keys | checked, proved |
| 10 | `Telemetry`, `Telemetry_proofs` | the MQTT bridges, the endpoint, the range query | checked, proved |
| 11 | refinement in `E2ESession_proofs` | initial states and steps of `E2ESession` map to `SessionLineage` for waiting clients | checked, proved |

"Proved" covers every safety property and action property of the component's
run; liveness is checked only (section 5).

There is one passing run per component. A property that holds only in orderly
use says so itself, with a history variable (`touchers` and `crowded`,
`overtaken`, `orphaned`, `unsure`, `disturbed`, `moved`, `overlapped`, `broken`,
`raced`) that records whether the disorder ever happened, and is checked
together with the unconditional ones in a run where it does happen. What such a
condition leaves out is said with each hazard in `PROJECT.json`. A run that is
expected to end in a violation stands for one disagreement between the code and
what the repository says of it.

## 3. Modules and code

In all of them an action is one command to Valkey, PostgreSQL or the mail
server with the straight-line code up to the next one, slots hold the requests
in flight, and `Abort`, `Crash` or `Restart` ends a request between any two
commands (a worker that dies, an answer that is lost). A command that raises ends
its request, too, and is an action of its own where that leaves more behind than
a request that stopped: a status the client gets (`LookupFails`, `RateLimited`,
`CommandFails`), a change in the memory of a worker that lives on (`BuildFails`,
`SaveFails`), a row without its entry (`RefreshFails`), an insertion that may
have taken effect (`InsertFails`). Payloads, keys and rows are reduced to what
the properties tell apart.

**E2ESession.** `store` is Valkey, `cred` the session file of each client, `req`
the handlers. `LoginResolve`/`SetRecord` are `LoginService.login` and
`create_session`; `Lookup` is `E2EMiddleware.dispatch` up to `call_next`;
`RenewGet`, `RenewDelete`, `SetRecord` are the GET, DEL and SETEX of
`renew_session`; `LogoutDelete` is the handler of `POST /auth/logout`.
`RateLimited` is the 429 of the router's dependency, `CommandFails` the 500 of a
command that raises in a handler, `LookupFails` the middleware's 503. A record
is named by the login it descends from, since renewals copy key and account
unchanged. A client may send the logout with a clear body, as `http/e2e.py`
does, which the middleware refuses. `SessionLineage` is the promise: one
lineage per login, one valid id, replaced in one step, never valid again after
the end. The mapping counts the old id as valid while a renewal that passed its
GET holds it.

**EntitySession.** `rec` and `idx` are the two key families, `ttl` the session
whose creation set the key's deadline (`None`: no TTL). `Exists`, `SetRecord`
(NX), `SetIndex` are a creation; `GetIndex`, `GetRecord`, `Touch` (KEEPTTL) an
encrypted request; `ReadRecord`, `Delete` (the MULTI) an invalidation. Whether a
tag matches the record read is a choice, since the key of a session is the
client's. `deleted` are the sessions an invalidation removed, `overtaken` those
of them that a request which had read the record before still had in hand.

**RateLimiter.** `counter` is the key with its TTL in ticks, `call` the requests
in flight; `Incr`, `Expire`, `Deny` are INCR, EXPIRE, TTL. `admitted` counts, by
age in ticks, what was let through.

**PolicyStore.** `db` is `casbin_rule`, `mem` and `current` the enforcers.
`GetEnforcer`, `Load`, `SeedRule` (one commit per line), `Publish` are
`get_enforcer`; `Authorize`, `Again`, `Act`, `Change`, `Save` an authorized
edit, in which Casbin changes memory first and the table after. `SaveFails` is a
commit that raises: memory stays changed, the worker lives on and answers 500.
`unsure` are the rules of which an enforcer may hold something else than the
table: another enforcer wrote them since it was loaded, two edits of them
overlapped, or their commit raised.

**Onboarding.** `holder`, `row`, `active` are the rows, `token` and `mailbox`
the way of a link, `task` the requests in flight. `CheckEmail`, `Insert`,
`StoreToken`, `SendMail` are a registration, `Swallow` its `except Exception:
pass`; `GetToken`, `Activate`, `DeleteToken` a verification. `Deactivate`,
`DeleteSensitive` and `DeleteNonCritical` are an administrator at work through
`PersonalDataService`, whose deletion commits row by row.

**Subscription.** `link` is `user_service` with its `is_active`, `plan` and
`payment` the other tables, `now` the day. `Assign`, `Unassign`, `SetPlan`,
`DeletePlan` are single transactions whose guards are the foreign keys.
`Calculate` and `Commit` are `create_entity` cut where another transaction can
come between: what it read, and the single commit of payment, history and
activation. `List`, `Check`, `Deactivate`, `Answer` are the two
`check_all_..._subscriptions` and the SELECT of the answer; `cached` and `seen`
are the rows the SQLAlchemy session holds, which a commit expires and a SELECT
does not refresh. `Move` is the generic PATCH of a payment. Requests take no
time: `NextDay` waits until none is in flight.

**TokenSession.** `session` and `refresh` are the two key families with their
deadlines. `Authenticate` and `Check` are `CryptoManager.authenticate`, with
the time its puzzle was made; whatever else may refuse a request (the row, the
key, P2) is a choice. `ReadOld`, `DeleteSession`, `DeleteRefresh`,
`StoreSession`, `StoreRefresh` are the commands of
`create_session_with_tokens`. `Manage` and `Verify` are
`AuthManager.authenticate`, which never gets to a session (section 6). Clocks
advance while requests are in flight.

**Links.** `link` holds the rows of `manager_service`, `application_service`,
`device_service` and `user_role`; `ticket` those of both ticket tables. The
reads of a handler are one action (`AssignManager`, `UnassignManager`, ...,
`Retrieve`), its commit another (`Insert`, `Delete`, `Drop`), where unique pairs
and, where they are `enforced`, foreign keys decide. Tickets are inserted without
a look at what they refer to: without foreign keys, as in the tests, a ticket may
belong to a link that never was. Listings and `get_by_id` change no state and are
left out (section 6 says what they answer).

**Accounts.** `noncritical`, `sensitive`, `account` are the rows of a person;
`todo` is what a request still has to commit, in the order of
`PersonalDataService`. `CreateRow`, `UpdateRow`, `DeleteRow` are a commit of
`BaseRepository`, `RefreshFails` its refresh that raises after the commit, `Audit`
is `_log_audit`, which writes an entry if the context has an account:
`ContextAccount`, what a handler finds there, is `None`. `SeedCommit` is the
single transaction of `seed_admin.py`. `enforced` tells PostgreSQL from the
SQLite of the tests and the development server, which checks no foreign keys.
`log` is `audit_log`, `broken` remembers the persons with a request that ended
half way.

**Telemetry.** Per worker, `app` is its life as `lifespan` drives it, `link`
where its bridge waits, `inbox` the queue of aiomqtt's client, `hand` the point
being inserted. An action is what runs between two awaits of `run_bridge`:
`Connect`, `Subscribe`, `Receive`, `Stored`, `Wake`, with `MqttError` and
`InsertFails` as its exceptions. `Cancelled` and `Swallowed` are the two ways
its cancellation by `lifespan` ends: a connection that is lost at that moment
raises an MqttError in place of the CancelledError, and the loop goes on, while
`lifespan` waits for it (`app` is `"waiting"`). A message is reduced to how the
loop treats it (`Sort`). `Stamp` and `Isoformat` are the two ways an instant
becomes text, as numbers in the order of the texts, and `get_telemetry`
compares them.

## 4. Runs

| Run | Instance | Shows |
|---|---|---|
| `e2e_waiting` | 2 clients that wait, 3 ids | one valid id per login, key and id in step, an id is invalid once its logout is answered 200 or 401, retired ids stay retired, the lineage is implemented |
| `e2e_concurrent` (violation) | 1 client, 2 requests in flight | overlapping renewals leave two valid ids |
| `es_race` | 1 entity, 3 ids, 3 callers with every operation | deadlines kept, no answered session lost, an invalidated one revived only by a request that had verified its tag before |
| `rl_window` | 1 key, 3 requests, limit 3, window 3 | fewer than twice the limit per window, blocked subjects let in again |
| `ps_workers` | 2 workers, 3 threads, 2 rules | the master rule in every enforcer; memory equal to the table but for rules written elsewhere, raced for or not committed; revocations survive restarts |
| `ob_failures` | 1 email, 2 ids, 2 registrations, 2 verifications | links work once, every account gets its link |
| `sub_links` | 2 links of 1 user, 1 type with periods 0, 1 and 2, 2 payments, 2 requests, 3 days | active means paid and paid means active, listings show no link whose payments have ended |
| `ts_device` | 1 device, 3 tokens, 2 requests, 5 ticks, TTL 3, window 1 | session and refresh token together, one session per puzzle, no live session replaced |
| `ln_links` | 1 manager, application, device, user, role and service, 3 link rows, 1 ticket, 2 requests, foreign keys or none | unique pairs, with foreign keys nothing that points nowhere, a removal removes |
| `ac_rows` | 3 persons, 2 emails, 2 requests, foreign keys or none | accounts are whole, leftovers only of requests that ended half way |
| `ac_http` (violation) | 2 persons, 2 emails, 2 requests | no change made through HTTP is logged |
| `tm_bridge` | 2 workers, 3 messages of 3 kinds, delays 5 to 15 | stored once per worker, range queries in UTC right, the bridge comes back |

*Bounds.* Three ids allow a login with two renewals, or two logins and a
renewal, and a stale id next to a live one; the properties of E2E sessions
speak of two ids at a time. Three callers allow a reader that holds an old
record, a deletion and a creation at once, and three ids a session before,
during and after. One rate-limit key is enough since keys share nothing; limit
3 and window 3 let a window begin, fill and overlap the next. A count above the
limit is kept at limit + 1, which the code treats alike. Two rules are the
immutable one and another one, so that a seeding can be cut in half. One email
with two ids is an account deleted and registered again. Two links let a
listing of both deactivate one before it reaches the other, and three days let
a payment of one day end while one of two days does not; the period 0 stands
for a name that `BILLING_PERIODS` does not have. Five ticks let a session of
three begin, end and be followed by another while a puzzle of the first is
still around, and `2 * Window < Ttl` is what `SESSION_TTL_SECONDS` and
`TIMESTAMP_WINDOW` satisfy. Three link rows let a pair be linked, removed and
linked again while a removal of its first row is in flight, next to a link of
another table; a ticket needs one link and its service. Three persons over two
emails are one more than emails suffice for, so that a creation meets a taken
email at the check and at the constraint. Delays of 5, 10 and 15 take the
doubling into the cap as 5 to 60 do; half seconds 2 and 3 are a whole and a
fractional instant, with bounds on both sides of them. `MaxRequests`, `Window`,
`Horizon`, `MaxDelay` and the sets of ids, rows, tokens, messages and payments
are the only bounds; when they run out, sessions, accounts and payments can no
longer be created, but requests go on: deadlock is checked in every run.

*Symmetry* is used for ids and slots that are alike, and only in runs without
liveness.

*Fairness.* Weak fairness of the handlers (`Handle`): uvicorn's event loop runs
what is ready, and every command either answers or raises. Weak fairness of
`Tick`: time passes. Weak fairness of the bridge's own steps (`Work`): the
event loop runs a ready task and `asyncio.sleep` ends; `Resumes` is about
workers that keep running and, from some time on, reach the broker. Clients,
the network, administrators, expiry and failures have none: they may never act
again. `Prompt` says that INCR and EXPIRE of one request fall in the same
second; it is assumed in `rl_window`, where deaths between the two are a step
of their own.

## 5. Proofs

Each `X_proofs` extends `X` and proves its theorems for every value of the
constants that the named assumption of `X` admits: any number of clients,
workers, requests, ids, rows and messages, not only those of the runs. Each has
one operator `Inductive` (in `E2ESession_proofs` four layers), proved for the
initial states and for every action, from which the theorems follow. TLC checked
each of these on the instance of the component's run first.

Two modules prove about two components that live on the same store and share no
variable: `EntitySession_proofs` also extends `RateLimiter` (keys in Valkey with
a TTL), `Accounts_proofs` also extends `Onboarding` (rows of an account). That is
why `RateLimiter` and `Onboarding` have names of their own for what is `Init`,
`Next`, `Spec`, `TypeOK`, `op` and `Slot` elsewhere; their inductive invariants
are `LimiterInductive` and `OnboardingInductive`.

| Module | Theorem | States |
|---|---|---|
| `E2ESession_proofs` | `TypeCorrect`, `ClientKey`, `Retired`, `OneLive`, `Logouts` | `TypeOK`, `ClientHoldsKey`, `RetiredForGood`, `OneLivePerLogin`, `LogoutsEnd` |
| | `StoreImplementsLineage` | `ImplementsLineage`, the refinement |
| `EntitySession_proofs` | `TypeCorrect`, `DeadlinesAreKept`, `SessionsAreReachable`, `InvalidatedStaysOut` | `TypeOK`, `DeadlineKept`, `Reachable`, `NotRevived` |
| | `LimiterTypeCorrect`, `FewerThanTwice` | `LimiterTypeOK`, `LessThanTwice` |
| `PolicyStore_proofs` | `TypeCorrect`, `MasterAlwaysServed`, `MemoryFollowsTable`, `RevocationLasts` | `TypeOK`, `MasterInService`, `MemoryIsTable`, `RevokedForGood` |
| `TokenSession_proofs` | `TypeCorrect`, `PuzzlesOpenOnce`, `KeysArePaired`, `LiveSessionsStay` | `TypeOK`, `PuzzleOnce`, `PairedAtRest`, `NotReplaced` |
| `Accounts_proofs` | `TypeCorrect`, `AccountsAreWhole`, `OnlyBrokenLeavesRows` | `TypeOK`, `Whole`, `NoLeftovers` |
| | `OnboardingTypeCorrect`, `LinksActivateOnce` | `OnboardingTypeOK`, `NotReactivated` |
| `Subscription_proofs` | `TypeCorrect`, `ActiveLinksArePaid`, `PaidLinksAreActive`, `ListingsSettle` | `TypeOK`, `ActiveIsPaid`, `PaidIsActive`, `ListingSettles` |
| `Links_proofs` | `TypeCorrect`, `RemovalsRemove` | `TypeOK`, with unique pairs and foreign keys, `RemovedIsGone` |
| `Telemetry_proofs` | `TypeCorrect`, `WorkersStoreOnce`, `QueriesInUTC` | `TypeOK`, `OncePerWorker`, `RangeInUTC` |

### Assumptions

The constants get what the code fixes and no more. `None` is no value of any
set. `2 * Window < Ttl` is what `SESSION_TTL_SECONDS` and `TIMESTAMP_WINDOW`
satisfy; `Seed[1] = Master` is the first line of `policy.csv`. In `Links`,
primary keys of tables that a link could confuse are UUIDs and differ. In
`RateLimiter` limit and window are positive; the theorems hold with `Crashes`
and `Prompt` either way, with a delay between INCR and EXPIRE as long as one
likes. In `Onboarding` they hold with `Failures` either way. Two theorems name
a condition of their own: `OneLive` and `StoreImplementsLineage` hold with
`Waiting` (no client has two requests in flight; `e2e_concurrent` shows that
they need it). `Logouts` and `Retired` hold without: for any number of requests
of one client, a logout beside a renewal included.

### Inductive invariants

*E2E sessions.* `Base` gives the shape of a handler at each program counter
(which of `sid`, `login`, `new` it has); `TypeOK` alone does not say that a
handler about to write has an id to write. `Names` says that every record,
session file and handler holds an id together with the login it was generated
for, that an id about to be written was never written before, and that two
handlers never hold the same new id: without it nothing excludes that a renewal
writes the id of another login. `ClientNames` says that what a client holds was
issued to it, which with `Waiting` makes the handler of a login unique.
`SoleLive` is the goal with `Exclusive`: a handler about to write a record of a
login finds no valid record of that login, and one that is about to delete an id
is the only one that can have replaced it.

`Logouts` needs no client that waits: `SentStored` says that every id a client
holds or sends was stored once, so that an id the lookup does not find, or the
DEL took away, stays invalid while the answer is on its way (`StaysInvalid`,
which is `RetiredForGood` for one step). It is about the id and not about the
login: a renewal that read the record before a logout took it away writes it
under a new id (section 6).

*The refinement.* In the mapping a login is `"new"` until a session of it was
stored, and its valid ids are those in the store and the one that a renewal
between its second GET and its SETEX holds. The extra invariant `Registered` says
that such a renewal found its id in the store, and that a login on its way to
SETEX is the first to write for its lineage, so that this write maps to `Open`
and not to a second session. Every action is one of seven kinds of step
(`LineageSteps`): nothing the mapping sees (`Quiet`); the GET of a renewal takes
hold of an id (`Grabs`) and its DEL takes it out of the store (`Exchanges`), both
stutters while the id was there; a renewal gives its id up (`Drops`), a logout
(`LogsOut`) and an expiry (`Lapses`), each a `Close` or a stutter; a SETEX
(`Writes`), an `Open` for a login and a `Renew` for a renewal. `SoleLive` is what
makes each of them change one id of one login.

*Entity sessions.* `Owned` keeps the two key families, and what calls have read,
to ids generated for their own entity. `Deadlines` adds to the goal that a
creation between its writes, or with its answer on the way, has a record whose
deadline is its own. `Indices` says that the index is there before the answer is,
`Pending` that an id about to be used by SET NX is nowhere yet. `Recorded` says
that two calls of an entity in flight are in `crowded`, so that `CalmKept`, the
shape of an entity without a touch beside other calls, only meets a touch that
is alone and writes back the record that is there. `Buried` needs no calm: a
session that was deleted while no request had read its record is in no record,
and no request is about to write it.

*Rate limiter.* `LessThanTwice` is not inductive: it does not say how many of the
recent admissions belong to the window in force, and so not how many may follow.
`Bounded` splits what was let in at the start of the window in force: what is
left of the windows before is less than a limit, and so is what was let in after
the tick in which the window got its end. The second bound is strict because the
request that sets the end is let in in that very tick, which a window that ends
has just left behind; so the first bound holds again for the next window.
`FirstCall` is what makes that tick well defined: the request about to send
EXPIRE is the only one of its key, and its counter is there without a TTL, however
long it takes and whoever counts meanwhile. A request that dies there leaves a
counter without an end, which lets in no more than the rest of the limit. A sum
over the window is the cardinality of the set `Recent` of the requests let in, so
that the lemmas about it (`SumOlder`: a tick moves it by one age, an injection;
`SumGrown`: an admission adds one element; `SumParts`: the present tick and the
rest) need the theorems of finite sets and no induction.

*Policy.* An enforcer being built is nobody's (`Private`). The master's rule is
in the table before it is in a memory, since `SeedRule` commits line by line
from the first and no edit removes it (`MasterKept`): a worker that dies in
between leaves a table that still serves the master. `Agreement` is the goal
with the one edit of a rule that may be between memory and table, for any number
of workers and threads: of a rule an enforcer has no doubt about (`unsure`) it
holds what the table holds, and while an edit is in hand, what that edit asked
for. `Away` says that a revoked rule is not on its way to the table either, and
that the table it was taken from is not empty, so that nobody seeds it.

*Token sessions.* `Puzzles` is why a puzzle opens one session: every puzzle that
opened one is out of its window, or the session will outlive it (`Spent`), and
the puzzle of a request that is opening one is newer than all of them (`Later`).
While the session lives an old puzzle is refused for the session, afterwards for
its age, because a TTL is longer than both sides of the window. `Belongs` ties
each token to one entity across both keys and the requests; `OneEach` and
`KnowsAlone` say that an entity's only request, from its check to its SETEX, has
no live session before it; `Undisturbed` that the two keys of an entity whose
requests were alone are paired but between the two SETEX.

*Accounts.* `Progress` says which rows exist after each commit of a creation and
of a deletion; with `Constraints` (unique emails, foreign keys) no other request
can take them away in between. `Explained` is the goal with the requests that
are half way now.

*Onboarding.* Every step of a request is one of eight effects (`Effects`): it
rests, makes an account, stores its token, sends its mail, opens a link, reads
the token, activates, spends the token. `CleanLink` is about an id that met
neither a failure half way nor a second verification: one request uses its link,
and once it has activated the account the token is gone or that very request is
about to delete it, so that nobody can read it again. `SendsAlone` keeps the one
step that brings tokens back out of the way: a registration that still has its
token to store has not sent its link, and as every verification and activation
is of a link that was delivered, its account is not verified yet.

*Subscriptions.* For a link no payment was moved from or to: a commit of a
payment finds no ended payment (`CommitIsFirst`, as a second payment fails in
`Calculate`), a deactivation only meets a link whose payments have ended and will
stay so (`DeactivatesEnded`), and what a listing has behind it, or holds from
before a commit, is still true (`BehindListing`, `HeldIsCurrent`). The last is
where the SQLAlchemy identity map would hurt: a row held as active is only
believed after its check. `LastPayment` shows that a link with payments has a
last expiry, by well-foundedness on the finite set of payments made, whatever
the set `Payment`.

*Links.* `TypeOK` carries the unique pairs and ids and, where they are enforced,
the foreign keys: a commit that would break them is refused, and a new primary
key is one that nothing refers to. `Shape` says that a request joins things of
two tables that have a link, `Removes` that the row a removal found is the only
one of its pair, unless the pair was linked again behind its back (`raced`).

*Telemetry.* `Due` says that what waits in a worker's queue or hand was not
stored by that worker and waits once; `Numbered` keeps document ids apart.
`QueriesInUTC` needs no reachability beyond the type of the points: the lemma
`TextsFollowSeconds` shows that both spellings of an instant are ordered like
its whole seconds.

### Only model-checked

Liveness: `Unblocks`, `LinkDelivered` and `Resumes` rest on fairness and
`ENABLED`, which the proof system does not support. Every other property of the
passing runs is a theorem.

## 6. What the code does otherwise

### Against a document, a comment or a test

Two disagreements are findings with a run: renewal is not atomic
(`e2e_concurrent`), and no change made through HTTP is logged (`ac_http`). The
others:

* *Row-level filtering.* `docs/manual-usuario.md:259` says that managers see the
  devices of their services only, `docs/manual-interno.md:155` that repositories
  and views filter the rows of each user, and
  `tests/security/test_api1_bola.py:14-28` that a user lists no user but
  themself. The services decide it by `get_current_user_from_context`, whose
  only setter (`dependencies.py:53`) runs in a copy of the request's context, so
  that every handler finds `None` and `get_all` and `get_by_id` filter nothing
  (`device/service.py`, `user/service.py:30-32,55-57` and the like): what
  `ac_http` shows of the audit log holds of the filters.
* *Logout.* `docs/manual-usuario.md:186` says that the id is invalid at once.
  `http/e2e.py:239` sends a clear body, the middleware answers 400 before the
  handler runs (`middleware.py:122-128`), and the id stays valid while the client
  forgets it; so it does after 429 (`auth/controller.py:22`), 500 (a DEL that
  raises) and 503. `LogoutsEnd` holds of the answers 200 and 401.
  `auth/controller.py:101` says "Terminate the current E2E session.": a renewal
  of the same id that has read the record before the DEL of the logout writes it
  under a new id afterwards (`session.py:98-105`), and the login goes on.
* *Rules.* `policy/service.py:3-4` says "All mutations go through the DB-backed
  enforcer, so changes persist immediately without restarting the server." Each
  worker loads its rules once and nothing reloads them (`enforcer.py:48`,
  `Dockerfile:26`): the other worker keeps granting a removed rule until a
  restart. A commit that raises (`policy/service.py:43,60`) is answered 500 and
  leaves the rule in, or out of, the memory of its worker only; the next addition
  of that rule finds it there, answers 201 and writes nothing. `MemoryIsTable`
  names these cases (`unsure`) and holds of all others.
* *Limits.* `app/shared/rate_limit.py:1` calls the limiter "Sliding-window"; it
  is a fixed window, so up to twice the limit less one passes within the length
  of a window (`LessThanTwice`). `docs/manual-usuario.md:399` speaks of 3
  requests per second for authentication, tickets, managers and roles; the auth
  router uses the default dependency with its window of 900 seconds
  (`rate_limit.py:86-87`).
* *Payments.* The expiry of the last payment is read back without a time zone and
  compared with one that has it (`payment/service.py:47`): every payment of a
  link after the first ends in a TypeError, while `service.py:33` and
  `docs/manual-interno.md:218` say that it extends the period. `Calculate` fails
  there. `docs/manual-usuario.md:322` says that a service is deactivated
  automatically when its payment ends; the code does it when the link is listed,
  and at no other time.

### Where nothing is promised

Sessions:

* The account in a session record is the one of the login: deactivation, a new
  role, a new password or the deletion of the account do not end the session
  (`auth/service.py:109`).
* `touch_entity_session` sets the key with KEEPTTL and without XX
  (`repository.py:244`): after an expiry or a deletion between its read and its
  write it creates the record again, without a TTL, and over a later creation it
  replaces the record and keeps that one's deadline. `Touch` does all three;
  `NotRevived` says that after a deletion only a request that had read the record
  before can do it, `DeadlineKept` and `Reachable` leave the others out.
* `AuthManager.authenticate` passes `ip` and `user_agent` to
  `create_entity_session`, which has neither (`manager.py:145-150`): a request
  that passes its checks ends in a TypeError. No route calls it, nor the
  `CryptoManager` of devices; `POST /applications/auth` is the only way in.
* Two authentications of one entity that overlap both succeed, and the refresh
  token of the first stays behind its session; a death between the two SETEX
  leaves a session without its refresh token (`PairedAtRest` is about entities
  whose requests neither overlapped nor failed).
* `update_last_activity` has no caller outside the tests. It would give a key
  with under half a second left, whose TTL Valkey answers as 0, the full TTL
  again (`repository.py:99-100`), and bring back a session deleted between its
  read and its write.
* A creation of an entity session that dies between its two writes leaves a
  record nobody can find until its TTL ends; creations answer 409 meanwhile.

Policy, limits and onboarding:

* A seeding of the policy that was interrupted is not completed later, since a
  table with any rule counts as seeded (`enforcer.py:32`).
* A request that dies between INCR and EXPIRE leaves a counter without a TTL
  (`repository.py:130`), which nobody ever sets again: hence `orphaned` in
  `Unblocks`.
* A registration whose link expires keeps its email, and registering again
  ends silently. It is answered "a link has been sent" when Valkey or the mail
  server failed, too (`onboarding/controller.py:37-41`). Two verifications of one
  link that overlap both activate, over a deactivation between them.

Accounts, payments, links and telemetry:

* A creation or a deletion of an account that ends half way leaves rows that keep
  the email (`NoLeftovers`). An update with an email that is taken commits the
  names and then fails (`personal_data/service.py:46-49`); CURP and RFC are
  unique as well and looked up by no creation.
* The link handlers under `/services`, the assignment of roles and
  `change_password` go past `BaseService` and would log nothing even with an
  account in the context. Two changes of a password that overlap with the same
  current password both succeed.
* A payment that a PATCH moves to another link leaves its old link active with
  no payment, which no listing deactivates. `DELETE /payments/{id}` always
  fails: the history entry of the payment refers to it. Two first payments of a
  link that overlap pay one period twice.
* A ticket may name a service other than that of its role
  (`CreateServiceTicket`), and without foreign keys a link that does not exist.
* The baseline migration has neither `password_salt` nor tenants nor the views;
  `create_db_and_tables` makes them.
* A range query whose bounds carry an offset other than UTC compares their local
  time with stored UTC (`telemetry/repository.py:43-45`), and within the second
  of a bound the fraction, the offset and the "Z" are compared as characters:
  `RangeInUTC` is what holds.
* Every worker that is subscribed stores each MQTT message (`mqtt_bridge.py:69`),
  and a message that raises drops the rest of the queue with the connection.
* A bridge that loses its connection as it is cancelled reconnects
  (`mqtt_bridge.py:99`), and `lifespan` waits for it for ever
  (`main.py:58-62`): `Swallowed`.

## 7. Not modelled

* Webhooks: single-row CRUD; `deliver_event`, with its retries, is called by no
  code of the repository.
* XMSS (`auth_xmss/challenge.py`, marked "no cover"), the puzzle's cryptography,
  `app/shared/crypto.py`: pure functions over external libraries. The models
  assume of them that a message opens with the key that sealed it and with no
  other. `HumanPasswordAuth` and the refresh-token lookup and blacklist of
  `SessionRepository` are reached by no route.
* The change of a password: one row, one commit, and no other state depends on
  it (section 6).
* Tenant middleware, configuration, logging, the headers and routers of
  `main.py`, `scripts/dev_server.py`, the request schemas and their validators,
  the parsing of `.http` files: wiring; what they fix appears as constants.
* Listings, `get_by_id` and the five views: they change no state, and over HTTP
  no account reaches their filters (section 6).
* Fields without a role in what a step may do: names, amounts, deposits, titles,
  priorities, payloads; paging.
* Casbin, Valkey, PostgreSQL, MongoDB, the MQTT broker, aiomqtt, SMTP and process
  supervision are external and modelled from how the code uses them.
