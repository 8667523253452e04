# Finora: TLA+ models, checks and proofs

Finora is a personal-finance application: a Next.js front end, an API gateway
and four Go services (user, expense, budget, notification), each with its own
MongoDB database, connected by REST calls and by events over NATS JetStream.
This directory models the parts of it whose correctness depends on the order in
which things happen, checks them with TLC on small instances and proves the
central results with TLAPS for every instance.

## 1. Inventory

| Part | State | Operations | Interacts with | Hard behaviour | What makes it correct |
|---|---|---|---|---|---|
| Transactional outbox (`shared/outbox`) | `outbox_events` documents with `published_at` | `Store.Enqueue`, `Relay.Run` / `RelayOnce` | MongoDB, event bus | crash or failure between publish and mark; cursor over a changing collection | nothing marked that is not on the stream; nothing republished after its mark; every document gets through |
| Event bus (`shared/eventbus`) over JetStream | stream, de-duplication window, durable consumer (deliveries, acks), client buffer | `EnsureStream`, `Publish`, `Subscribe` | relay, handlers | late requests, lost acks, AckWait, MaxDeliver, MaxAge, restarts | one copy per de-duplication window; nothing retired unhandled; bounded redelivery |
| expense-service | accounts, categories, transactions | CRUD, CSV import; every created transaction enqueues `finora.transaction.created` | outbox | two writes without a transaction; check-then-insert of references | an event is lost only between those two writes |
| budget-service, budgets | budgets with `last_notified_at` | CRUD; `HandleTransactionCreated` | expense-service (REST), outbox | whole-document write-back of stale reads; swallowed failures; redelivery; spending that changes without an event | overspending is noticed; every extra notification has a cause; a deleted budget stays deleted |
| budget-service, goals | goals | CRUD | browser | full-replace PUT with what the client last saw; dates cut to milliseconds in the store and not in the answers; the clock passes the date | dates were valid when accepted; a due goal takes progress; progress is not undone unnoticed |
| budget-service, reports and expense client | – | `Summary`: for each budget a look-up by name and a page loop | expense-service (REST) | paging over a changing list, equal dates, equal names, page limit, hanging calls | every expense once when nothing moves; errors bounded by what moves; an answer in the end |
| notification-service | notifications | create from event or REST, list, mark read | event bus | redelivery without an idempotency key; payloads that do not decode | at least one notification per event that decodes, at most one per delivery |
| user-service, authentication | users, settings, refresh tokens | register, login, refresh, logout | gateway, browser | check-then-act between database calls; TTL removal; partial failure | unique addresses; a revoked token is refused; reuse ends the user's sessions |
| user-service, profile and settings | users, settings | get, update | – | read-merge-write; the seed at registration | a field that a PUT leaves out keeps its value |
| Gateway, shared middleware | rate limiter's visitor table | answer preflights, limit, check token, route, proxy | all services | sweep against requests; table and routers written apart; headers that a client sends itself | a backend acts for the owner of the token only; every endpoint is reached; an eviction cannot be noticed; the table does not grow for ever |
| Browser session (`frontend/lib`) | tokens in local storage, one refresh promise per tab | call, refresh and retry, log out | gateway | parallel 401s, several tabs | one refresh for parallel 401s; reuse detection is set off only with a cause; signed out stays signed out |
| Pages, bootstrap, health, logging, configuration, OpenAPI, deployment files | – | – | – | – | not modelled: presentation, input/output, static text |

`PROJECT.json` lists the same parts as components, and under `hazards` every
place of the code that is hard to test, with the properties aimed at it.

## 2. Modules

| Module | Models |
|---|---|
| `Outbox` | `shared/outbox/outbox.go`: `Store` and `Relay` |
| `EventBus` | `shared/eventbus/eventbus.go` and the JetStream server as that code uses it |
| `Delivery` | composition: a producing request, `Outbox`, `EventBus`; the properties of the event path |
| `AtLeastOnce` | abstract specification: what the event path promises to both sides |
| `DeliveryProofs` | theorems about `Delivery`, its refinement of `AtLeastOnce`, and `Notifications` |
| `Notifications` | extends `Delivery` with `notification-service`: its callback, and the requests on notifications |
| `AuthService` | `user-service` registration, login, refresh, logout over its three collections |
| `Session` | extends `AuthService` with a browser (`frontend/lib`) and the gateway's token check |
| `Overspend` | `budget-service` budgets API and the `transaction.created` handler |
| `ImportRow` | the amount rules of the CSV import as operators over an abstract float64 |
| `ExpenseStore` | `expense-service` accounts, categories, transactions and the import's row loop; uses `ImportRow` |
| `Profile` | extends `AuthService` with the two PUTs under `/users/me` |
| `Goals` | `budget-service` goals and the clients that show and replace them |
| `Reports` | `budget-service` `Summary`, its expense client, and the list it reads in `expense-service` |
| `TokenBucket` | abstract specification: one bucket per client, never evicted |
| `RateLimit` | `shared/middleware/ratelimit.go`: the visitor table, its clock and its sweep |
| `RateLimitProofs` | theorems about `RateLimit`, its refinement of `TokenBucket`, and `Gateway` |
| `Gateway` | extends `RateLimit` with the gateway's chain, routing table and proxies, and the routers behind it |
| `AuthProofs`, `ProfileProofs`, `SessionProofs` | theorems about `AuthService`; about `Profile` and `Session`, which keep them |
| `OverspendProofs` | theorems about `Overspend` |
| `ExpenseProofs` | theorems about `ExpenseStore`, and about the amount rules of `ImportRow` |
| `BudgetProofs` | theorems about `Goals` and `Reports` |
| `MC*` | instances for TLC: id assignments, sample rows, symmetry |

### Outbox, EventBus, Delivery

Each database and broker call is an action of its own, because request
goroutines, the relay goroutine, the broker and crashes interleave between any
two of them. `outbox[r]` is the state of one `outbox_events` document
(`absent`, `queued` = `published_at` null, `published`); `relayPc`, `batch` and
`cur` are the program counter, the rest of the cursor and the document in hand
of `RelayOnce`. `RelayPoll` is the `Find`, `RelayPublish` the `cursor.Next` and
the start of `Publish`, `RelayPublishOk`/`Err` its return, `RelayMark`/`MarkErr`
the `UpdateByID`.

A `Publish` is split into the request on its way (`progress = "sent"`), the
server having processed it (`"stored"`) and its return. When it returns an
error, or its process stops, its request may have been dropped or may still be
under way in the client's reconnect buffer (`late`); a late request can reach
the server at any later time. In reality requests of one connection keep their
order, so the model admits more behaviours than the code has, which is sound
for the safety properties and the proofs. The server assigns sequence numbers, drops what is in its
de-duplication window (`dedup`; `DedupLapse` ends a window) and removes the
oldest message at MaxAge (`AgeOut`).

The durable consumer has a server side (`deliveries`, `waiting` = AckWait
running, `acked`) and a client side (`buffer`, `handling`, acks on the wire).
`AckWaitExpires` can happen while a copy is buffered or being handled, so a
message can be handled several times; `runs[s]` counts the successful handlers.
`HandlerErr` sends a nak which may be lost. `ConsumerCrash` loses the client
side and nothing else.

`Delivery` adds the request goroutines that first commit a transaction and then
enqueue its event (`producer[r]`). `MsgOf` maps documents to de-duplication
ids: in expense-service every transaction has its own (`tx.ID`), in
budget-service two detections for one budget and period share one. The runs
use one document; the theorems hold for every assignment.

### AtLeastOnce

The promise: an event is written, then accepted or lost; an accepted event is
handled, or given up; nothing else is handled, and nothing that was given up
or handled becomes undone. `Delivery` maps `handled` to the ids with a
successful run and `dropped` to the ids with a message that can no longer be
delivered and was never handled (`Abandoned`).

### AuthService

`pc[p]` is the database call that request `p` makes next; `token`, `user` and
`email` are its local variables. `RefreshFind` is `FindByJTIHash` with the
checks of the document it read, `RefreshRevoke` is `Revoke`, whose filter is
`_id` alone, `Issue` is `issueTokenPair`. `RevokeAllForUser` is an `UpdateMany`,
which MongoDB does not make atomic across documents: `RevokeAllBegin` begins it
and notes the user's tokens (`covered`), each `RevokeOne` updates one document, in
any order, and `RevokeAllEnd` comes when none of `covered` is live. Other requests
read, revoke and insert tokens between those steps; a token inserted meanwhile may
be met by the scan or missed.
`Fail` is an error of any call, or the process stopping. `Expire` and
`TtlDelete` are time passing and the TTL index. Password hashes and signatures
are abstracted to whether they match: `LoginFind` chooses either outcome, and a
client presents only tokens it was given. `parent`, `stale`, `old` and
`pardoned` are history variables that only properties read.

### Notifications

The consuming end for `finora.budget.overspent`. `HandleBudgetOverspent` is the
insert of a notification between `HandlerStart` and the callback's return;
`CallbackDiscard` is the branch for a payload that `json.Unmarshal` refuses
(`malformed`, any set of events): it is logged and acked, and nothing is inserted.
`CallbackOk` acks after an insert, `CallbackErr` is a failed insert (nak),
`CallbackUnanswered` one that took effect and still reported an error, and
`ServiceCrash` loses the callback wherever it is. `CreateNote` and `MarkRead`
are the requests. A notification keeps the sequence number it came from (0 for
a request), which the code does not store: it is what the properties count by.

### Session

A pair of tokens is named by its refresh token; `stored` is the pair in
localStorage, `lapsed` the pairs whose access token has expired. Scripts run
from one await to the next without interruption, so an action is what a tab does
between two awaits: send and be refused (`ApiFetch`, `Logout`), hear of a 401
and join or begin a refresh (`Denied`, `TryRefresh`), hear of the refresh
(`RefreshSettles`), send again (`Retry`). `asking[b] = "refresh"` is a
`refreshPromise` that is not null, `using[b]` the token its closure captured.
The gateway decides when a call is sent; its answer arrives later, when the
stored pair may be another one. `AnswerLost` is a broken connection or the 502
of the gateway's proxy, `Unload` a reload, a closed tab or the redirect to
`/login`, all of which leave the server working. The server is `AuthService`,
one database call per step. `cut` (history) holds the tokens that a browser may
come to present after they were revoked: those that two tabs presented at once,
whose page went away, that logout sent or that reuse detection revoked. An expired refresh token is refused like a request
that is lost, so the passage of seven days is not a step of its own here.

### Overspend

One user's budgets, the requests that change them and the consume callback,
which runs one event at a time (`pc`, and the list it works on as `snapAmount`,
`snapNotified`, `todo`). A PUT is `PutRead` then `PutWrite`; both it and the
handler end in `Update`, which sets every field. Periods are numbered, and the
category and the length of a budget's period are fixed.

`spend[k]` is what the category's expenses of period k that are dated up to today
add up to. `Spend` is a created expense, whose event is on the way; `CreateOther`
a created transaction that the sum does not hold, or not yet: an income, another
category, a date ahead. The other changes have no event: `SpendFalls` is a DELETE,
`SpendEdited` a PUT of a transaction, which may raise or lower the sum and move an
expense to another date, or the day of one dated ahead. The handler asks for the
sum up to its own `now`, read when the callback began; `counted` is how much of the
sum is surely dated up to then, and a check may see anything between it and the
whole (`Sums`).

`pending` counts events not acknowledged; the at-least-once delivery shown for
`Delivery` is what lets `Done` and `Crash` leave the event to be delivered again,
and `EventLost` is what that promise leaves open: an event that was not enqueued,
aged out, did not decode or failed in its last delivery. `PublishErr` is an insert
into the outbox that failed, `PublishUnanswered` one that took effect and reported
an error: the code cannot tell, and leaves the budget unmarked either way. `missed`,
`excused` and `acknowledged` are history; `excused` begins empty with every run of
the handler (`List`).

### ImportRow and ExpenseStore

`ImportRow` keeps of a cell whether it is blank, punctuation, text or a numeral,
whether it is in parentheses and its value; a value is a number, an infinity or
NaN, with Go's comparisons (`Less`, `AtMost`: every comparison with NaN is
false). `resolveImportAmount` and `buildImportedTransaction` are the functions
of those names.

In `ExpenseStore` a request `req[p]` makes one database call per step: look up
the account, look up the category, insert or update, enqueue the event. Accounts
and transactions may be deleted or changed by other requests in between. The
import reads its account once and then takes row after row: `ImportSkip`,
`ImportRow`, `ImportRowUnanswered` (the insert takes effect and reports an
error). Names, dates, notes and balances are left out.

### Profile

`UpdateProfileRead` is `FindByID`, `UpdateProfileReplace` the `ReplaceOne` of the
whole user document; `UpdateSettingsRead` is the check of both fields and
`GetSettings` (the document, or the defaults when there is none),
`UpdateSettingsUpsert` the merge and the upsert. Registration writes the same
documents: `RegisterNamed` and `RegisterSeeds` are `AuthService`'s steps with
what they put there. The name of a registration is stored as it comes, so it may
be one that the PUT refuses (`BadName`: nothing but blanks, for instance);
`renamed` (history) are the users whose name a PUT has written. The editors are request goroutines apart from
`AuthService`'s; they act for a user who was given a token once. `wanted` is what
the last PUT that named a field put into it, `behind` the requests whose read is
no longer what is stored, `clobbered` the users whose settings such a request, or
a late seed, has written.

### Goals

A tab holds what its last answer showed (`got`, `gotProgress`) and its PUT under
way. The answers of GET have the date as it is stored; those of POST and PUT have
it as it was sent, with what it has below a millisecond, since `Create` and `Update` answer with
the structure they wrote (`GoalCreate`, `GoalUpdate`; an answer may also get lost).
A PUT sends name, target and progress together, so a user who changes only one of
them sends back the others as last seen (`handleSaveEdit` and `handleLogProgress`
of the goals page). `moved` and `behind` (history) say whether another client has
changed the date, or anything, since the tab's last answer.
`GoalPut` is everything up to `GetByIDForUser` and the comparison of the dates,
`GoalUpdate` the `FindOneAndUpdate`. `Stored` cuts a date to milliseconds, which
are `Milli` moments of the clock that `time.Now()` reads. Validation of names and
amounts is left out: what it refuses changes nothing.

### Reports

`RangeBudgets` is the loop over the budgets, `FindCategory` the look-up by name,
`GetPage` one request for a page, `SummaryFails` a call that times out or reports
an error. The page is what expense-service returns for skip and limit: sorted by
date, latest first, with any order among equal dates (`Firsts` are the first k of
such a list, `Pages` the first `Limit` of what is left after the first skip).
Between two calls
transactions are inserted, deleted and moved, and a category with the same name
may appear. `report.counted` says how often each transaction is in the sum, so
that the properties can name what is missing and what is there twice. `seen`
(history) counts the changes since the loop began.

### RateLimit, TokenBucket, Gateway

`visitors` is the map of `ratelimit.go`, a function on the clients that are in it;
a visitor is the tokens of its limiter and the time since `lastSeen`. A request
holds the mutex from the look-up to `Allow`, a sweep for its whole pass, so both
are single steps. `TokenBucket` has no table: the refinement mapping gives a
client that is not tracked a full bucket. That an eviction cannot be noticed rests
on `Burst <= Rate * Quiet` (`RateAssumption`): the three minutes of the sweep must
fill an empty limiter. The defaults (10 per second, burst 20) are far inside it;
a configuration with a burst above 180 times the rate would not be.

`Gateway` takes a request through CORS, the limiter, gin's routes and
`RequireAccessToken` in one step (`Preflight`, `Admitted`, `TooMany`) and leaves it
answered or with a proxy. The backend (`BackendAnswers`: its router, then
`RequireIdentity`, then the body) and the way back (`ProxyCopies`, `ProxyFails`,
`ProxyTooLarge`) follow. Paths are sequences of pieces, so that a prefix may end
within a segment as it may for `strings.HasPrefix`; the routers of the four
services are the sets `UserService`, `ExpenseService`, `BudgetService` and
`NotificationService`. What a handler does with a request that it accepts is the
subject of the other modules; here it counts for whom it acted.

## 3. Runs

| Run | Bounds | States | Shows |
|---|---|---|---|
| `event_path` | 1 event, 2 sequence numbers, MaxDeliver 2, one lapse, one late request, one aged message; 2 notifications, 2 users; the payload decodes or not | 1.14 million | no hop loses, fakes or repeats an event beyond its limit; what was acked is notified unless it does not decode; the path implements `AtLeastOnce` |
| `delivery_live` | the same event path without the notifications | 45 000 | under fairness every enqueued event is handled or given up |
| `auth` | 2 concurrent requests, 2 users, 1 address, 3 tokens; or, after the first login, 2 editors next to a registration's seed, 2 currencies, 2 zones, 1 good and 1 bad name; 1 token that expires or never reaches its client | 0.95 million | unique addresses, revoked tokens refused, containment up to requests in flight; edits are kept unless a request writes what it read before another write |
| `auth_rotation_race` (violation) | 2 concurrent requests, 1 user | | one token can be rotated twice |
| `session` | 2 tabs, 3 calls (2 of them in one tab), 1 request at a time at the server, 2 tokens | 1.15 million | reuse detection has a cause; signed out stays signed out; no call waits for nothing |
| `session_reuse` (violation) | 1 tab, 1 call at a time | | a reload during a refresh makes the browser present a rotated token |
| `overspend` | 2 budgets, 2 periods, 2 pending events, expenses up to 2, 1 PUT client, 1 missed mark | 1.4 million | overspending is noticed, extra notifications are accounted for, deleted budgets stay deleted |
| `overspend_lost_put` (violation) | 1 budget | | the handler undoes a PUT |
| `expense` | 2 requests with 2 users, 2 accounts, 1 category, 1 transaction; or 1 account, 2 transactions, 2 currencies, files of up to 2 rows; or every combination of a small set of cells in the amount, debit, credit and type columns | 647 000 | a transaction never refers to another user's account or category; every stored one is announced or its loss is known; the import's answer adds up; one file, one currency; money in stays money in |
| `import_nan` (violation) | every row as above | | NaN is stored |
| `goals_reports` | 1 goal, 2 tabs, dates and clock up to 3, 2 moments to a millisecond; or 5 transactions (1 income), 5 dates, 2 categories, pages of 2, 2 pages, up to 2 budgets, 2 changes | 1.15 million | dates were vetted, due goals take progress, progress is kept unless a client was behind; a report's sum is exact in a quiet list and off by no more than what moved otherwise; every report is answered |
| `gateway` | 2 clients, burst 6, cost 2, rate 1, evicted after 6 ticks; or every endpoint, token, header and body size | 13 600 | the visitor table is a bucket per client and forgets quiet ones; backends act for the token's owner; no endpoint is missed |

Why the bounds are enough to be interesting: the event can be published twice
with a lapse of the window in between, its message can use up its deliveries,
and both processes may crash any number of times. Two concurrent requests are
what every check-then-act pair of AuthService and ExpenseStore needs, and three
tokens allow a rotation chain next to a second session. Two calls in one tab
share a refresh, the second tab races it; two tokens are a login and one
rotation. Two periods let a mark of an old period meet a new one, two budgets let
one fail while the other is checked. Two rows let an account change between
them. Five transactions on pages of two fill the two pages that a report may read
and leave one over; two changes are an insertion and a deletion, or one move. A
limiter of three requests is emptied and filled again while the sweep runs.
Deadlock is checked in `gateway`, where the clock and the sweep never stop. The other
systems may rest: no request under way, no event left, or a bound reached.

Some `MC` modules put several questions into one run: the behaviours begin with
one of several casts of clients or one of several parts at work, and the others
rest (`MCExpenseStore`, `MCGoalsReports`, `MCGateway`); the parts share no state,
so nothing is lost by it. In `MCProfile` edits begin with the first session and
only the seed of a registration runs next to them: refreshes and logouts write
neither names nor settings. Once there is a session, `MCProfile` begins no further
registration (the one address is taken), an account with a bad name signs in once,
and at most one token expires or fails to reach its client (`MaxMishaps`).
`MCOverspend` does not go on from states with a lost mark for more than one pair of
budget and period (`MaxLost`).

Fairness. `gateway`: time passes, and the sweeping goroutine, an endless loop,
runs again (weak fairness of `Tick` and `Sweep`). `goals_reports`: a `Summary`
takes its next step, because each of its calls returns or is ended by
`requestTimeout` (weak fairness of its steps, written out as `SummaryFairness`);
whatever else happens is free. `delivery_live`: the relay's ticker fires for ever and its loop
always goes on (weak fairness of `Poll` and `PassEnds`). Publish, its arrival,
its answer and the mark are retried for ever by the relay, also after a crash,
since the process is restarted by its orchestrator; each is assumed not to fail
every single time (strong fairness). The server delivers what it may deliver and
ends AckWait, and the callback returns (weak fairness); the next message of a
restarting client's buffer is taken eventually (strong fairness). Nothing is
assumed about acks arriving, or about the handler succeeding: an event that is
never handled ends as given up.

The violation runs are disagreements between a comment or document and the
code; `PROJECT.json` quotes the lines under `findings`. More are known and
stated by what does hold. `OneCopyPerWindow` counts exactly how many messages one
transaction becomes: two when its mark fails and the next publish comes after
the window, although `events/publisher.go` 46-49 says "one transaction, one
event, by construction". `ContainmentUpToInFlight` names the refreshes that
survive reuse detection, which `auth_service.go` 137-139 says forces "full
re-authentication on all devices/sessions". `EditsKept` names the writes that lose
another one's field, although user-service's README says that a PUT of the settings
"merges only the fields provided". `QuietSumIsExact` names what a report leaves out
even when nothing moves: expenses of an older category of the same name and those
behind the 5000th. `DueGoalsTakeProgress` names the client that is locked out of a
due goal without anybody having changed its date: it sends back the date that the
answer to its own POST or PUT had (`goal_service.go` 46 and 99), which has more
digits than the stored one that line 87 compares it with, although the comment at
83-86 says that a due date "must not permanently lock the goal out"; a GET ends the
lock. The goals page sends only the day of a date, so that a goal which was created
with a time of day is refused once its day has begun. `ProfileTypeOK` excepts the name that an
account was registered with: `auth_handler.go` 33-34 says that "register and
update-profile agree on what a valid name is", but the PUT trims the name first and
registration does not. `OverspendNoticed` names what the detector does not see until
the next transaction is created, above all the PUT of a transaction.

## 4. Proofs

All theorems are about the specification that the runs check, for every value of
the constants that meets the named assumptions; those only say that bounds are
naturals, that "none" values are not ids, and the like (exceptions are mentioned).
Each proof goes through an inductive invariant. Most properties are not inductive
by themselves, because what they say is decided by a program counter or a value
that was read several steps earlier; the invariants add what those locals mean.
Every invariant was checked by TLC on the instance of its run before it was proved
(states in parentheses).

**DeliveryProofs**: any number of rows, ids, sequence numbers, deliveries, lapses,
late requests, aged messages and notifications.

* `TypeCorrect`: `Spec => []TypeOK`; being proved, it is not checked by a run.
* `OutboxLosesNothing`, `MarkedIsLeftAlone`: `PublishedWasStored` and
  `NeverRepublishMarked`. `PublishedWasStored` is not inductive: the mark is made
  from the relay's program counter, long after the store. `RelayInv` ties the
  relay's program counter to the request of its Publish and its cursor to the
  collection; `StoredInv` says that what is in the window, answered, about to be
  marked or marked is on the stream.
* `ConsumerSafe`, `HandlingIsBounded`: `AckedWasHandled` and
  `RunsWithinMaxDeliver`. `ConsumerInv` counts deliveries: every one is buffered,
  in hand, handled or spent; and acks on the wire are of handled messages.
* `DedupExact`: `OneCopyPerWindow`, inductive with `TypeOK`; the count is by
  cardinality, so that the number of copies is exact and not bounded only.
* `PathKeepsPromise`: `Spec => ImplementsAtLeastOnce`. `OriginInv` says that
  whatever is under way or on the stream comes from an enqueued row and that
  only stored messages have been delivered or have aged. Commit, Enqueue and
  the losses map to the abstract ones, a successful handler to `Handle`, the
  steps that can end a message's last chance to `GiveUp`, all others to
  stuttering.
* `HandlerKeepsDelivery`: `NoteSpec => Spec`, so all of the above holds with
  notification-service as the consumer. `AckLeavesNotification` and
  `RepeatsWithinDeliveries` (`AckedIsNotified`, `NotesWithinDeliveries`) follow from
  `NoteInv`: the notifications of a message, its copies in the buffer and the one in
  hand are together at most its deliveries, and a callback that has inserted works on
  a payload that decodes (1 140 074). It rests on what is proved of the path
  (`PathInvariants`): a sequence number that was delivered once keeps its message,
  so that a payload that decodes goes on doing so (`DeliveredStays`).

**AuthProofs, ProfileProofs, SessionProofs**: any number of requests, users,
addresses and tokens, editors, tabs and calls. A request and a token have different
names (`IdsAssumption`), which the history variable `pardoned` needs: it holds both.

* `AddressesAreUnique`, `ReplaysAreRefused`, `ReuseIsContained` from `AuthInv`
  (948 251): `LocalsInv` says what a request has read when it needs it and that the
  tokens which a scan has to cover exist, `StaleInv` that a request which began with
  a revoked token is still before the check, `ContainmentInv` that a rotation of a
  token that a finished scan has covered is pardoned or comes of one that is. While
  a scan runs nothing is claimed of its tokens; its end establishes the claim for
  all of them at once.
* `StoredIsChecked`, `EditsAreKept` from `ProfileInv`, where an editor that is not
  behind has the document as it is stored, and a name that a PUT has checked can be
  followed only by another such name; `EditsLeaveAuthAlone` carries the three
  theorems of AuthService over, although edits write the user document as a whole.
* `WaitsHaveRequests`, `ReuseIsCaused`, `SignOutIsFinal` from `SessionInv`
  (1 149 801): a revoked token is in a tab or a request only when one of the named
  causes has put it there; `BrowserKeepsAuth` as for edits.

**OverspendProofs**: any number of budgets, amounts, periods, events and clients.

* `BudgetsStayValid`, `SecondNotificationsHaveACause`, `OverspendIsNoticed` from
  `OverspendInv` (1 399 197): no mark is from the future, a budget without a mark
  has no notification but for missed marks, and while the handler works on the last
  event, a budget that is not excused is as it was listed, all that is spent in its
  period is `counted`, and it has been noticed unless the loop is still to visit it
  (`LastEventInv`). An expense that is created meanwhile brings an event of its own,
  so that this one is not the last.
* `DeletionIsFinal`: the action property `DeletedStaysDeleted`.
* `OnlyOverlapLosesPuts`: how far the finding of `overspend_lost_put` goes. A budget
  can be other than the user set it only if a PUT was written while the handler held
  that budget from its list (`PutsStayApart` excludes it): otherwise what the handler
  writes back is the current amount (`HeldIsCurrent`).

**ExpenseProofs**: any number of requests, users, accounts, transactions and rows.

* `DocumentsStayValid`, `ReferencesAreOwn`, `TransactionsAreAnnounced`,
  `ImportsAddUp`, `FilesHaveOneCurrency` from `StoreInv` (646 863): a request past
  the check of an account or category holds one of its user, also when it has been
  deleted since; and `FileInv` gives the transactions of an import under way their
  currency and their number.
* `RowsKeepTheirCash`: `CashEffectPreserved` for rows with any integers, infinities
  and NaN in their cells, by cases over the column that the amount is taken from.
* `OnlyNaNGetsThrough`: how far the finding of `import_nan` goes. A row without NaN in
  its amount, debit and credit cells is stored with a number in `1..MaxAmount` or
  refused: infinities, zero and text do not get through.

**BudgetProofs**: any goals, clients and dates, any precision of stored dates; any
finite set of transactions and categories, any sizes of pages.

* `DatesAreVetted`, `ProgressIsTaken`, `ProgressIsKept` from `GoalInv` (1 148 732): a
  PUT that was let through carries a vetted date, a goal whose date nobody else has
  changed has the date of the client's last answer as far as dates are stored
  (`DateKnown`), and a client that is not behind has the stored progress.
* `QuietLoopsReadAll`, `QuietSumsAreExact` from `ReportInv` (1 148 732): the pages so
  far have the latest `(page - 1) * PageSize` of the list. The argument is about
  cardinalities (`FirstsAreNewest`, `PageFacts`): in a list without equal dates a
  transaction is among the first k if fewer than k are later, and what was skipped
  and the page are together the first k + PageSize.
* `SlipsAreBounded`: `SlipsWithinChurn`, for a list that changes while the loop reads
  it. The property is about what was read; what a change does to it shows only with
  the pages that are still to come. `SlipInv` therefore counts what is `Owed`: the
  slips so far, and those that are certain because a transaction that was not counted
  has moved in front of the frontier of the loop, or one that was has moved behind
  it. One insertion or deletion moves the others by one place, and since the
  dates differ at most one of them crosses the frontier (`OneCrosses`); a move of a
  transaction is such a change for the others (`ChangeSlips`); reading a page pays
  what is owed and adds nothing (`PageSlips`).
* `SummaryIsBounded`: every step of a `Summary` lowers `WorkLeft`, so that with `n`
  budgets it ends within `n * (maxReportPages + 3) + 1` steps, whatever happens to the
  list. This is what `SummaryAnswers` needs besides fairness.
* `BudgetStaysValid`: `BudgetTypeOK`, for goals and reports side by side.

**RateLimitProofs**: all clients, costs, bursts, rates and times after which the
sweep evicts, under `RateAssumption` (all positive, and `Burst <= Rate * Quiet`);
all requests, users and configurations of the gateway.

* `LimitersAreCharged`: `RateSpec => []RateInv`, the types and `IdleFills` together:
  a tick adds as much to a limiter as `IdleFills` asks for, a request sets the idle
  time to 0, and a limiter that has been idle for longer than `Quiet` is full.
* `SweepIsInvisible`: `RateSpec => LimiterIsBucket`. Requests map to `Admit` and
  `Refuse`, a tick to `Fill`; a sweep is a stuttering step because of `IdleFills`:
  whom it evicts had a full limiter and is given a full one.
* `RateIsLimited`: in any stretch of time a client gets at most a burst and what the
  rate allows for that time, `Cost * used <= Burst + Rate * ticks`. The count (`used`,
  `ticks`) begins in any state that meets `RateInv`; what was used and what is left
  together never exceed what was given (`Balance`), and the sweep changes neither.
* `GatewayKeepsLimiter`: the same inside the gateway, whatever its clients send.
* `HandlersActForTokenOwner`: `ActsForTokenOwner`, from `CallInv`: what a proxy was
  given carries the user of its token, or is for a route that needs none.
* `EndpointsAreReached`: `EveryEndpointReached`, from the same invariant, which also
  says that a request for an endpoint is on its way to a service that has it. No
  two rows of the routing table match one path, since their prefixes begin
  differently (`TableRows`); so the row that matches is the one `Resolve` finds
  (`ResolveFinds`), and each endpoint of the four routers has such a row
  (`EndpointHasRow`).

Only model-checked is liveness (`EnqueuedIsSettled`, `QuietIsForgotten`,
`SummaryAnswers`): fairness and ENABLED are outside the prover's reach. The four
violations are TLC's counterexamples; `ReuseIsCaused`, `OnlyOverlapLosesPuts` and
`OnlyNaNGetsThrough` say how far three of them go.

## 5. Not modelled

Payloads, money arithmetic and currencies; HTTP envelopes and most status codes;
signatures and password hashing beyond whether they match; the health, logging,
configuration and OpenAPI code; pages of the front end; deployment files. Request ids, logging and
panic recovery keep no state. A report's range is fixed: that `from` and `to` are
sent to expense-service in whole seconds is left out, and so are the access token's
contents beyond its owner and validity. The
JetStream server and MongoDB are modelled only as far as the code relies on
them: single-document operations are atomic, an `UpdateMany` goes document by
document, and a call that fails may or may not have taken effect where the code
cannot tell and a property depends on it.

`Subscribe` returns when the stream or the consumer cannot be had or `Consume` fails
(`eventbus.go` 137, 152, 163); `main` logs this, and the service goes on without
its subscription until it is restarted. `EnqueuedIsSettled` assumes that the
subscription is there after a restart; the safety properties do not depend on it.
A client of the rate limiter is whatever gin's `ClientIP` says, which depends on
X-Forwarded-For: that one sender may count as several clients is not modelled. A
body over the limit (`Cut`) is refused whatever its beginning decodes to; gin's
decoding stops at the end of the first JSON value and may not read so far.

## 6. Plan

1. Done: the event path with its promise, its proofs and notification-service
   at its end; authentication, profile and settings, and the browser in front of
   them; overspend detection, goals and reports; expense-service with the CSV
   import; the gateway with its rate limiter, proved to be a bucket per client.
2. Done: every safety property that a run checks proved for all values of the
   constants, and the extent of three findings.
3. Left: Overspend's outbox composed with Notifications in one module, to count how
   many notifications one overspent period can become in the end. The three factors
   are proved apart: what the detector enqueues (`DuplicatesAccounted`), the copies of
   an event on the stream (`OneCopyPerWindow`) and the notifications of one message
   (`NotesWithinDeliveries`).
