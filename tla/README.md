# Drop Watch in TLA+

Drop Watch watches product pages of web shops. Users add products, each with
one or more listings (a listing is one shop's page); a worker checks every
listing on its schedule, records the price, and alerts the owner. The parts are
processes that share a PostgreSQL database: a **web** application with an API,
a **worker**, and a **renderer** sidecar that drives a headless browser. Jobs
go through pg-boss, which keeps its queues in the same database.

The modules here are translated from the source, handler by handler. This file
says what the system's parts are, which module models which, what TLC checks on
small instances, what TLAPS proves for all of them, and what is left.

## 1. The system

### Components

| Component | Code | State | Operations | Modules |
|---|---|---|---|---|
| Check pipeline | `apps/worker/src/check-listing.ts`, `check-persistence.ts`, `outcome.ts` | the process's `inFlight` set; rows of `products`, `listings`, `price_points`, `check_runs` | load a snapshot, fetch, persist behind a claim on `updatedAt`, alert | `PriceLedger`, `CheckPipeline` |
| Check queues, dispatcher | `packages/db/src/queue.ts`, `apps/worker/src/enqueue-due-checks.ts`, `index.ts` | pg-boss jobs of two queues | send, fetch a batch, complete, fail, expire, retry, supervise; a minutely dispatcher | `CheckPipeline` |
| Product and listing requests | `packages/api/src/routers/products.ts`, `listings.ts` | the same rows | create, add, update, remove, check now | `CheckPipeline` |
| Alerting | `apps/worker/src/alerting.ts`, `packages/core/src/rules` | `alert_state`, `listings.broken_reported_at` | evaluate the three rules, send, remember; count failures, alarm, flag, clear | `AlertRules`, `Alerting` |
| Settings | `packages/db/src/settings.ts`, `recipients.ts`, `routers/settings.ts` | one row; an account's preference | seed on first read, save, read | `Delivery`, `Alerting` |
| Notifications | `packages/core/src/notify`, `packages/email` | none | choose channels, send on all at once | `Delivery` |
| Sign-up, invitations | `packages/auth`, `packages/db/src/invites.ts`, `signup.ts`, `seed.ts` | `user`, `account`, `invitation` rows | bootstrap sign-up, invite, accept, revoke, seed | `Signup` |
| Browser of the renderer | `apps/renderer/src/browser-generation.ts`, `render.ts` | the active generation, the set of generations not yet torn down | acquire, retire, close with deadlines | `SharedBrowser`, `Renderer` |
| Renderer service | `apps/renderer/src/index.ts` | a bounded queue, the shutdown flag | render, health, shut down | `Renderer` |
| Network guard | `packages/core/src/net`, `apps/renderer/src/guarded-socks-proxy.ts` | the sockets of one render | judge an address, look a name up, proxy a connection, abort | `Routable`, `SocksProxy` |
| Fetch layer | `packages/core/src/fetch`, `render` | one queue per domain | fetch with retries, render; one request per domain | `FetchQueue` |
| Preview, server | `packages/api/src/preview.ts`, `routers/preview.ts` | a bounded cache of bodies | load over one or two transports, choose, keep, answer questions | `PreviewPage` |
| Preview, client | `apps/web/src/components/products/use-preview-flow.ts` and its forms | the state of one form | load, type, pick, pin, test, save, apply | `PreviewFlow` |
| Extraction | `packages/core/src/extract` | none | read the price off a page, judge it, test and suggest expressions | `PriceText`, `JsonLd`, `JsonPaths`, `Markup`, `Ranking`, `Suggestions`, `Extraction` |
| Product summary, purge, the web client's rendering | see `PROJECT.json` | | | not modelled |

### How they interact

* **web -> worker** only through rows and jobs. A request may run at any point
  of a check: between its snapshot and its claim, or between its claim and its
  alerts. The claim (`UPDATE ... WHERE updated_at = <loaded>`) is what
  protects a listing's row; nothing protects the product's row.
* **pg-boss -> worker**: a batch of at most five jobs is handed to
  `checkHandler`, one batch per queue at a time. The two queues (scheduled and
  manual) run side by side in one process. A batch that takes longer than its
  expiry is retried while its first handler is still running.
* **worker -> stores**: a page changes whenever it likes; a store may answer a
  conditional request 304, ignore it, or fail.
* **worker -> renderer**: listings of some extractors are fetched through it,
  by `POST /render`. Renders run on a few slots and share one Chromium; a render
  that has trouble with it retires it for all.
* **worker, web and settings**: whoever reads the settings row first creates it;
  an admin may save it, and a user change a preference, between any two steps of
  a check's alerting.
* **web and worker -> network**: every fetch and every connection of a render asks
  the same guard; every fetch and every render to one host wait for the same queue.
* **form -> web**: the preview form asks the server for pages, tests and
  suggestions; answers come in any order, and the server may have forgotten the
  page they are about.
* **checks of two listings of one product** share `alert_state`, the product's
  title, its currency and the cheapest price.

### What is hard here, and what makes each component correct

*Check pipeline.* Settings, currency and validators are read, up to a minute of
network follows, and then they are written over. Correct when a check is
recorded only under the settings the listing still has, a stored validator
always stands for a body whose price was recorded, a 304 really means "nothing
new", and a due listing stays due until it was checked.

*Queues.* Two queues, expiry without cancellation, retries, dead workers.
Correct when no listing is ever checked twice at once, no job stays active for
ever, and every due listing is checked in the end.

*Requests.* `update` and `remove` each read before they write, outside a
transaction. Correct when a product keeps a listing and a user's own title
wins over a page's.

*Alerting.* Ten awaits, two handlers, a memory written only after a delivery.
Correct when an alert is news, an outage is told once and told eventually, and
a recovery is noticed even with alerting off.

*Renderer.* A promise that lost against its deadline still settles, and one
render's trouble is every render's. Correct when no browser is lost sight of or
lent once retired, slots always come free, a shutdown in time leaves no browser
behind, and the renderer's own faults are not put down to the store.

*Settings.* A read, an insert and a read, in two processes. Correct when nothing
an admin saved is undone by a seed.

*Sign-up.* No transaction: a link is looked up twice and burned once the account
exists. Correct when no link is spent without an account, no address is trusted
that nobody vouched for, sign-up never closes on an install that nobody can
administer, and there is one bootstrap account (there may be two: see `bootstrap`).

*Fetch layer.* Queues are made on demand and deleted when idle. Correct when one
domain never sees two requests at once, and everybody gets a turn.

*Preview.* Correct when the strongest of two observations is shown, the page being
worked on stays cached, and the form neither shows nor saves an answer to another
question than the one on screen.

*Extraction.* Pages leave things out and list many variants. Correct when a price
is read as it is written, accepted without asking only if it is the price the page
shows, does not depend on the order of the data, and a suggested expression
reads the price it was suggested for.

*Network guard.* Correct when only public addresses are dialled, whatever a name
resolves to, and a render leaves no socket behind.

`PROJECT.json` lists each hazard at its line with the properties that cover it.

## 2. Modules

| Module | What it is |
|---|---|
| `PriceLedger` | the abstract specification of one tracked page: configure, observe in one step, forget |
| `CheckPipeline` | the detailed specification: queues, handlers, requests, crashes; implements `PriceLedger` |
| `CheckPipelineProofs`, `RendererProofs`, `AlertingProofs`, `SignupProofs`, `FetchQueueProofs`, `SocksProxyProofs`, `PreviewPageProofs`, `PreviewFlowProofs` | theorems about the module each is named after, checked by TLAPS (`SocksProxyProofs` also about `Routable`, `PreviewPageProofs` also about `Ranking`) |
| `MCCheckPipeline` | constants for TLC |
| `AlertRules` | the pure rules: what holds, what is news, when a listing is broken, which row is cheapest |
| `Delivery` | the settings row, the owner's account, the channels the two leave, and when a send has landed |
| `Alerting` | `runAlerting`, one step per await, beside edits, settings requests, crashes and cooldowns |
| `SharedBrowser` | the abstract specification of the renderer's browsers: one current, lent only while it is, condemned for good |
| `Renderer` | the detailed specification: queue, renders, launches, closes, shutdown; implements `SharedBrowser` |
| `Signup` | accounts and invitations, one step per statement |
| `FetchQueue` | the per-domain queues with eviction, retries and renders |
| `PreviewPage` | the server half of the preview: transports, choice, cache |
| `PreviewFlow` | the client half: the form's handlers, timers, effects and answers |
| `PriceText` | how a text becomes an amount and a currency |
| `JsonLd` | which schema.org offer a page is about, and how sure that is |
| `JsonPaths` | JSON paths: written, parsed, resolved, validated, found |
| `Markup` | elements, selectors and the prices in them |
| `Ranking` | how draft expressions are scored, and which are run |
| `Suggestions` | from a price the user reads to the expressions that read it |
| `Extraction` | the chain of strategies, the ambiguity gate and the questions asked of the engine |
| `Routable` | which addresses the application talks to |
| `SocksProxy` | the renderer's socket proxy, from greeting to bridge |
| `MCCheckPipeline`, `MCAlerting`, `MCSignup`, `MCFetchQueue`, `MCPreviewPage`, `MCPreviewFlow`, `MCExtraction`, `MCSocksProxy` | constants for TLC |

`Alerting` extends `Delivery`, which extends `AlertRules`; `SocksProxy` extends
`Routable`; `Extraction` extends `Suggestions` (over `Ranking` and `Markup`) and
instantiates `PriceText`, `JsonLd` and `JsonPaths`. Only `JsonPaths` declares
RECURSIVE operators.

### CheckPipeline and the code

State. `product`, `listing` and `latest` are rows; the columns no property
tells apart are left out (url, timestamps, statistics), `etag` and
`last_modified` are one validator, and the extraction settings (extractor,
expression, locale, render) are one value of `Settings`. `job` is the live
pg-boss job of each listing in each queue (`singletonKey` with policy
`exclusive` admits one), `tick` the dispatcher's list of listings it has read
and not yet sent. `pc`, `cur`, `snap`, `resp`, `todo`, `batch` are the locals of
a handler invocation; `inFlight` is the worker's set; `api` is a request
between its read and its write.

Time. `due` says that `next_check_at` has passed. `updated_at` is only ever
compared with the value a check loaded, so the model keeps that comparison:
`moved` is the set of handlers whose row was written since they loaded it.

Actions. One per step between two awaits: `BeginCheck` / `SkipInFlight`
(the `inFlight` test), `LoadCheckable` / `NothingToCheck`, `RetrievePage`,
`PersistClaimed` / `PersistStale` / `PersistOrphaned` (a deleted row makes the
run's insert violate its foreign key, the error fails the batch),
`RunAlerting`, `CompleteBatch`; `EnqueueDueChecks`, `SendDueCheck`, `FetchBatch`,
`Expire`, `Reclaim`; `Crash`, `DatabaseFault`; `CreateProduct`, `AddListing`,
`BeginUpdate` / `FinishUpdate`, `UpdateProduct`, `BeginRemove` / `FinishRemove`,
`RemoveProduct`, `CheckNow`; and the world: `PageChanges`, `NextCheckPasses`.
`PersistClaimed` is the whole transaction: claim, reschedule, validators,
backfills of currency and title, price point and run. pg-boss is not under
`src/`; its four operations are modelled from `queue.ts`'s options and marked
external in the map.

### Alerting, Delivery and the code

`points` holds the newest two price points of a listing (what `recentSamples`
reads), `newestIn` the newest per currency (what the `DISTINCT ON` query
reads), `runs` as many of the newest check runs as the failure query reads, and
`memory` the rows of `alert_state` with the clock reduced to `cooling`. The
actions follow `runAlerting`: `ReadSettings` (and `SeedSettings`, when the row is
not there yet), `OpenAlerting` / `AlertingOff` after the owner's account was read,
`ReadSamples`, `EvaluateRules`, `SendAlert`, `RememberAlert`, then the failure half
`Recover` / `CountFailures`, `SendAlarm`, `MarkBroken`; `AlertingFails` is the
`catch` that swallows any of them. The check before it is two steps,
`LoadCheckable` and one of `RecordPrice`, `RecordUnchanged`, `RecordFailure`,
`RecordStale`, because `CheckPipeline` already says when those happen.

`settings` is the singleton row: the master switch, the failure threshold and the
set of columns that are not null. `RequestSettings`, `SeedForRequest` and
`SaveSettings` are the admin's request, which loads the row (and so may seed it)
before it writes; the handlers seed it in the same way. `UpdateEmailPrefs` writes
the owner's account. `Delivery` says which channels the two leave (`Offered`,
`Allowed`) and that one channel answered below 400 makes an alert delivered.

### Renderer and the code

`launch`, `process`, `closing` and `retired` are the fields of a generation and
what becomes of its Chromium; `generations`, `active` and `closed` are the
manager's; `waiting` is p-queue's backlog, and a request's `pc` says which await
of `renderPage` it is in. Generations are named after the render whose
`acquire` started them, for it starts at most one, and renders are numbered as
they come in.

`withDeadline` races a promise against a timer and forgets the loser. So an
await is an action for each of its ends (`Launched` / `LaunchGivenUp`,
`PreparePage` / `SetupFails`, `ContextCloses` / `ContextHangs`), and the promise
itself settles in an action of its own (`LaunchResolves` / `LaunchRejects`,
`CloseMisses`, `CloseSettles`), before, after, or with nobody looking.
`Launched` is the second half of `acquire`, which looks at the generation again
after the await. The shutdown is `Signal`, `CloseManager`, `LaunchesSettle`,
`ClosesSettle`, and `BudgetSpent` when its absolute deadline comes first. How a
page is navigated is one step, with the two results the properties tell apart: a
page, or a failure of the target.

### Signup and the code

`users` are the accounts by address (unique in the database), `invitation` the rows
by token, `request` what each browser's sign-up has come to, `creating` the calls
of `invites.create`, `seed` the seed script. A sign-up is `Post`, the guard's two
queries (`GuardAsksOpen`, `GuardAsksInvite`), the `before` hook's (`BeforeAsksOpen`,
`BeforeAsksInvite`), Better Auth's `InsertUser` and the `after` hook's `BurnInvite`;
an invitation is `BeginInvite`, `CheckRegistered`, `ClearPending`, `InsertInvite`.
Addresses are typed in spellings and stored lowered where the code lowers them.
`proven` is a history variable: the addresses an admin invited and that used the
link, that opened a mailed link, or that an operator verified.

### FetchQueue and the code

`queues` is the module's map, `waiting` and `running` a PQueue's backlog and its
one pending task. `Enter` is `withDomainQueue` up to the `add`, `Fetched`, `Wake`
and `Rendered` the attempts of `fetchWithRetries` and of `renderPage`, `Settle` the
moment the function's promise settles and PQueue starts the next one, and `Leave`
the `finally` in which the queue is evicted. Between `Settle` and `Leave` anything
may run.

### PreviewPage, PreviewFlow and the code

`PreviewPage`: `Page`, `FirstAttempt`, `SecondAttempt` and `Finish` are
`orchestratePreview` and what `preview.page` does with its outcome; `BrowserShouldWin`,
`MateriallyChanges` and `WithHttpFallbackCurrency` are the functions of those
names. `cache` gives every id kept the age of its page and the keys a `Map` would
iterate after it; a `set` after a `delete` (`Inserted`) makes a key the last, which
is what `Ask`, a later question, does with its page. `used` is a history variable:
for each id, the ids used since it was.

`PreviewFlow`: `flow` is the hook's state, `requests` the calls in flight, each with
the `generation` it was made in, `tested` and `found` the answers React Query holds,
by key. What the hook computes while rendering are operators (`Chosen`,
`ExpressionExtraction`, `IsLocating`, `RepairPending`), its effects run with the
event that caused the render (`Rendered`, `Located`), and its two debounces are
`SettleExpression` and `SettlePrice`. `taken` remembers what was last saved or
applied, beside what the form held at that moment.

### The extraction modules and the code

The engine is pure, so a behaviour of `Extraction` is one call of it: a question
(read this text, extract this page, suggest expressions for this price, spend the
budget on these drafts) and its answer. `PriceText` keeps numerals digit by digit,
because which separator counts is what it decides; all other modules take a text
for what `parsePrice` makes of it. `JsonLd` takes a page's nodes and offers in
document order, with identifiers, URLs and variant properties as members of small
sets; `JsonPaths` writes keys and paths as sequences of words and marks; `Markup`
has elements with a tag, names and prices. `Ranking` scores drafts with the code's
penalties, sorts them, and goes through them once to spend the budget of runs
(`TakenOf`: what is taken of the first `i`). HTML parsing, the CSS engine and the ceilings on sizes are given.

### Routable, SocksProxy and the code

`Routable` reads an IPv6 text into its eight groups, finds the most specific entry
of the registries, and looks through mapped and translated addresses, as
`address.ts` does; `SocksProxy` has a state for every wait of a connection's handler
(`greeting`, `request`, `connecting`, `bridged`) and one for each of its two
sockets. `RenderEnds` is the `finally` of `renderPage`, which aborts the proxy at any
moment; `HandshakeStops` and `UpstreamFails` include the timers.

## 3. What TLC checks

Passing runs:

| Run | Instance | Shows |
|---|---|---|
| `edits` | 1 listing, 2 settings, 2 pages, 1 handler, 1 request at a time, 2 edits | `RecordedUnderCurrentSettings`, `ValidatorEarned`, `NotModifiedMeansUnchanged`, `DueUntilRecorded`, `ImplementsLedger` |
| `batches` | 2 listings in batches of 2, 1 request at a time, removals | `DueIsChecked` |
| `live` | 1 listing, 2 handlers, 1 retry, a fault, a pause | `OneCheckPerListing`, `DueIsChecked`, `JobsSettle` |
| `outage` | 1 listing, threshold 2, a rule that can find a new low or two edges at once, 304s, an install without a settings row, 2 edits, a fault | `AlertIsNews`, `OneAlarmPerOutage`, `RecoveryClears`, `BrokenIsTold`, `SavedSettingsKept` |
| `pool` | 3 renders on 2 slots, 1 place in the queue, any number of dying browsers | `NoStrayBrowser`, `CleanExit`, `AdmittedIsAnswered`, `RetiredIsGone`, `ImplementsSharedBrowser` |
| `invites` | 2 browsers, 1 desk, 3 addresses in several spellings, 2 links, the seed script, a crash | `BurnedMeansRegistered`, `VerifiedMeansProven`, `ClosedMeansAdmin` |
| `page` | 3 ids, 2 places in the cache, pages that differ in price, confidence, currency and stock | `StrongestShown`, `EvictedInOrderOfUse` |
| `flow` | 2 URLs, locales, bodies and expressions, 5 actions of the reader | `ShownIsAsked`, `VerifiedOnly`, `PinReadsTyped`, `AnswersInTheEnd` |
| `fetch` | 3 tasks, 2 hosts and a URL that will not parse, 1 retry | `OnePerDomain`, `TurnComes` |
| `extract` | numerals in three locales; pages of one or two of three variants; pages of two priced elements and up to three scripts; up to 8 drafts for a budget of 5 | `ReadsBack`, `AcceptedIsShown`, `RecordedInAnyOrder`, `SuggestedReadsIt`, `FoundIsOffered`, `RiskLast`, `BudgetIsShared` |
| `socks` | 2 connections of which 1 is served at a time, 16 address literals at the edges of the registries, 2 names, mixed answers | `OnlyPublicPeers`, `NothingAfterAbort`, `HandlersFinish` |

Each property is also checked against a mutant of a mapped definition: an operator
that stands before that definition and changes it the way a plausible slip would.
With the mutant in its place TLC finds the property violated. The modules' type
invariants hold in the same instances.

**Why these bounds.** A check interferes with an edit through one row, so one
listing is enough for `edits`; two settings and two pages are needed so that
one page is read by one of them only (`ReadableMC`), and two edits so that
settings can be changed away and back, or changed while a validator comes in.
`batches` needs two listings because the failure of one fails the other's job
too. `live` has one handler for each queue, or one that outlived its expired
jobs and one that was given the retry. `NothingReadable` in the liveness runs
makes every check a failed one, the hardest case for a schedule; they ask
nothing about what is recorded, and the safety they check beside is proved for
every instance (section 4). In `outage` a threshold of two is the least for which a streak
can be interrupted; one listing, because with two and two handlers
`AlertIsNews` does not hold (see below), and one handler, because `inFlight` lets
only one check of a listing run (`ChecksExclude`). The two edits are enough for a
request that seeds the row beside the worker, and for alerting switched off and on
again during an outage. `pool` has two renders that share
a browser and a third that waits for a slot; a browser can be given up by one,
retired by another and replaced by the third. The refusal at capacity does not
occur in it (a fourth render would be needed), only the one at shutdown; the
limit itself is a guard of `Admit`. In `invites` two browsers can use one link or
two, one link can be replaced by another, and the seed script runs beside both.
In `page` the third page finds the cache full. In `flow` five actions are enough to
load, type a price, change it, load again and save. In `fetch` three tasks are
needed for one that leaves a queue while another runs in it and a third comes. In
`extract` two of three variants are listed, because trust is lost between one and
another; nothing compares three. In `socks` the second connection is turned away
while the first is served.

Deadlock is checked in `edits`, `page`, `fetch`, `invites` and `bootstrap`. The other runs turn
it off, because the system may rightly have nothing left to do: every listing is
paused and the edits are used up, the reader's actions are, the question is
answered, the process exited.

Properties of the form "P leads to not P" are written `[]<>~P`, which is the
same and cheaper to check.

**Fairness.** Weak fairness of the dispatcher and its sends (a cron of one
minute), of every handler's steps (each await is bounded by a timeout), and of
supervision. Strong fairness of `FetchFor(q, l)`: the poller is busy while a
batch runs, so the step is not continuously enabled, but jobs are served in
order of creation, so a queued one is not passed over for ever. In `Alerting`,
strong fairness of loading a listing stands for `DueIsChecked`, and that of
`AlarmLands` says that a channel tried again and again for a listing
lands once. In `Renderer` every await of a render has a deadline, so has a
launch, a close and a kill, and the shutdown has one over all: each is weakly
fair. A graceful close by itself is not; only its deadline is sure. In `FetchQueue` an attempt has a deadline and a
back-off ends; in `PreviewFlow` the debounces fire and every call is answered, for
good or ill, since all of them have deadlines; in `SocksProxy` every read and every
dial runs against a timer. `Signup`, `PreviewPage` and `Extraction` state no fairness.
Nothing is assumed of users, stores, edits or faults.

### Where code and documentation disagree

One run checks a sentence of the repository and fails: `bootstrap`. "Signup is open
for exactly one bootstrap account, then invite-only" (`auth/src/index.ts`), but the
hook counts accounts and the insert follows: two first sign-ups both find none and
both become a verified admin.

The others met while modelling have no run of their own; the runs above are stated,
or bounded, so that they stay apart from them, and this is how each comes about.

| Sentence | What happens |
|---|---|
| "the user's own title [...] edits outrank whatever a page says this week" (`check-listing.ts`) | a title typed while the first check fetches is overwritten by `buildWrite`'s backfill, which goes by the product row loaded before; the claim covers the listing's row, not the product's |
| a 304 "is a healthy check with nothing new to record" (`outcome.ts`) | an accepted page without a validator leaves the older page's in place (`validatorUpdate`); when the store returns to that page, its 304 hides a price change. In `edits` every page carries one |
| removing a product's last listing is refused (`listings.ts`) | `remove` counts siblings and deletes in two statements: two concurrent removals leave none |
| "a target alert about store A does not let store B re-notify a minute later at the same price" (`rules/index.ts`) | the two queues' handlers, checking two listings of a product, both read `alert_state` before either writes it. `outage` has one listing |
| an unreachable webhook "is retried on the next check" (`alerting.ts`) | not when that check is a 304, which writes no price point; an undelivered restock or drop is not retried on a 200 either |
| card and rule "must always agree on 'the' price" (`decimal.ts`) | after a store flips currency, `latestSampleByListing` filters by currency first and still counts its last price in the old one; `summarise` picks the newest first and drops it |
| "the retailer is broken" and "my renderer is broken" must not collapse into one row (`render/contract.ts`) | a render whose set-up fails retires the browser under a neighbour, whose navigation error is answered as its store's |
| each mode "keeps a floor it cannot be pushed below while it still has drafts to offer" (`suggest.ts`) | `budgeted` holds back `min(unseen, RESERVED_VALIDATIONS)`, and a mode's own drafts leave `unseen` as they are taken: of twelve selectors, six before and six after thirty-four JSON drafts, the last six are not run. `BudgetIsShared` states what does hold: every mode with drafts gets one run |

## 4. What is proved

By TLAPS, for every value of the constants: any number of listings, handlers,
renders, browsers, clients, hosts, forms, retries, edits and faults. A module's
theorems use the assumptions its `ASSUME`s name and no others, except where a
hypothesis is stated.

| Module | Theorem | Statement |
|---|---|---|
| `CheckPipelineProofs` | `TypeCorrect` | `Spec => []TypeOK` |
| | `ChecksExclude` | `Spec => []OneCheckPerListing` |
| | `RecordsFresh` | `Spec => RecordedUnderCurrentSettings` |
| | `DueIsKept` | `Spec => DueUntilRecorded` |
| | `ValidatorsEarned` | `OneEditor /\ Spec => []ValidatorEarned` |
| | `NothingHides` | `OneEditor /\ PricesAreTagged /\ Spec => []NotModifiedMeansUnchanged` |
| | `PipelineImplementsLedger` | `OneEditor /\ Spec => ImplementsLedger` |
| `RendererProofs` | `RendererTypes` | `Spec => []TypeOK` |
| | `NoBrowserStrays` | `Spec => []NoStrayBrowser` |
| | `ExitIsClean` | `Spec => []CleanExit` |
| | `RendererImplementsPool` | `Spec => ImplementsSharedBrowser` |
| `AlertingProofs` | `AlertingTypes` | `Spec => []TypeOK` |
| | `OneAlarm` | `Spec => OneAlarmPerOutage` |
| | `RecoveryIsCleared` | `Spec => RecoveryClears` |
| | `SettingsOutliveSeeds` | `Spec => SavedSettingsKept` |
| | `AlertsAreNews` | `Spec => AlertIsNews`, assuming `OneCheck` |
| `SignupProofs` | `SignupTypes` | `Spec => []TypeOK` |
| | `LinksBurnOnAccounts` | `Spec => []BurnedMeansRegistered` |
| | `NobodyVerifiesAnother` | `Spec => []VerifiedMeansProven` |
| | `ClosesWithAnAdmin` | `Spec => []ClosedMeansAdmin` |
| `FetchQueueProofs` | `QueueTypes` | `Spec => []TypeOK` |
| | `DomainsAreSpared` | `Spec => []OnePerDomain` |
| | `MapStaysSmall` | `Spec => []QueuesAreUsed` |
| `SocksProxyProofs` | `ProxyTypes` | `Spec => []TypeOK` |
| | `Ipv4ByRange` | the IPv4 registry refuses exactly `SpecialIpv4` |
| | `Ipv6ByRange` | the IPv6 policy lets through exactly `GlobalIpv6` |
| | `AddressesByRange` | `IsGloballyRoutable(a) <=> Global(a)`, for every address text |
| | `PeersArePublic` | `Spec => []OnlyPublicPeers`, assuming `Judged` |
| | `PeersOutsideRanges` | `Spec => []OnlyPublicPeers`, assuming `Known` |
| | `AbortLeavesNothing` | `Spec => []NothingAfterAbort` |
| `PreviewPageProofs` | `PageTypes` | `Spec => []TypeOK` |
| | `StrongestIsShown` | `Spec => []StrongestShown` |
| | `LeastUsedGoes` | `Spec => EvictedInOrderOfUse` |
| | `RisksRankLast` | sorted by total, candidates come band by band (`RiskLast` of any list) |
| | `BudgetReachesBothModes` | what `BudgetIsShared` says, of any list and budget |
| `PreviewFlowProofs` | `FlowTypes` | `Spec => []TypeOK` |
| | `OnlyWhatWasAsked` | `Spec => []ShownIsAsked` |
| | `OnlyWhatWasRead` | `Spec => []VerifiedOnly` |
| | `PinsReadTheField` | `Spec => []PinReadsTyped` |

### The arguments

**CheckPipeline.** `OneCheckPerListing` follows from `InFlightHeld`: a listing that
some handler holds is in `inFlight`; entries are deleted only by the handler
that holds them, or all at once by a crash. `RecordedUnderCurrentSettings`
needs `SnapshotFresh`: the snapshot of a handler outside `moved` equals its row,
which is preserved because every action that writes a row puts the handlers
that loaded it into `moved`. `DueUntilRecorded` follows from the same invariant:
of the actions that write a row, only a claim and an update can leave a live one
that is no longer due. `ValidatorEarned` adds `ResponseFresh` (a 304
answers the validator in the snapshot, so storing it changes nothing) and, for
updates, `RequestFresh`: the request saw the settings the row still has.
`NotModifiedMeansUnchanged` adds `ValidatorPaid`: a stored validator is that of
the page the newest price was read off, and the row's settings do not render.
The refinement adds `NothingLeft` (an absent row has no price and no validator) and
maps each step: a claim to `Observe` or a stutter, an update to `Reconfigure` or a
stutter, an insert to `Track`, a deletion to `Untrack`, all others to stutters.

**Renderer.** `CleanExit` speaks of the last step of a shutdown, so the invariant
speaks of the bookkeeping all along. `LaunchOrder`: a generation belongs to the request
that started it and goes through its launch states in order. `SetIsExact`: the
manager's set holds exactly what is launching, and what is up and not torn down.
`ClosedUnlessCurrent`: what is up is being closed, or was, exactly if it is not the
current one; what is neither failed nor current is retired. `ShutdownCovers`: each
stage of the shutdown waits for all that is left. A launch that
resolves after everybody has given it up is why none of the four holds without the
others. The refinement maps a generation to a stage of its life and a render to the
browser it has been lent.

**Alerting.** `Exclusive` (one handler has a listing) keeps the flag and the
runs a handler has seen true until it is done: `FlagKnown`, `RunsKnown`. They make
the step that alarms or flags correct although it comes several awaits after the
streak was counted. `SavedSettingsKept` holds step by step. `AlertIsNews` adds
`StillNews`: every trigger a handler has not sent yet is still news, also after its
earlier ones were remembered, because no two triggers are of one rule.

**Signup.** The guard of a sign-up compares the address with the invitation; the hooks
after it look at the token alone, several statements later, and the row may have been
revoked, replaced or burned by then. What carries the match over is that a token is
drawn once, so the row of the link is still that address's if it is there at all
(`LinkMatches`), that a row names an address somebody vouched for (`Vouched`), and
that while sign-up is open no link is out and no request has got past what needs one
(`Claimed`). `BornProven` says what an account about to be inserted rests on;
`CallKnown` and `SeedKnown` do so for the two other writers. Accounts are never
deleted and vouching is never undone, so these survive the other actors' steps.

**FetchQueue.** A queue may leave the map while tasks it ran still leave it, so a
task and the map can disagree about the queue of a host. What holds is that they agree
for every task still to run (`Mapped`): a queue is evicted only when it runs nothing
and nobody waits in it (`Placed`: a line holds each task that waits for its queue,
once), and a new one is nobody's (`Own`, `Used`). Two requests of one domain would
then hold one queue, which runs one task (`Held`). `Known` and `Retries` are what the
types do not say. That a fresh queue can always be made is proved by counting: there
are no more tasks than queues (`FetchAssumption`; the code makes objects at will).

**SocksProxy.** A socket's address is judged before the socket is opened, and neither
it nor the host it was asked for changes afterwards: only a handler that has no upstream
yet writes them (`Dialled`). A lookup is let through if none of its answers is private,
which is the absence of a first one that is. `NothingAfterAbort` needs nothing more.

The registries are masks and bases in the code, ranges in the standards. Each entry is
shown to match one range (`InBlocks`), a `2^k` at a time. Of the blocks an IPv6 address
is in, the longest decides: an unreachable one is longer than 2000::/3 that contains it
(`UnreachableWins`), and a reachable assignment is longer than the block it is carved
out of (`AssignedWins`). `ParsedGroups` shows that whatever can be read of a text is
eight numbers of 16 bits, wherever its `::` and its dotted quad are, so
`AddressesByRange` covers every spelling.

**PreviewPage.** `Waits` says that the attempt kept across the second transport's
await is the one HTTP brought; the rest is a comparison of kinds and confidences.

For the cache, `InOrder` relates the order of insertion to the order of use: the keys
after a key are those used since, of the ids still kept (`Follows`), and use is a strict
total order (`Recency`). A store adds one entry to at most `MaxEntries`, so at most one
is too many (`OneTooMany`): if some page goes, it has all the others after it. That
there is a page with all others after it is a well-founded argument (`LeastUsed`).

**Ranking.** `RisksRankLast` has two halves. The flags of a candidate without risks add
up to less than 4400 with tier and length, to less than 5000 with a bare number; one
that cannot run has 5000 to 9400; one with a risk at least 10100 (`Scores`,
`BandsApart`). This is so while `expression.length / 10` stays below 1500; what can be
saved stays below 51. A stable sort then puts them in that order: no two elements have
equally many before them, so there is one for every place (`EveryRank`).

`BudgetReachesBothModes` is an induction over the drafts (`SharedAlong`). `Filling`: a
mode is passed over only when it has spent all that is not reserved, and then what is
left of the other mode fills the budget; the two modes cannot both be passed over,
because twice the reserve fits in the budget (`BudgetAssumption`; 12 and 40 in the
code). `Waiting`: a mode that has had no turn has lost none of its drafts, and there is
still room. The library's induction takes an operator; `AllNumbers` is induction of a
*set* of numbers, which the provers can use.

**PreviewFlow.** Only its generation tells a late answer from a current one. So no two
requests share one and a page is made once (`Once`), and whatever changes the URL, the
locale or the panel draws a new one: a request that is still current asked for what is
in the form (`CurrentAsked`). What was taken is judged by a page that never changes
again (`TakenKept`). An expression the locator owns reads the price that last settled
(`Pinned`), and nothing is offered while another has still to settle.

### Hypotheses

`OneEditor` says that update and removal requests are not concurrent.
`listings.update` compares the new settings with a row it read earlier, so of two
concurrent updates the second can restore the old settings without dropping a
validator earned in between. `PricesAreTagged` says that every page an HTTP fetch
accepts a price from carries a validator; without it the disagreement about 304s in
section 3 comes about. `OneCheck` says that a product has one listing, or that one
handler is at work; with neither, both queues' handlers read the dedupe memory before
either writes it. The theorems claim nothing without these, and the sentences of the
repository that do are in section 3. `Judged` says that the registries classify the
addresses in `Private` and `Public` as those; `AddressesByRange` proves it of any two
sets of addresses inside and outside the special ranges, which is all `Known` says.
`Global`, the ranges written as numbers, is what a reader compares with the standards.
Every hypothesis holds in the run that checks the property.

### Only model-checked

* Liveness (`DueIsChecked`, `JobsSettle`, `BrokenIsTold`, `AdmittedIsAnswered`,
  `RetiredIsGone`, `TurnComes`, `HandlersFinish`, `AnswersInTheEnd`): fairness is out
  of the prover's reach.
* The invariants of `Extraction`, which speak of whole results: `JsonPaths`, which
  every suggestion reaches, parses and walks with RECURSIVE operators, and `PriceText`
  and `JsonLd` read numerals and offers in folds. `RiskLast` and `BudgetIsShared` rest
  on `Ranking` alone, and there what they say is proved of every list; that the drafts of
  a page are such lists (tiers 0 to 2, flags of `Flags`) is checked by the run.

## 5. Not modelled

* The clock itself: intervals, jitter and the length of a cooldown. Their only
  effects here are flags (`due`, `cooling`, `expired`) and ages counted in ticks.
  Two writes of a row within one millisecond are told apart by the model and not
  by the code.
* Ownership and validation of requests, and the read-only procedures, which
  change no state: among them the product summary.
* Image, product currency (it is in `Alerting`) and statistics of a product in
  `CheckPipeline`.
* Parsing of HTML and the CSS engine, the wording of messages, booting, cron
  registration, and the rendering of the web client.
* The purge of old runs: a bounded delete of rows older than 30 days, of which
  only newer ones are ever counted.
* Better Auth's sessions and passwords, pg-boss's storage, PQueue, React Query and
  Chromium, except for what the code uses of them (external in the map).
* Two workers: `inFlight` is one process's, and the deployment runs one.

## 6. Plan

The components with state are modelled, and every safety property of theirs is proved.
What is left:

1. The parsers and walkers of `JsonPaths` as recursive functions instead of RECURSIVE
   operators, so that `SuggestedReadsIt` could be proved with `AllNumbers`.
2. `AcceptedIsShown` for every truthful page, which needs a definition of truthful that
   does not list storefronts.
3. A refinement of `Alerting` by an abstract outage: told at most once, cleared once.
