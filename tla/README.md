# Verification of the Envlink API

Envlink is a URL shortener with paid plans: a NestJS service over Postgres (TypeORM, READ COMMITTED), Redis
(cache and rate limits), BullMQ (background jobs) and the payment provider Xendit (recurring plans, webhooks).
This directory holds TLA+ modules of its stateful parts, TLC runs on small instances and theorems that TLAPS
checks for instances of any size.

## Components

| Component | State it keeps | Operations | Hard behaviour | What makes it correct |
|---|---|---|---|---|
| Subscription lifecycle (`subscriptions/`, `user/`, `account/`) | `subscriptions` rows, `users.activeSubscription`, the recurring plan at Xendit | register, Google sign-in, upgrade, deactivate, webhooks `recurring.plan.activated` and `.inactivated` | handlers read before their transaction and write whole rows; calls to Xendit are not rolled back; webhooks are repeated and reordered | users hold live subscriptions of their own, paid ones only once confirmed; Xendit bills for the plan the user is on; an ended plan falls back to Free |
| Upgrade options | none (a computation) | options, prices and credits of an upgrade | boundaries of a period, the cap on the credit | nobody pays less than nothing or more than the price; the credit never exceeds what was paid |
| Billing cycles and transactions | `subscription_cycles`, `transactions`, `currentCycle`, `nextBillingDate` | webhooks `recurring.cycle.created/retrying/succeeded/failed` | late and repeated webhooks, two transactions per webhook, columns overwritten by plan webhooks | what is stored was reported, one transaction per payment, a renewal is announced once |
| Plan and scope throttle | Redis counters per user and scope, `plan_usages` | guard, charge after the handler, usage record | check before, charge after; lost updates; window end and plan change in between | bounded overshoot, usage equals charges |
| Sessions and tokens | `sessions`, token blacklist, cached sessions | login, refresh, logout, revoke one or all | cached copies, a refresh that saves the row it loaded | a revoked session stays revoked, a refresh token is exchanged once |
| Cache | Redis entries of responses and objects | cached read, invalidation after a write | invalidation racing a slow read | nothing stale once invalidation is over |
| Account verification, password reset | `accounts`, used links | verify, resend, forgot, reset, change | check-then-act on single-use links, whole-row saves | a link acts once, no change is taken back |
| Payment methods | `payment_methods` with ranks | add, webhook, sort | ranks shifted outside the transaction, checks outside it | ranks are 1 to n, one method per account |
| Short URLs and channels | `urls`, `channels` and their join table | create, edit, bulk edit, delete, visit, unlock, confirm, attach, drop | check-then-insert of code and alias, whole-row saves | a slug names one URL, no change is lost |
| URL analytics and metadata | counters in `urls`, `analytics`, two BullMQ queues | visit job, metadata job, retries | counters from old rows, a retry after a partial effect | a visit is recorded once, counters do not run ahead |
| Billing addresses | `billing_address` | create, update | two defaults at once | at most one default |
| Mails, reports, history, configuration | logs and output | | | not modelled, see below |

Components meet in five ways: the lifecycle creates users' subscriptions, whose plan the throttle reads; cycle
webhooks write columns of the subscription rows that plan webhooks save as a whole; the inactivated webhook
reads the current cycle to say why a plan ended; most writes invalidate cached responses; and URLs are written
by requests and by two job queues.

## Modules

| Module | Role |
|---|---|
| `Entitlement` | What the lifecycle promises: a user holds one subscription, a paid one only after its own confirmation and only if the user ordered it, otherwise a Free one never held before. |
| `Subscriptions` | The lifecycle as the code does it; its properties, the inductive invariant `IInv`, and the mutants of its operations. |
| `MCSubscriptions` | Symmetry for TLC. |
| `SubscriptionsProofs` | The theorems about the lifecycle. |
| `Throttle` | `POST /urls` under the plan throttle: guard, handler, charge, usage record; its properties, inductive invariant and mutants. |
| `MCThrottle` | The seeded plans with small limits, symmetry. |
| `ThrottleProofs` | The theorems about the throttle. |
| `Ledger` | What the transactions table promises: one entry at most per settled cycle, which never changes. |
| `Cycles`, `MCCycles` | The cycle webhooks of one subscription, which implement `Ledger`. |
| `CyclesProofs` | The theorems about the cycles. |
| `Accounts`, `MCAccounts` | One user's account, sessions, tokens and the caches in front of them. |
| `AccountsProofs` | The theorems about the account. |
| `Urls`, `MCUrls` | Short URLs, channels, visits and the two job queues. |
| `UrlsProofs`, `UrlCountsProofs` | The theorems about names and records, and about counters and fields. |
| `Pricing`, `PricingProofs` | The price of an upgrade as a computation, and what it guarantees. |
| `Billing`, `MCBilling` | Payment methods, billing addresses, and prices asked for at any time. |
| `BillingProofs` | The theorems about methods, addresses and quotes. |

### Subscriptions

State: `row` is the `subscriptions` table (status, user, plan, `transactionStatus` as `payment`, `endReason`);
`active` is `users.activeSubscription`; `google` the users who signed in with Google. `remote`, `confirmed`
and `hooks` are Xendit: the state of every recurring plan, the plans ever activated, and the webhooks sent and
not yet answered with 200. `req` holds the requests in progress: a program counter and everything the handler
read and will still use (`sub`, `snap`, `prev`, `hook`).

| Actions | Code |
|---|---|
| `Register`, `LinkGoogle` | `createUserWithAccountAndSession`, `createAccountByGoogleWithTokens`: one transaction each |
| `UpgradeValidate`, `UpgradeRemote`, `UpgradeCommit` | `upgradeSubscriptionPlan`: lookups, `createRecurringPlan`, commit |
| `DeactivateValidate`, `DeactivateRemote`, `DeactivateCommit` | `deactivateSubscription` |
| `ActivatedLoad`, `ActivatedLoadUser`, `ActivatedSave`, `ActivatedCommit`, `Acknowledge` | `handleRecurringActivated`: load subscription, load user, save the row (row lock) and deactivate the previous plan, commit, history and mail and 200 |
| `InactivatedLoad`, `InactivatedSave`, `InactivatedWithoutCycle`, `InactivatedCommit` | `handleRecurringInactivated`: load, decide the reason, save the row (row lock) and create the fallback, or fail for want of the current cycle, commit |
| `Fail` | an exception or the death of the process at any of these points |
| `XenditActivate`, `XenditExpire`, `XenditEnd` | external: what the provider does to a plan and which webhook it sends |

A step is a database read, a commit, or a call to Xendit. Reads see committed rows. TypeORM's `save` reads the
row again and writes every column in which the entity differs, so a handler commits its whole snapshot; that
is where stale reads show. A row written by a transaction that has not ended is locked (`Locked`), and other
writers wait. The fallback of `createFallbackFreeSubscription` is saved through the repository, not through
the transaction's manager, and is committed at once. A webhook about an unknown subscription is answered 404
and comes again.

Abstractions: amounts, dates, metadata, histories and mails are left out, since nothing in the lifecycle
decides on them. `COMPLETED` is never an end reason, because no code sets `endedAt`. Whether the current cycle
was paid is a nondeterministic choice. The id of a paid subscription also stands for its `externalId`. A
webhook handler's failing calls are `Fail`, except the lookup of the current cycle, which may fail on its own.

### Throttle

State: `subs` and `active` are what the throttle sees of the lifecycle (the plans of a user's subscription
rows, whatever their status, and the active one); `points` is the Redis counter of the user's key, which all
plans share; `window` numbers the lives of that key; `usage` and `history` are `plan_usages.used` and the sum
of `plan_usage_history.used`; `req` holds each request with its resolved plan and the usage row it read.
`made` and `owed` are ghosts: the URLs of the requests let in during the current window, and the URLs made
under plans charged on success.

| Actions | Code |
|---|---|
| `Arrive`, `Resolve`, `Prepay`, `Check` | `ThrottlePlanGuard.canActivate`: resolve the policy, then consume (plans charged first) or look at the counter (`chargeOnSuccess`) |
| `HandleOk`, `HandleRefuses` | `UrlsService.createUrl` commits, or throws and the interceptor does not charge |
| `Charge`, `RecordRead`, `RecordSave` | `ThrottleInterceptor` and `recordUsage`: consume, read the usage row, commit it with its history |
| `Fail` | a failure at any of these points, where a consume may have been counted or not |
| `Subscribe`, `Switch`, `WindowEnds` | the lifecycle, and the expiry of the Redis key (external) |

A Redis command, a database read and a commit are steps. The counter is incremented also by a refused attempt.
The cost is 1, as the endpoint's decorator sets it. The concurrent `save` of two usage rows is one step each:
the second waits for the first one's row lock and then writes what it computed, or meets the unique index. The
stored `remaining` and `resetAt` and the response headers are left out: nothing decides on them. The key's
expiry may come at any time, because the first charge of a window sets it under whichever plan was resolved
then.

### Cycles

`charge` and `plan` are Xendit's side; `hooks` are the webhooks not answered with 200; `cycle`, `book`,
`renewed` and `sub` are the rows of cycles, transactions, RENEWED histories and the two columns of the
subscription; `ordered` says whether Xendit delivers a cycle's webhooks in the order they were sent, and both
values are explored.

| Actions | Code |
|---|---|
| `Deliver` | the webhook arrives and its subscription is found |
| `ReadCycle`, then `InsertCycle`, `InsertRefused` or `UpdateCycle` | the reads and the commit of `createOrUpdateSubscriptionCycle` |
| `ReadBook`, `WriteBook` | `createOrGetTransactionBySubscriptionCycle` |
| `History`, `Acknowledge` | the RENEWED row; the mail and 200 |
| `ActivatedSave`, `InactivatedSave`, `InactivatedWithoutCycle` | the plan webhooks' save of the whole subscription row, and their cycles |
| `Fail` | a process dies, or a server is unreachable |
| `Schedule`, `Retry`, `Succeed`, `GiveUp`, `EndPlan` | external: Xendit and the customer |

### Accounts

`account`, `profile`, `session` are rows; the account's `login` stands for `lastLoginAt`, as the session that
the last login made. `black`, `spentLink`, `entry` and `me` are the Redis entries `TOKENS`, `SESSION` and
`USER`, the last two with profile, verification and last login (`Info`); `signed` and `held` the token pairs;
`mail` the links sent. A request is a program counter and what it read. `Arrive` and `Visit` start one;
`CachedSession`, `CheckBlacklist`, `LoadSession`, `FillSession` are `JwtStrategy`; `Validate`, `Reload`,
`Refresh` the refresh; `Blacklist`, `LoadToRevoke`, `Revoke`, `RevokeAll` the revocations; `DropEntry`,
`DropAll`, `DropMe` the invalidations. `Register` keeps the session it has made, and `RegisterTokens` saves
that whole copy with the first hash. The others are the handlers of the routes named in `UserRoutes` to
`AuthRoutes`. Reset and verification links are single: the model follows one of each.

### Urls

`url` is the row with its channels and counters; `records` is the `analytics` table; `visits` and `metadata`
are Redis entries; `job` holds what each request queued. Creation is `CreateCode` to `CreateCommit`, editing
`UpdateLoad` to `UpdateSave`, the visit job `TakeVisit` to `Finish`, the metadata job `TakeMetadata` to
`SaveMetadata`; bulk edits, deletions, channel operations and visits are statements of one step each. `Stored`
is TypeORM's save of the whole row in memory. An edit's body (`Edits`) gives any fields that `updateUrlSchema`
lets through, the code and `uniqueClicks` among them; what it does not give stays as loaded (`Merged`).
`tagged` is the join table of analytics and channels: a URL that is attached to a channel, or has a record
tagged with one, cannot be deleted (`Tied`), since neither table loses its rows with the URL.

### Billing and Pricing

`method`, `linked` and `hooks` are the rows, Xendit's methods and its webhooks; `address` the addresses with
their default. The webhook is `Deliver`, `CountMethods`, `Shift`, `Identify`, `Insert`; the sort is `Sort`,
`SortRow` for each row, `SortCommit`; an address is written by `CreateAddress` or `UpdateAddress`, `Clear`,
`Cleared`, `SaveAddress`. `writes` and `locks` are row locks. `Price` asks `Pricing!Offer` for a subscription,
a plan, a discount and a time. Days are halves there, since the code rounds days up, and amounts are exact
fractions until the code rounds them.

### Ghosts and excuses

Where the code guarantees something only if requests do not overlap, the property says so exactly: a ghost
records the overlap that can spoil it (`excused` in `Accounts` and `Billing`, `disturbed` in `Urls`, `seen` in
a URL's row), at the commit that overwrites and not before, and the property speaks of everything else. So
`RevokedStays` excuses a refresh that had loaded the session's row, and the registration that had made it,
before the revocation was committed. What an edit gives without a check is recorded likewise: `recoded` are
the URLs that were given a code, `recounted` those that were given a `uniqueClicks`. An overlap that does no
harm is not excused: a login that checks the credentials on one load and saves another does not lose a
password changed in between. Ghosts occur in no guard. The hazards of `PROJECT.json` that name no property are
such overlaps: nothing in the code prevents them, and their notes say which property excuses what.

## Runs

| Run | Question | Bounds | Result |
|---|---|---|---|
| `subscriptions_concurrent` | Do interleaved, reordered and repeated handlers keep what users hold sound, and implement `Entitlement`? | one user, two paid and two Free ids, two requests at once, Google sign-in, no `Fail` | holds |
| `subscriptions_serial` | One request at a time, with a failure: do plan and billing agree once settled, are reasons final, do webhooks have their effect in the end? | one user, two paid and four Free ids, one failure, in-order delivery | holds |
| `subscriptions_repeated_webhook` | Does an activation leave its own plan alone? | one request, one failure | violated |
| `subscriptions_failed_upgrade` | Is the reason of a failed upgrade recorded? | one request | violated |
| `throttle_concurrent` | By how much can a limit be overrun, and is usage ever invented? | one user, plans Free (2, charged first) and Starter (3, charged on success), three requests, two windows, one failure | holds |
| `throttle_serial` | Do usage, history and URLs agree, and does 429 mean that nothing was made? | one request at a time, three plans, three windows, one failure | holds |
| `throttle_active_plan` | Is the limit the active plan's? | as the serial run | violated |
| `cycles` | Do overlapping, late and repeated cycle webhooks keep the rows true, and implement `Ledger`? | cycle 2, two deliveries at once, any number of failures and redeliveries, payment method known or not | holds |
| `cycles_renewal` | Does every paid cycle get its transaction? | cycles 1 and 2, one delivery at a time, in order, method known | violated |
| `accounts` | What may account, sessions and caches say of each other when requests overlap or die? | twelve mixes, one user, two sessions, two requests at once, three token pairs, two passwords, two versions of the profile | holds |
| `urls` | Are changes, counters, slugs and jobs sound? | eight mixes of three requests (one or two addresses), three slugs, three edits, one channel, three attempts, one failure, two first rows | holds |
| `billing` | When do ranks, accounts and the default go wrong, and are prices fair? | three methods of two accounts, three addresses, three webhooks; prices at 63 half days of three periods, five subscriptions, four plans, two discounts | holds |

Why the bounds are enough. Rows of different users never meet: handlers touch only rows of the owner of their
subscription, so one user suffices for TLC, and the theorems cover any number. Two paid ids give an upgrade
from a paid plan to another, which exercises the deactivation of the previous plan, and a user who returns
from Free; with two Free ids the concurrent run has registration and one more (Google or a fallback), with
four the serial run has a fallback for each upgrade and one orphaned by a failure. Two requests give every
pair of handlers, both orders of two webhooks and a repeated webhook handled twice at once. `MaxFaults` bounds
`Fail`; the concurrent run has no failures because there a repeated delivery has the same effect, and the
theorems hold with any number of them. `CHECK_DEADLOCK FALSE`: the ids of the pools are used up, and then
nothing is left to do.

For the throttle one user suffices because keys, rows and counters carry the user's id. The limits 2 and 3
against three requests and up to five URLs let a window fill, overrun and be refused; the bound of
`OverrunBounded` is reached (five URLs against a limit of three with three requests). The serial run is where
`SettledIsRecorded` and `RefusedMadeNothing` hold: with two requests at once the usage row loses an increment,
and a charge is refused after its URL was made. `MaxPoints`, `MaxUrls` and `MaxWindows` stop new requests and
windows; the theorems do not depend on them.

`cycles` follows a scheduled cycle; the first differs only in the history it does not write, and both are in
`cycles_renewal`. Two deliveries give each pair of handlers, the same webhook twice included. `accounts` (1.7
million distinct states) and `urls` (480,000) are the largest runs; they and `billing` take a `Mix`: the
operations that a behaviour uses together. Every set of operations that touch the same state is in some mix;
those that share none would only multiply the states. Requests of one mix run in every interleaving. A third
request in `accounts` adds no pair of steps, and what a property relates is written by at most two requests.
In `urls` three requests let two visits race with a third operation, and the third slug is one that an edit
gives a URL as its code. In `billing` a period of 30 days has the first, the last week's boundary and the day
after expiry, periods of eight days and one day its edges; the odd price makes the quarter a fraction.
`CHECK_DEADLOCK FALSE` in `cycles`, `urls` and `billing`: each request slot, cycle or delivery of the bounds
is used once, and then there is nothing left to do.

The serial lifecycle run's assumptions are the limits of what the code guarantees, and each was seen to be
needed: with two upgrade requests at once `OneUpgradeAtATime` fails (the lookup of a pending upgrade takes no
lock); with webhooks out of order `BillingFollowsPlan` and `EndReasonIsFinal` fail (an activation handled
after the end of its plan moves the user to a plan that is no longer billed); a failed fallback transaction
leaves its Free row ACTIVE, so `OneActiveSubscription` allows one such row per failure and no other; and a
Google sign-in of a paying user leaves the old plan billed, so the serial run has none.

Fairness (`FairSpec`): a request in progress goes on (its `await`s return or throw); Xendit sends a webhook
until it is answered 200, and does so for cycles as well, so the lookup of the current cycle does not fail for
ever. Users and Xendit's own decisions are not fair. In `Cycles` a delivery in progress goes on, and Xendit
delivers each webhook again and again until it is answered 200 (strong fairness, because a slot of the model
may be taken in between); failures may go on for ever, so the liveness properties assume that they end
(`FailuresEnd`). In `Urls` a BullMQ worker takes waiting jobs and goes on with the one it has, and an open
transaction ends.

### Divergences found

* `OwnPlanSurvivesActivation`: the comment says that the previous recurring plan is deactivated. A repeated
  activated webhook finds the user already on the subscription being activated and deactivates that very plan.
* `FailedUpgradeIsRecorded`: the comment says that a failed first payment is recorded with its failure code.
  The branch asks for a `transactionStatus` of FAILED or RETRYING, which no code stores, so the subscription
  ends with no reason, history or transaction.
* `PolicyIsOfActivePlan`: the policy resolver asks for any subscription row of the user, so the row of a
  pending upgrade, not yet paid, or of an ended plan can decide the limit, where the guard says that the
  policy is the user's.
* `PaidIsBooked`: the comments say that a succeeded cycle creates a transaction and a RENEWED history. The
  reference of the payment is resolved, but not merged into a cycle that a created webhook stored before, so
  the transaction is refused with 400 on every delivery.

Met while modelling, and built into the models rather than stated as runs:

* Cycles: a second delivery of succeeded or failed is always refused, since the action id is known and the
  payment method is then not loaded; a transaction missed by a failure is never made. The failed attempts'
  action ids that a comment wants tracked for retrying are never found: no attempt matches the search, and the
  case `'RETRYING'` of the switch cannot be reached.
* Accounts: access tokens never look at `isRevoked`, so a revoked session's tokens work until they expire or
  are on the blacklist, and a cached session is accepted before the blacklist is asked. A `USER` entry can be
  filled from a stale `SESSION` entry while an invalidation is under way. A login drops the `USER` entry only,
  so `SESSION` entries keep an older last login. A registration that stores its first hash after a revoke-all
  undoes it for its session, since it saves the copy of the session it made. `user.service` validates a new
  username and e-mail but does not save them.
* Urls: `visitHash` has no time in it, so "Revisit logic (TTL-based, always new record)" is not what happens
  after 24 hours: the unique index refuses the record, and the job fails three times. A visit by alias is
  never counted, and unlocking by alias is 404, because the worker and the unlock look for a code.
  `clickCount` counts impressions too. A row deleted under an edit or under the metadata job is inserted
  again. Codes are drawn without looking at aliases. A bulk archive leaves `archivedAt` empty. `PATCH
  /urls/:id` takes `code` and `unique_clicks` and stores them unchecked, so a URL's code can become another's
  alias. A URL that is attached to a channel, or has a record tagged with one, cannot be deleted (the foreign
  keys refuse it), nor can a bulk of URLs with such a one in it. The metadata job is queued before the commit
  of its URL.
* Billing: the shift of the ranks is outside the transaction, so a default method that is refused or delivered
  again shifts them once more. A webhook that changes a known method throws in `setAccountIdentityHash`, whose
  user is not loaded, so the change is never stored. A new default does not clear the old one's flag. A sort
  may name some methods only or leave gaps; when it names one that is missing, its `Promise.all` rejects while
  other rows may still be on their way, and such an update can fall outside the transaction that was rolled
  back, which is not modelled. The price of an offer is the client's `newPrice` where the request gives one,
  so `QuoteFair` is about that price. In the last week an immediate upgrade is charged in full, without the
  discount, and `upgradeSubscriptionPlan` does not ask whether the option is upgradable.

## Proofs

Every type invariant and every safety or action property of the passing runs is a theorem, for any number of
users, rows, requests, attempts and failures. Each rests on an inductive invariant that TLC confirmed on small
instances before it was proved; there is a lemma per action, with a step per conjunct that the action can
disturb.

| Module | Theorem | Property | Hypotheses |
|---|---|---|---|
| `SubscriptionsProofs` | `TypeCorrect`, `FreePlanIsLive`, `PaidAccessIsConfirmed`, `HeldSubscriptionIsOwned`, `Refinement` | `TypeOK`, `FreeIsLive`, `PaidIsConfirmed`, `HeldIsOwned`, `ImplementsEntitlement` | |
| | `UpgradesOneByOne` | `OneUpgradeAtATime` | one request at a time |
| | `BillingIsOfPlan`, `OneActive`, `EndReasonKept` | `BillingFollowsPlan`, `OneActiveSubscription`, `EndReasonIsFinal` | one request at a time, webhooks in order, no Google sign-in |
| `ThrottleProofs` | `TypeCorrect`, `Overrun`, `PrepaidLimit`, `UsageIsOwed` | `TypeOK`, `OverrunBounded`, `PrepaidWithinLimit`, `RecordedIsOwed` | |
| | `Settled`, `RefusedFirst` | `SettledIsRecorded`, `RefusedMadeNothing` | one request at a time |
| `CyclesProofs` | `TypeCorrect`, `StoredIsTrue`, `RenewalOnce`, `Refinement` | `TypeOK`, `StoredWasReported`, `RenewedOnce`, `ImplementsLedger` | |
| `AccountsProofs` | `TypeCorrect`, `RevocationStays`, `RefreshedOnce`, `ChangesOfAccountKept`, `CachedIsCurrent`, `LinkUsedOnce` | `TypeOK`, `RevokedStays`, `SpentIsRefused`, `AccountKept`, `CacheCurrent`, `ResetOnce` | |
| `UrlsProofs` | `TypeCorrect`, `AliasUnambiguous`, `VisitRecordedOnce` | `TypeOK`, `AliasChosenFirst`, `RecordedPerVisit` | |
| `UrlCountsProofs` | `CountersBelow`, `NothingLost` | `CountsBelowRecords`, `ChangesKept` | |
| `PricingProofs` | `OffersAreFair` | the bounds of one offer | |
| `BillingProofs` | `TypeCorrect`, `RanksKept`, `AccountsDiffer`, `DefaultIsOne`, `QuotesAreFair` | `TypeOK`, `RanksInOrder`, `OneMethodPerAccount`, `OneDefaultAddress`, `QuoteFair` | |

The hypotheses are assumptions about the environment, those of the serial runs; Runs tells which properties
fail without which. The bounds on failures and pools stay arbitrary.

### The lifecycle

`SubscriptionsAssumption` says that the id pools are disjoint and the null values are not ids; the theorems
hold for every choice of `Redelivery`, and of `InOrder` where the table does not fix it.

None of the three safety invariants is inductive: they say nothing of the handlers in between. `IInv` adds
what those hold. An upgrade in progress has reserved an absent row that nobody else writes
(`UpgradesAreReserved`); a handler's row exists and its snapshot names the right owner (`HandledRowsExist`),
and an activation's plan was confirmed (`HooksAreTrue`); a remembered previous subscription exists
(`PreviousExists`) and belongs to the same user (`PreviousIsOwned`); a committed fallback is live, held by
nobody and known to one request (`FallbackIsReserved`). The last one is why ending a Free row cannot hit a
fallback of another handler. The refinement needs `IInv` for the two steps that move a user: `ActivatedCommit`
grants a subscription that was confirmed and ordered by that user, and `InactivatedCommit` moves the user to a
Free one that nobody holds.

`UpgradesOneByOne` needs `OneUpgrade`: a request that is upgrading has seen that its user has no PENDING row.
Nothing but the commit of an upgrade makes a row PENDING (`OnlyUpgradesArePending`, proved for overlapping
requests too), so one request at a time keeps it, whatever the order of webhooks.

The other serial theorems need `SInv(r, S)`. The row of a paid subscription says what Xendit says of its plan,
or a webhook that will say so is in the queue (`RemoteFits`); what the only request loaded is still there when
it writes (`Loaded`); a reason that the user did not give stands only on a plan that is over, whose activation
has been handled (`ReasonFits`), so no later webhook can rewrite it; and a Free row that nobody is on has
ended, unless it is in `S` (`FreeFits`), the rows of the fallbacks that failed after they were inserted. No
expression in the variables names `S`, so the invariant of the specification is `Alone(r)`: some `S` fits that
is no larger than the number of failures. Only `Fail` adds to it, one row at most. In-order delivery is used
where an inactivation is handled: the activation before it is no longer in the queue.

### The throttle

`ThrottleAssumption` says that limits are positive and requests finitely many. The invariant counts. In every
window the URLs made and the admissions already charged are covered by the points, the requests still to be
charged and the failures (`Paid`); the guard lets a request in only below the limit, when the other requests
that are not yet charged number less than all requests, which gives the bound (`Bounded`). A window's end
empties all of these sets at once, as no request is let in by a window still to come (`Consistent`). The lemma
`Others` reduces each step to arithmetic: a step of one request changes each set only by that request. A step
is then silent for a user, or it lets in, makes or records one request of that user (`StepsOf`).

With one request at a time `SInv` adds what a second request would spoil. The points that the guard saw are an
upper bound on those at the charge (only a window's end lies between, which clears them), so a charge after
the handler is not refused; and the usage row that `RecordRead` loaded is the row that `RecordSave` replaces,
so usage and history stay equal, and below the URLs owed by no more than the failures and the request's own.

### The cycles

`CyclesAssumption` says that cycles are positive numbers; ordered delivery is not assumed. `IInv` says two
things that the properties do not. What a webhook reports is so (`Reported`), in Xendit's queue and in every
handler, and stays so because a settled charge is final; hence what handlers write, whatever they overwrite,
is true. And a row that holds its reference holds the action id (`Sound`), so a handler that loaded such a row
has not loaded the payment method (`InProgress`): only the one that inserted the row goes on to transaction
and history, so they are written once (`Alone`). `DeliveryKeeps` says what a step of one delivery must leave
to the others; a lemma for each action uses it.

### The account

`AccountsAssumption` says only that the bounds are numbers and the null session is none. Four parts of `IInv`
carry the theorems. `Sessions`: the row a request loaded of a session is never newer than the row, and no two
requests sign the first pair of a session, so an old row written back matches no pair spent in between unless
it is revoked; the registration and the refreshes that will write such a row over a revocation are excused
when the revocation commits. `CopiesKept`: a copy of the account that will be saved is like the row, or the
commit that made them differ is excused. `StaleIsDropped`: a profile or verification (`Current`) that is
cached, or about to be cached, and is stale will be dropped by an update that has committed and not yet
invalidated; this covers `SESSION` and `USER` entries and the copies on their way from one to the other.
`OneReset`: one reset at a time is past its check of the link, until it marks it, or the overlap is excused.

### The URLs

`UrlsAssumption` types the constants; `FirstAssumption` says that the first row starts with no visits, as the
code creates it. What cannot be written with the variables alone is the code of a URL that has been deleted
while an edit, a job or a record still speaks of it. `IInv` therefore says that some assignment of codes to
URLs fits all rows, copies of rows, jobs and records. A URL is given its code by the commit that creates it
and keeps it until an edit gives it another, from when on it is `recoded` and nothing is said of its code; an
alias that was checked is the code of no other URL that existed then, and stays so when a save inserts a
deleted row again. Two records of one job are then of one URL, where the unique index tells their hashes
apart.

`CInv` extends `IInv` by the counters. A bound on a counter must hold of every copy of the row that may be
saved over it: those of edits and jobs, and the row a job is about to store (`RowsBelow`, `CopiesFit`); of
`uniqueClicks` only while the URL is not `recounted`. For `ChangesKept` a URL is unspoilt while no row was
saved over another's write (`RowsKept`): then a copy as new as the row is the row, and of the jobs between
their record and their counters one at most has not been overtaken, which stores exactly what is missing. One
that was overtaken spoils the URL when it stores.

### Prices, methods and addresses

`PricingProofs` assumes amounts in whole units and any dates. Rounding is the only place where a part is lost:
it returns a value within half a unit of its argument and grows with it (`RoundedIs`), so net, credit and
discount add up to the price to one unit, the credit is within the unused part and a quarter of the price, and
it only shrinks as time passes. `QuotesAreFair` carries this to quotes asked for at any two moments.

`BillingAssumption` says that methods are finitely many and no more than the ranks; the bound on ranks only
types the model, the code has none. `EarlierAssumption` says that the methods stored at the start are ranked 1
to n, of different accounts. In `IInv` each request carries the version of the table at which it read: if
nothing was committed since, what it read is still so (`HookFits`, `SortFits` and their like for addresses),
and if something was, its commit is excused. The ranks are 1 to n while nobody has shifted them; after a shift
they are 2 to n + 1 until its insert, or the one that shifted is no longer up to date (`RanksFit`). Row locks
are disjoint (`Disjoint`).

### Only model-checked

The liveness properties `EndedIsReplaced`, `ConfirmedIsGranted`, `SettledIsStored` and `JobsSettle`: they need
fairness, and the enabledness of actions is out of the prover's reach. The four divergences are
counterexamples, shown by TLC.

## Not modelled

* Mail workers, analytics reports, history rows other than RENEWED, health, configuration, logging, DTOs and
  mappers: output, network I/O or read-only code, with no state the program decides on.
* The OAuth code: one cache entry that lives a minute; no step of another request can disturb it.
* The scope throttle's keys and its cooldown; its consumption is that of `Throttle`.
* Creating and editing a channel: one statement each, under a unique index.
* Lookups at Xendit of customers, payment requests, invoices and channels: their results are choices of the
  models.
* `url-metadata-v2.service`: nothing uses it.
* Cached lists and details other than the session and `GET /user/me`: the same interceptors with other keys.

## What is left

* The serial hypotheses of the lifecycle could be weakened to single users: requests of different users never
  meet, so it would be enough that each user's requests do not overlap.
* `ConfirmedIsGranted` and `SettledIsStored` have safety halves worth stating as theorems: a confirmed upgrade
  that is still PENDING has its webhook in the queue.
* The scope throttle's cooldown and the caches of lists are the next parts to model.
