# ContractCanvas in TLA+

ContractCanvas is a multi-tenant service for drafting, sending and billing
contracts: an Express/Prisma API (`src/apps/api`), an Angular client
(`src/apps/web`), PostgreSQL, Redis with BullMQ queues, object storage, and
three outside services that call back - DocuSign, HelloSign and Stripe.  This
directory holds TLA+ models of the parts whose correctness depends on the order
in which things happen, their checks by TLC and proofs by TLAPS.  Paths below
are relative to `src/apps/api/src/` unless they begin with `src/`.

Contents: [inventory](#inventory) - [modules](#modules-and-the-code) -
[runs](#runs) - [fairness](#fairness) - [proofs](#proofs) -
[what the models found](#what-the-models-found) -
[not modelled](#not-modelled) - [plan](#plan).

## Inventory

All handlers of one API process share one event loop: a handler runs alone
between two `await`s and any other handler may run at an `await`.  Several
processes may run.  Except where a `$transaction` is named, every database call
is its own transaction.

| Component | State | Operations | What is hard | What makes it correct |
|---|---|---|---|---|
| Signature envelopes (`routes/signatures.ts`, `services/signature-provider.ts`) | `SignatureEnvelope` rows; the provider's envelopes | create, void, resend, provider webhook | provider call and row are two steps; events late, repeated, out of order; the webhook writes two rows without a transaction | an ending in a row happened at the provider; a completion that is received ends in its row; no envelope is lost from the rows without a failure; EXECUTED is earned |
| Contracts (`routes/contracts.ts`) | `Contract` rows, outbound jobs | create, patch, delete, generate-pdf | status and `updatedAt` are checked on a row read earlier | EXECUTED is earned; jobs name statuses the contract had (the lock and the table themselves fail under overlap, see below) |
| Contract versions (`routes/contracts.ts`) | `ContractVersion` rows, `currentVersionId` | append a version in a `$transaction` | next number is read, then written, at READ COMMITTED | numbers 1..n, pointer at the last, history is a log |
| One-off payments (`routes/billing.ts`) | `Invoice`, `Payment` rows; PaymentIntents at Stripe | create invoice; `payment_intent.*` events | Stripe first, row later; concurrent deliveries; a unique key two events share | books agree with Stripe; nothing is paid twice or forgotten |
| Subscriptions (`routes/billing.ts`) | `Subscription`, `BillingProfile` rows; subscriptions at Stripe | subscribe, portal, five events, access check | snapshots applied on arrival; statuses the schema lacks | rows have a cause at Stripe, and mirror it when events are in order |
| Plan limits (`services/usage.service.ts`) | counts of rows | matter, member and storage limit | count, then insert | a limit is exceeded only by what overlaps |
| Sessions (`routes/auth.ts`, `lib/session.ts`, `lib/login-guard.ts`, `lib/redis.ts`, `middleware/auth.ts`) | `Session` rows, login counter and lock and the blacklist in Redis, reset links | login, refresh, logout, change and reset of a password, verification, clean-up | rotation against reuse, logout and revocation; counts before writes; two stores | a refresh replaces its session; what survives a revocation, the cap or the lock was in progress |
| Organizations (`routes/organizations.ts`, `routes/users.ts`) | `OrganizationMember` rows | add, change role, remove, transfer ownership, join, delete account | counts before writes; rows by the id of an earlier read | admins and members within their limits but for what overlaps; a transfer leaves an owner |
| Matters, documents (`routes/matters.ts`, `routes/documents.ts`, `queues/cleanup.worker.ts`, `queues/pdf.worker.ts`) | rows, objects in S3 | create, patch, delete; upload, download, soft delete; retention; PDF job | object and row are two steps; a job starts over; retention is three calls | a row has its object, objects without a row are accounted for; retention has a cause |
| Reminders, notifications (`routes/reminders.ts`, `lib/reminder-scheduler.ts`, `lib/notify.ts`, `lib/sse-registry.ts`) | `Reminder.sentAt`, `Notification` rows, open streams | create, move, delete, tick, notify, connect, disconnect | overlapping ticks; a move during a tick | a due reminder is sent; `sentAt` tells the truth; repeats are bounded |
| Queues, PDF (`queues/*.ts`, `services/pdf.service.ts`) | BullMQ jobs, a shared browser | enqueue, process, retry, launch, close | at-least-once jobs, concurrent launch | a job ends; one browser |
| Outbound webhooks (`routes/webhooks.ts`, `queues/webhook.worker.ts`, `services/webhook.service.ts`) | `OutboundWebhook` and delivery rows, jobs in Redis | register, change, remove, announce, deliver | a job that throws starts over; a worker without its lock goes on | a subscriber gets the event, not too often; the records are true; each job ends |
| Work items (`routes/tasks.ts`, `comments.ts`, `clauses.ts`) | one row each | create, update, delete | little | ownership |
| Web session (`src/apps/web/src/app/services/auth.service.ts`, `interceptors/`, `guards/`) | token, timer, current user; the cookie all tabs share | boot, login, logout, verify, silent refresh | calls that cross; answers after a logout; a refresh that no timer holds; 401 of any call | a signed-out tab gets no token from a timer; a tab with a token can refresh it |
| Web pages (`src/apps/web/src/app/pages/`, `components/comments`) | the rows shown, the filter, what is in flight | load, filter, create, change, delete | answers in any order; changes during a load | the list is the answer to what was asked last; deleted rows stay away |

How they interact: signing changes contracts (the webhook executes them) and
contracts enqueue outbound webhooks; subscriptions decide access to the other
routes and their tiers bound matters and members; every route goes through
sessions; removing a member or deleting an account revokes sessions; the queues
run the mail, PDF and webhook jobs of all.  In the browser every page's call goes
through the interceptors, and one refused call signs the whole tab out.
`PROJECT.json` lists every part with its status and, under `hazards`, every
place where the code is hard to test.

## Modules and the code

An action is one handler step from one `await` to the next, with all the state
it changes; a request's record holds what the handler remembers across the
`await`, and its `pc` names the call it makes next.  `faults` counts failed
calls, crashes and lost answers, `attempts` deliveries of an event.  Row ids,
provider ids and events are model values or small records; texts, audit
entries, amounts and mails are left out.

**ContractStatus** has the two status enums of the schema, the table
`VALID_STATUS_TRANSITIONS` and the mapping of event names (`STATUS_MAP`, with
its fall-back to upper case).

**Signing** models create, void and resend of an envelope, PATCH and DELETE of
a contract, the webhook, and the provider with its signers.  `CreateRead`,
`CreateSend`, `CreateSave` are the reads, the provider call and the insert of
one handler, and the same names are used for the others.  `VoidRefused` and
`SendRefused` are providers that answer with an error.  `HookFind`, `HookSave`,
`HookExecute`, `Acknowledge` are the steps of a webhook delivery;
`HookRejected` is a status the enum lacks, `HookExecuteFails` the swallowed
error of the contract's update.  `SignerActs` is the environment: it changes
the provider's envelope and posts an event.  `guarded` says whether a call to the
webhook passes through `protect`, as the order of `server.ts:139` and `:140` has it;
`Init` chooses it, so that every property holds for both orders.  `HookRefused` is a
delivery answered 401 - by `protect`, or by the handler when the secret of the
provider is missing or wrong - `Arrives` one that comes as far as the handler.
`had` and `replaced` are histories: the statuses a contract has had, the provider
envelopes whose row a resend has given another.

**SigningSerial** restricts Signing to one handler at a time and events in
order: the environment of the repository's own tests.  It composes with Signing
by EXTENDS and adds `InTurn` to every step: no two handlers are in progress after
it (`OneAtATime`), and an event is delivered only when no handler is and the earlier
events of its envelope have been acknowledged (`DeliveredInOrder`).

**ContractVersions** models the version handler as the READ COMMITTED
transaction it is: what a transaction inserted is invisible to others until it
commits; the unique index `(contractId, versionNumber)` makes a second
inserter wait for the first and then fail; the foreign key holds a share lock
on the contract, which the pointer update needs alone.  **VersionLog** is what
it promises: one append-only sequence per contract.  `VersionsAreLog` is the
refinement, with the log read off the committed rows.

**Payments** models POST `/invoice` (intent at Stripe, row, answer with the
client secret) and the two `payment_intent` events.  The succeeded event runs
in a transaction: `TxUpdate` takes the row lock of the invoice, `TxInsert` the
unique key of the payment, `TxCommit` makes both visible; `TxDuplicate` is the
unique violation that rolls back.  Stripe's customers pay, fail and retry only
intents whose secret they have; intents of subscription invoices produce events
without an invoice (`SubscriptionIntent`, `HookUnknown`).  **PaymentLedger** is what
the books promise the accountant, with neither handlers nor failures: an entry is
opened before its money can be taken, and closed at most once, by what Stripe took or
refused.  `BooksAreLedger` is the refinement; `Entry` reads an entry off the invoice
and the payment, and the pairs of rows it calls "torn" are not states of the ledger.

**Subscriptions** models POST `/subscribe` and the subscription and invoice
events of the same webhook.  A `Content` lists what Stripe reports with which
status; `NewStatus` is the status each branch of the `switch` writes; `Write`
is its `upsert` or `updateMany`; `Reject` is a status the schema lacks
(`incomplete_expired`).  Each branch writes once, so a delivery is one step;
requests take one step per call.  `InOrder` chooses whether the events of a
subscription come in order.

**Reminders** models POST, PATCH and DELETE `/reminders` and the job that
`node-cron` starts each minute in each process.  `Ticks` are the runs of the job
that may be in progress: node-cron does not wait for the last run.  `FindDue`,
`ReadMembers`, `Insert`, `Mark` are its four database calls; `TickFails` is its
`catch`, or the end of the process.  A PATCH with a new `dueAt` starts a new
*edition*: notifications are counted for each edition and user, which the rows
themselves do not tell apart.  `Matures` is the clock; `Movers` are the users who
join and leave while it runs.

**OutboundWebhooks** models the webhooks of one organization, the BullMQ queue
and its worker.  `Announce` is `enqueueWebhook` when Redis takes the job (when not,
the error is swallowed and the event never was).  `Find`, `Post`, `Record` are the
awaits of `deliverWebhook`; `RecordRefused` is the foreign key of a webhook that
was removed after it was read, `CallFails` a database that does not answer: both
make the processor throw, and BullMQ runs the job again from its start
(`Thrown`).  An HTTP failure does not throw: `Post` goes on to `Record` either way.
`Take`, `Recover`, `LoseLock`, `Stalled` are BullMQ, external: a job whose lock runs
out goes to another worker, once, and the first worker goes on without knowing.
`Workers` are the places of all processes, ten in each (`concurrency: 10`).
`owed`, `received`, `succeeded` are histories: the webhooks that were on since the
event, the requests endpoints got, the records that say so.

**Sessions** models the sessions of one account, call by call.  Login is
`LoginCheck` (the guard), `LoginRight` or `LoginWrong` (the comparison), the three
Redis calls of `recordFailedAttempt` or the two of `clearFailedAttempts`, and the
list, the trim by ids and the insert of `createSession`.  A refresh is
`FindSession`, then the transaction `Rotate` (or `RotateFails`, or `Mistrust` for
another ip).  `Change`, `ResetFind`/`ResetSave` and `DeleteAccount` lead to
`revokeAllUserSessions`; removal of a member does too.  A row knows the login it
goes back to and how many revocations came before that login compared the
password: neither is a column, both are what the properties speak of.  The model
is the guard as it works with Redis.

**Membership** models one organization: `AddRead`, `CountAdmins`, `CheckLimit`,
`InsertMember` are the calls of POST `/:orgId/members`; PATCH shares the count and
ends in `UpdateRole`; `RemoveRead`/`DeleteMember` and `TransferRead`/`FindTarget`/
`Transfer` are the other two.  Rows of a user are numbered, so that an update by
the id of a row that was deleted and made anew finds nothing.  `Register` joins
without a limit; `DeleteAccount` removes the row.

**Documents** models matters with their limit, uploads and deletions, the
retention job (`FindClosed`, `FindDocuments`, `Retire`, one call each, as the
clean-up worker makes them; `Retire` dates rows that were deleted meanwhile anew, as
the code's `updateMany` does) and a PDF job with its attempts.  A document is its
object and its row; `lapsed` remembers the matters that were due once.

**WebSession** is one browser tab: `tab` is what `AuthService` holds, `cookie` is
shared with other tabs, `call` are the session's own calls - sent, handled,
answered, in any order.  `Cut` is what cancelling the timer aborts: the server may
have handled it.  The logout that an answer causes is sent with the cookie as that
answer has left it.  A token ends in one of three ways (`TakesToken`): its timer is
set; or it expires within a minute by the clock of the browser and is refreshed at
once, by a call that the timer does not hold (kind "refresh", as the one at boot);
or `atob` cannot read it and the tab signs out.  The server side of a call is one
step, with the answers of `routes/auth.ts`.  `calm` says that no two calls met, none was lost, and no other
tab signed out.

**ListPages** is the page that is open.  Eleven pages share the same shape - ask
for rows, show them, send changes, fold the answers in - and differ in when their
controls are there (`DocumentList`, `TaskList`, ... are the conditions of the
templates), in whether a request takes the place of the last (`Switching`), in
what a failed request leaves (`Emptied`) and in which changes ask first
(`Confirm`).  There is one action for each method of a page.  A group is a filter or,
for documents, comments and the page of a matter, the matter the rows belong to.
Rows are changed by other users meanwhile.  `tidy` remembers that the last request
met none for another filter that is still to be answered, and no creation; `dropped`
the rows whose deletion was answered when no answer on its way had them.

**WebClient** composes the two through the interceptors and the guard: a page's
call carries the token of the moment (`Carries`); a refused one signs the tab out
and the page is left with all it had in flight (`Unauthorized`, `Leaves`).

The modules `MC...` name the model values of the instances.

The billing models start from a parsed body.  In the server as started,
`server.ts:102` mounts the billing router before `express.json` (`server.ts:104`),
so its JSON routes get no body; the tests mount it the other way round and the
models follow the handlers.

DocuSign, HelloSign, Stripe and PostgreSQL are external: they are modelled from
how the code uses them and from no more than that.  PostgreSQL gives atomic
single statements, row locks and unique keys.  Providers deliver an event until
it is answered 200, also more than once, also out of order.

## Runs

| Run | Question | Bounds | Result |
|---|---|---|---|
| `signing_concurrent` | Can any interleaving invent an ending or an execution, lose an envelope or announce what never was? | 1 contract, 1 row, 2 provider envelopes, 3 signature and 2 contract requests, 1 webhook handler, 1 fault, 1 delivery per event | `KnowledgeSound`, `TerminalRowHasCause`, `ExecutedIsEarned`, `AnnouncedHappened`, `OrphansAccounted` hold |
| `signing_serial` | Do rows follow the provider when handlers do not overlap? | 1 contract, 1 row, 2 provider envelopes, 2 signature and 1 contract request, 1 webhook handler, 1 fault, 2 deliveries per event | `MirrorsProvider`, `ReceivedCompletionIsSaved` hold |
| `contract_versions` | Is the history a log? | 2 contracts, 3 requests, 2 faults | all hold |
| `payments` | Do the books agree with Stripe, as a ledger whose entries are closed once? | 2 intents, 2 requests, 2 handlers, 3 deliveries, 2 faults | all hold |
| `payments_retried` | Does a refused card and then a good one pay the invoice? | 1 intent, 1 request, 1 handler, no fault | violated |
| `subscriptions` | Do rows follow Stripe? | 1 subscription, 2 requests that race for it, 4 changes, 3 deliveries, 2 faults | all hold |
| `reminders` | Is what is due sent, how often, and does `sentAt` tell the truth? | 1 reminder, 3 editions, 2 users of whom 1 moves, 2 ticks, 2 faults | `DuplicatesBounded`, `SentIsTold`, `DueIsTold` hold |
| `outbound_webhooks` | How often does an endpoint get an event, are the records true, and does each job end? | 1 event, 2 webhooks, 2 workers, 2 attempts, 1 stall, 2 faults | `DeliveriesBounded`, `RecordedTruly`, `CompletedIsAttempted`, `JobEnds` hold |
| `sessions` | What do overlapping logins, refreshes and revocations leave behind? | 2 requests, cap 1, lock after 2 wrong passwords, 4 sessions, 7 guesses, 1 revocation, 1 fault | `RotationNeverForks`, `SurvivorsBounded`, `SessionsBounded`, `GuessesBounded` hold |
| `membership` | By how much are the caps exceeded, and is there an owner after a transfer? | 5 users of whom 1 registers and 1 may come back, 2 requests, 1 admin, 2 members, 1 transfer | `AdminsBounded`, `MembersBounded`, `OwnerAfterTransfer` hold |
| `documents` | Which objects and rows may be left apart, and what does retention take? | 2 matters, 2 documents, 2 requests, 1 retention run, 1 PDF job with 2 attempts, 1 fault | `ObjectsAccounted`, `RetiredHadCause` hold |
| `web_client` | What do answers that cross do to the session and to the list on the screen? | 2 session calls, 2 loads and 2 changes in flight, 2 rows in 2 groups, 11 pages, 4 tokens, 4 acts of users, clocks, other tabs and failures | `LogoutHolds`, `StaysLoggedIn`, `ShowsWhatWasAsked`, `DeletedStaysAway` hold |

Why these are enough.  Signing needs two requests that overlap on one row, an
event in flight and a resend that replaces the provider envelope: a create, a void
and a resend, one handler, two provider envelopes.  A second webhook handler adds only
a second delivery in flight, and the proof covers any number.  `CancelEvents`
holds "canceled" in the concurrent run and `SignerEvents` "all_signed" in the serial
one so that statuses outside the enum occur.  Symmetry is used only there, where only invariants are checked.
Versions needs two inserters of one number and a third transaction that reads
between their commits; two contracts show that locks are per contract.
Payments needs a failed and a succeeded event of one intent in two handlers and
one redelivery after each of two failures; three deliveries leave one that may
succeed.  Subscriptions needs created, paid, past due, paid again and
canceled: four changes.  Subscriptions do not touch each other's rows, so one id
suffices; the proofs cover any number.  Reminders needs a tick that reads what
another has sent but not marked, a failure after which a third run repeats it,
and a move between two calls of a tick: two ticks, two faults, three editions.
Batches of several reminders do not interfere; the proof covers them.
Outbound webhooks needs a job that throws at its second webhook and starts over,
and a worker that lost its lock beside its successor: two webhooks, two workers,
two attempts instead of the five of `DEFAULT_JOB_OPTIONS`.  Jobs share only
webhooks and workers, so one event is enough; the proof covers any number of
each.

Sessions needs two requests that overlap on one session and a revocation between
the steps of either; with a cap of one the bound of `SessionsBounded` is reached
(two logins that both saw the same list), so a smaller bound would be violated.
The lock takes two wrong passwords, because with one no counter is ever deleted late,
and seven guesses leave room for what `GuessesBounded` allows.  The proofs cover any
number of requests, any cap and any number of guesses.  Membership needs one
request that counts while another writes: two requests, a cap of one; a user who
comes back shows that an update by the id of the old row misses.  Documents needs a
request between the calls of the retention run and a failure between object and
row.  The web client needs two answers that cross, for the session and for a list
each, and a change between them; four acts are a login, a logout, a boot or a tab
that signs out and one failure, or a page opened, two changes and a filter.

Deadlock checking is off in every run: a system in which all requests have been
served and all events acknowledged stops, as it may.  `EveryRequestEnds`
checks what deadlock checking would be for.

What is said under restrictions, and what fails without them:

- Nothing is said of lost updates.  PATCH compares `updatedAt` and the status with a
  row it read earlier and updates by id alone (`routes/contracts.ts:159`, `:169`,
  `:181`), so two requests with one timestamp may both win, and a status may move
  as `VALID_STATUS_TRANSITIONS` does not allow.  For the same reason
  `AnnouncedHappened` says that a job names two statuses the contract has had, not
  that it names one step.
- `MirrorsProvider` and `ReceivedCompletionIsSaved` need one handler at a time and
  events in order: an event before its row is answered 200 and forgotten, a late one
  overwrites a newer status, and so does a late "sent" the ending of an envelope.
  `OrphansAccounted` bounds the envelopes whose events are forgotten, in any order.
- `MirrorsStripe` and `CancellationReachesRow` need events in order: `InOrder`
  is TRUE in the run.  Stripe promises no order; out of order a late "updated"
  revives a canceled row.  `EventsFindRow` and `StatusHasCause` need no order: the
  run checks them in order, the theorems cover any.
- `SentIsTold` speaks of reminders that were never moved: one that a tick holds when
  it is moved is marked without being sent.
- `SessionsBounded` tolerates what concurrent logins and refreshes insert;
  `OwnerAfterTransfer` speaks of one transfer at the moment it is made, two that
  cross may leave two owners; `RetiredHadCause` passes for a matter that was due once
  and has been opened again since.
- `StaysLoggedIn` promises the cookie of a calm tab only.  `ShowsWhatWasAsked`
  promises the other pages than documents and search only when they are tidy, and
  `DeletedStaysAway` nothing about an answer the server gave before the deletion.

## Fairness

- A handler that has begun goes on: `WF` on the steps of a request or delivery
  that is not idle.  Node runs every continuation whose promise has settled, and
  a crash is an action of the model, after which the delivery is over.
- A provider delivers an event until it is answered 200: `WF` on deliveries that
  are not acknowledged.  `MaxAttempts` exceeds `MaxFaults` in the runs that check
  liveness, so the bound does not end the retries before the faults end.
- The clock reaches every `dueAt` (`WF` on `Matures`), starts a job when one can
  start and something is due (`WF` on `FindDue`), and a tick in progress goes on or
  fails (`WF` on `TickStep`).
- BullMQ gives a waiting job to a free worker (`WF` on `Take`: the delay of the
  back-off ends) and looks for stalled jobs (`WF` on `Recover`); a worker goes on
  (`WF` on `WorkerStep`: `fetch` has a timeout of ten seconds).
- Nothing obliges users, signers, customers or staff to act: their actions have
  no fairness.

## Proofs

TLAPS checks the theorems for every set of rows, requests and handlers and for
all bounds.  Every safety property that a run checks is a theorem, and so is every
type invariant.  The theorems rest on the named assumptions of the modules
(`SigningAssumption`, `SerialAssumption`, `VersionsAssumption`,
`PaymentsAssumption`, `SubscriptionsAssumption`, `RemindersAssumption`,
`WebhooksAssumption`, `SessionsAssumption`, `MembershipAssumption`,
`DocumentsAssumption`, `WebSessionAssumption`, `ListPagesAssumption`: the markers
are different from the values, the bounds are numbers, the ticks, workers, users,
requests and calls are finitely many), which TLC evaluates in the runs.  Each proof
has one lemma per action, and one step per conjunct that the action can disturb.
The inductive invariants are defined at the end of the modules they are about.  To
check one of them again with TLC, put its name under INVARIANTS in the cfg of the
run; `CapKept` and `GuessesCounted` are the slowest.

- **SigningProofs**, any interleaving: `TypeCorrect`, `KnowledgeKept`,
  `EndingsHaveCause`, `ExecutionEarned`, `AnnouncementsHappened`, `OrphansCounted`.  `TerminalRowHasCause` is not inductive: a
  handler writes what it learned before an `await`.  `KnowledgeSound` says that what
  it learned stays true: provider envelopes do not leave an ending nor change their
  contract (`EventsTrue`), rows are never deleted and know the right provider
  envelope (`RowsTrue`), and each `pc` implies a fact about the provider
  (`RequestTrue`, `HookTrue`).  `OrphansAccounted` is: an envelope comes into the hands
  of the handler that made it, and leaves them for a row or with a failure.
- **SigningProofs**, one handler at a time: `SerialInvariance`, `ProviderMirrored`.
  `MirrorsProvider` speaks of quiet
  states only and says nothing of what is in progress.  `SerialInv` does: the
  provider posts by rank, the last event with the state it is in (`PostedByRank`);
  what is acknowledged is a beginning of that (`AckedByRank`); a row says what its
  last event said and no two rows share a provider envelope (`RowsFollow`); and what
  the handler in progress has read is still so (`RequestCurrent`, `HookCurrent`) -
  which is exactly what fails when handlers overlap.
- **RecordsProofs**, versions: `TypeCorrect`, `Gapless`, `PointerFollows`,
  `Refinement`.  The invariant says that a transaction that has inserted its row has
  the next number of its contract and that no other has inserted one for the same
  contract; `Refinement` maps the commit to an append and every other step to a
  stutter.
- **RecordsProofs**, documents: `DocumentsTypeCorrect`, `ObjectsStayAccounted`,
  `RetirementsHaveCause`.  `ObjectsAccounted` counts orphans but does not say whose
  they are: a failure must turn one that an upload holds into one that it has left.
  `OrphansCharged` charges those that nobody holds to the failures; for
  `RetiredHadCause`, a retention run holds only matters that were due once and
  documents of those (`RunsKnow`), although the matter may have been reopened since
  and a document keeps its matter only as long as it has a row.
- **PaymentsProofs**: `TypeCorrect`, `BooksKept`, `NothingForgotten`,
  `PaidOnceOnly`, `BooksRefine`.  The invariant says that events concern revealed
  intents, that a revealed intent has its row, and that of the handlers that updated an
  invoice one at most has not ended (the row lock).  `BooksRefine` maps the insert of
  an invoice to `Open`, a commit to `Enter`, the insert of a failure to `Strike`, the
  steps of Stripe to `Other`, `Take` and `Refuse`, and the rest to stuttering.
  It needs three more facts (`LedgerInv`): an intent of a subscription never gets a row
  (`ForeignTrue`), nobody pays without the secret (`SecretsTrue`), and `paidAt` and
  the payment follow the invoice's status (`ClosedOnce`).  `PaidOnce` is part of what
  the ledger says and is not checked by a run of its own.
- **SubscriptionsProofs**: `TypeCorrect`, `EventsFound`, `CauseKept`, `MirrorKept`.
  For the first three the invariant says that a secret is out only when the row is
  there (`SecretsHaveRows`); order of events plays no part.  `MirrorKept` needs
  order, and `OrderKept`: the latest events of a subscription agree on what it has
  come to (`PostedInOrder`), the acknowledged ones are a beginning of them that left
  its mark (`AckedInOrder`), and a request writes "trialing" before any event that
  says more could be posted (`SavedFirst`).
- **RemindersProofs**: `TypeCorrect`, `DuplicatesFew`, `SentMeansTold`.
  `DuplicatesBounded` is not inductive: a tick that is about to insert will add to
  the count.  `Accounted` charges it in advance: for each occurrence, the
  notifications there are and the ticks that hold it are together no more than
  ticks and faults, and as long as it is unsent each notification is owed to a tick
  that is about to mark it or to a fault.  A new edition starts at zero because no
  tick can know it yet (`NoFuture`).
- **OutboundWebhooksProofs**: `TypeCorrect`, `AtMostAttempts`, `SuccessReceived`,
  `CompletedAttempted`.  `DeliveriesBounded` is not inductive: it does not know who
  may still post.  A job is taken once for each attempt made, each stall and the
  run it is in (`Runs`), and every run posts to a webhook at most once, so requests
  received and runs that may still post are together at most `Runs`
  (`Accounted`); `Limits` bounds that.  `Truthful` charges in the same way the
  successes that are about to be recorded, and `Owing` says of each run which
  webhooks it has read, still has to do or has recorded.
- **SessionsProofs**, the server: `TypeCorrect`, `RotationsNeverFork`,
  `SurvivorsStayBounded`, `SessionsStayBounded`, `GuessesStayBounded`.
  `SurvivorsBounded` is not inductive: a login that has compared the old password
  will insert a session, and a rotation that has found a row will, even if that row
  is revoked meanwhile.  `SurvivorsCounted` counts them in advance: rows from before
  the last revocation that are live or have been found, and logins in progress from
  before it, are together no more than the other requests.  `CapKept` follows one
  login: what it listed is all there was then, and what it has not trimmed of that
  is less than the cap; every live row beyond was inserted since.  `GuessesCounted`
  gives each late deletion of the counter to the request that will make it, and says
  that once the lock is set only those who have passed the check may guess.
- **SessionsProofs**, the browser: `WebTypeCorrect`, `LogoutsHold`, `StayingLoggedIn`,
  `ShownAsAsked`, `DeletionsStay`.  `SessionInv` says that nothing that could bring a
  token is on its way to a tab that was signed out (`SignedOutQuiet`); that a calm tab
  has at most one call that changes its session, neither lost nor aborted, and that
  the session this call will bring is live (`CalmCalls`, `CalmCookie`); and that a
  session made meanwhile is of no call in flight, because its number is new
  (`NumbersKnown`).  `PageInv` says that what is on its way to a tidy page, or to one that
  switches, is for the filter it asked for last (`LoadsAsked`); that the id of a row being created
  belongs to its creation alone (`CreatesTrue`); that documents and comments stay with
  their matter in the answers on their way too (`GroupsKept`); and that a dropped row is
  gone at the server and in no answer in flight (`DroppedGone`).  The two
  touch only where a page's call is refused, so each is preserved by `WebNext` without
  the other.
- **MembershipProofs**: `TypeCorrect`, `AdminsStayBounded`, `MembersStayBounded`,
  `TransferLeavesOwner`.  The bounds become inductive with what is about to be
  written: admins and promotions that have passed the count (`AdminsCounted`),
  members and inserts that have passed the limit (`MembersCounted`).  A request
  passes the count only below the cap, and then there are at most
  `Requests - 1` others past it.

Only model-checked: liveness (`ReceivedCompletionIsSaved`, `EveryRequestEnds`,
`SuccessIsEntered`, `CancellationReachesRow`, `DueIsTold`, `JobEnds`), which TLAPS
cannot prove under fairness.

## What the models found

*A payment that is taken and never booked* (`payments_retried`).  A FAILED
payment row occupies the unique `stripePaymentId`; the success of the same
intent is rolled back on every delivery (`routes/billing.ts:261`).

Seen while proving.  Two bounds that had held on small instances are false in
general; the properties now state what is true, and the theorems prove it.

- The cap on sessions is not a cap.  A login lists the sessions, trims the oldest by
  their ids and inserts its own (`lib/session.ts:30-40`); refreshes between the list and
  the trim replace each listed row by a new one, so that the trim deletes nothing.
  Each round can leave one session more, without limit.  `SessionsBounded` counts what
  was inserted since the list.
- The lock after `MAX_ATTEMPTS` wrong passwords may come later.  A request that set
  the lock deletes the counter in a call of its own, and a right login deletes counter
  and lock in two (`lib/login-guard.ts:43`, `:66-67`); a deletion that is late, or one
  that never comes, lets another `MAX_ATTEMPTS - 1` guesses pass.  `GuessesBounded`
  counts these.

Seen while modelling, without a run.  On the server:

- `docs/e-signatures.md:97` calls the signature webhook unauthenticated;
  `server.ts:139` mounts `protect` on a prefix of its path first, so providers get
  401 and no completion reaches its row (`guarded` TRUE).  That nothing is promised of a
  delivery that is refused is why `ReceivedCompletionIsSaved` begins at the handler.
- HelloSign's `all_signed` is not a key of `STATUS_MAP` (`routes/signatures.ts:23-34`) and
  becomes ALL_SIGNED, which the enum lacks: each delivery is answered 500 and the row
  never says COMPLETED.
- A resend leaves the envelope it replaces at the provider, where it may still be signed;
  its events then find no row and are answered 200 (`routes/signatures.ts:209-224`, `:281`).
- The error of the write that sets a contract EXECUTED is swallowed and the event
  answered 200 (`routes/signatures.ts:299-303`), against
  `PRODUCTION_ROADMAP.md:120`.
- A late "sent" event sets a VOIDED row back to SENT (`routes/signatures.ts:286-297`);
  the life cycle in `docs/e-signatures.md:42-46` has no such arrow.
- Retention gives documents that were deleted since it listed them a later date
  (`queues/cleanup.worker.ts:55-58`).
- A reminder that is moved while a tick has it is marked as sent
  (`lib/reminder-scheduler.ts:45`), against the reset that
  `__tests__/integration/reminders.integration.test.ts:250` asks for.
- `PRODUCTION_ROADMAP.md:300` says that failed webhooks are retried with back-off
  up to five times, but `deliverWebhook` catches the failed `fetch`
  (`services/webhook.service.ts:30`), records it and returns, so only failures of the
  database are retried; `docs/ARCHITECTURE.md:196` ("delivery is best-effort") is
  nearer to the code.  `routes/webhooks.ts:6-11` lets a webhook subscribe to events
  that nothing enqueues.
- Two POST `/subscribe` at a time make two customers and two subscriptions
  (`routes/billing.ts:145`).
- Nothing puts jobs in the clean-up and PDF queues; `checkStorageLimit` is called by
  nothing; deleting a matter leaves its documents, an upload does not look at the
  status of its matter, and retention finds deleted matters too
  (`queues/cleanup.worker.ts:31`).
- Without Redis the login guard keeps its counters in memory; the timer of an
  earlier attempt deletes the entry together with a lock set since
  (`lib/login-guard.ts:58`).  This fall-back is not modelled.

In the browser:

- `logout()` drops the token before it posts (`auth.service.ts:132-141`), so the call
  has no Authorization header and the server blacklists nothing, against
  `docs/ARCHITECTURE.md:71` and `docs/security.md:30`.
- `verifyEmail` gives a token without a session: the tab cannot refresh it
  (`StaysLoggedIn` is stated for calm tabs only).
- A logout answered after a login clears the cookie of the login; two tabs that
  refresh at once get a 401 for one of them, which signs that tab out and deletes
  the session of the other.
- A token that expires within a minute is refreshed at once, by a call nothing can
  abort (`auth.service.ts:241-244`).  A sign-out while it is in flight drops the token,
  and its answer brings one back; `LogoutHolds` excepts it.  A browser whose clock is 14
  minutes ahead finds every token about to expire and refreshes without a pause.
- `atob` (`auth.service.ts:238`) reads base64, but a token is base64url: one with a `-`
  or `_` in its payload, which carries names, throws, and the tab is signed out by the
  login that brought it (`:248-251`).
- The refresh at boot is asked for while `AuthService` is constructed, and both
  interceptors inject `AuthService`: Angular refuses the circle, `silentRefresh` swallows
  the error (`auth.service.ts:223`), and it seems that no refresh is sent.  `Boot` allows
  both.  Where it is sent, its 401 leaves public pages for `/login`.
- Lists other than documents and search show whichever answer comes last
  (`tidy` in `ShowsWhatWasAsked`), and a list read before a deletion brings the row back
  when it is answered after it; comments load twice when they open, and keep the rows of
  the matter before when a load fails; an upload answered after another matter was
  selected is shown under it; an error of a search ends its subscription; the error
  of a matter's page is not cleared by the next matter.
- The tab of API keys reads `res.data` and `res.rawKey` where the server answers
  `keys` and `key`; `saveRetention` saves nothing.

## Not modelled

- Read-only queries (search, analytics, audit list, health), which change nothing;
  mail, audit entries, sanitizing and logging, which nothing reads back; API keys
  and share links, one-row operations whose expiry is a comparison at use; headers,
  rate limits and shutdown.
- The event streams and the stream of notifications in the browser; the daily
  nudge, the text of notifications and marking them as read; the dead letters of
  the mail worker; the browser that PDF jobs of a process share, which a failed
  job launches anew.
- The pages that ask once and keep nothing (dashboard, analytics, billing,
  onboarding, contract detail), forms and their validation, sorting and pagination
  inside a list; profiles, avatars and the export of personal data; clauses.
- In the modelled parts: recipients and metadata of envelopes, titles and content
  of contracts, amounts and currencies, tiers, trial ends and periods of
  subscriptions, the trial row of registration (no handler ever changes it), the
  mail on a failed payment, the in-memory fall-back of the login guard.

## Plan

What is left, in this order:

1. Signing's `announced` jobs as the input of OutboundWebhooks: the composition
   follows a status change to the subscriber.
2. The event streams: a notification that is inserted between the first page and
   the opening of the stream, against the unread counter of the browser.
