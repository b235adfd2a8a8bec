# A TLA+ model of PayGateway

PayGateway (`src/src/paygateway`) is a FastAPI service between merchants' backends
and Stripe. It keeps `payments`, `refunds`, `webhook_events` and `audit_log` in
PostgreSQL, calls Stripe when a client asks for something, and follows Stripe by its
webhooks. This directory models what is hard about that: several requests and
several webhook deliveries, each with a session of its own, act at the same time on
one row and one Stripe object, with nothing locked across the call to Stripe. Around
that it models what every request passes first (rate limit, pool, credentials), the
reconciliation that compares the table with Stripe while both move, and the loop of
background jobs.

Paths below are relative to `src/src/paygateway` unless they start with `src/`.

## 1. Inventory

| Component | State | Operations | Talks to |
|---|---|---|---|
| Payment service (`services/payment_service.py`, `routes/payments.py`) | rows of `payments` | `create_payment`, `confirm_payment`, `cancel_payment`; reads | Stripe provider, session, audit log |
| Refund service (`services/refund_service.py`, `routes/refunds.py`) | rows of `refunds` | `create_refund`; reads | payment service (`get_payment`, `compute_refunded_amount`), Stripe provider |
| Webhook service (`services/webhook_service.py`, `routes/webhooks.py`) | rows of `webhook_events`; writes `payments`, `refunds` | `process_webhook`: look up, insert, dispatch to seven handlers, mark processed | the tables the other two services write |
| Stripe provider (`providers/`) | none; Stripe's own objects, saved answers and events behind it | create, confirm, cancel, refund, verify webhook; retrieve, list | Stripe |
| Database session (`db/session.py`, `models/`) | transactions, row locks, connections | open, flush, commit, roll back | every service, through `Depends(get_db)` |
| Audit log (`services/audit_service.py`) | rows of `audit_log`, append-only | `log_action` | the caller's transaction |
| Authentication (`middleware/authentication.py`, `models/api_key.py`) | `api_keys`, of which it writes `last_used_at` | authenticate by key or JWT, check a role | the request's session; the operator who issues and revokes keys in SQL |
| Reconciliation (`services/reconciliation_service.py`, `jobs/reconciliation.py`) | `reconciliation_reports` | compare a range of payments with Stripe's listing | Stripe provider, `payments` |
| Rate limiter (`middleware/rate_limiting.py`) | times of past requests, per key | `is_rate_limited` | every request |
| Scheduler and jobs (`jobs/`, `main.py`) | `last_run` of each job | one loop over the jobs, once a minute | reconciliation, retention |
| Idempotency store (`services/idempotency_service.py`) | `idempotency_records` | check, store, clean up | nothing: no route calls it |
| Health, info, correlation ids, configuration, schemas | none | | |

What is hard about each, and what makes it correct:

* **Payments.** `confirm_payment` and `cancel_payment` load the row, call Stripe and
  write what Stripe said, whatever has been committed since. A retry with the same
  key gets Stripe's saved answer, which may be older than the row. Correct means: no
  row claims that money was taken, or that an intent was given up, when at Stripe it
  was not; no timestamp is lost or unaudited.
* **Creation.** The intent exists at Stripe before its row does, the process may die
  in between, and two requests with one key may both be there. Correct means: the
  intent is never beyond the reach of a retry, and never has two rows.
* **Refunds.** The amount is checked against rows that miss concurrent and pending
  refunds. Correct means: the rows are Stripe's refunds, each once, and never exceed
  the payment.
* **Webhooks.** Events arrive late, twice, concurrently and out of order; a handler
  may fail, the process may die, the answer may be lost. Correct means: one effect
  per event, no acknowledged event unprocessed, and every event settled in the end.
* **Sessions.** `get_db` commits after its `yield`. Before FastAPI 0.118 that is before
  the response, since then after it, and `pyproject.toml` allows both
  (`fastapi>=0.115.0`).
* **Reconciliation.** The rows of a range are read first, Stripe's listing follows page
  by page while payments are created, and the two clocks differ. Correct means: nothing
  is blamed on Stripe but what lies at the edge of the range, everything a crash left at
  Stripe is found, no payment is counted as matched that is not, and a run ends.
* **Rate limiter.** Refused requests count too, and one list of times serves paths of
  different limits. Correct means: no window, wherever it begins, holds more than the
  limit; nobody is refused without the traffic that explains it.
* **Authentication.** A key is looked up by eight characters and its row is written
  later, under a lock that lasts until the session ends; keys end while requests are in
  progress, and the pool is smaller than the number of requests. Correct means: an ended
  key serves nothing, a valid one is refused only beside another of its prefix, and
  requests that wait for a connection and for a row never wait in a circle.
* **Scheduler and jobs.** One loop; a job that fails runs again at the next pass, a slow
  one delays the others, the daily job takes "yesterday" from the clock. Correct means:
  no job starves, no two days in a row go without an attempt at their report, and the row
  that makes a redelivery harmless is there as long as the event may come.

`PROJECT.json` lists the hazards line by line, with the properties that cover each.

## 2. Modules

```
PaymentStatus   Identifiers   Totals           the vocabulary, and sums
      \         /        \    /
       Database           Stripe               committed rows | the provider
             \           /
            RequestSession   WebhookService    a request | a delivery
             /        \            |
  PaymentService  RefundService    |
             \         |          /
                  PayGateway  <----------------  Reconciliation, Discrepancies
              /       |       \                 (a run over the moving gateway)
   Expectations  Invariants  Refinements ---->  PaymentLedger, EventLedger
              \       |       /                 (what merchants and Stripe rely on)
                 MCPayGateway

  RateLimiter <- Admission                      in front of every handler
  Scheduler   <- Maintenance                    the background jobs

  Totals_proofs <- Steps_proofs <- PayGateway_proofs
     <- Records_proofs, Events_proofs, Reconciliation_proofs
  Admission_proofs, Maintenance_proofs          of their own
```

* **PaymentStatus** has the status maps of `stripe_provider.py`, the transition table
  of `webhook_service.py` and the status sets of the two services. Each of Stripe's
  intent states is in its map; of its refund states `requires_action` is not, and is
  stored as it is (`RefundStatusOf`).
* **Totals** is the sum of a function to the natural numbers, as the number of its units:
  `compute_refunded_amount`, and Stripe's own total of a charge. `TotalsAreSums` in
  `MCPayGateway` compares it with the fold of the community modules.
* **Database** keeps the committed rows. A table with a unique `idempotency_key` is a
  function of that key. Timestamps and failure details are "set or NULL".
  `Flush(k, loaded, new)` is SQLAlchemy's UPDATE: it writes the columns that differ
  from what the session loaded, and leaves the others as they are in the table.
  A transaction's reads are separate steps (READ COMMITTED); its flush and commit are
  one, except when the response comes between them, where `locks` holds the row lock.
* **Stripe** is external and modelled from how the provider uses it: intents with two
  final states, one saved answer per idempotency key (errors too), refunds within the
  charge, and an event for every change. Customers, banks and dashboards move intents
  at any time.
* **RequestSession** is a request and its session: authentication and the `api_keys`
  row lock, the provider's answer, the conflict in the INSERT, the commit and the
  rollback. A handler is cut where it awaits: `loaded` after its reads and checks,
  `called` after the provider answered, then the commit. `Rollback` may happen
  anywhere between: it is the crash, the failed statement and the lost connection.
* **PaymentService**, **RefundService**: `X`, `XChecks`, `XCall`, `XCommit` are the
  parts of handler `X`.
* **WebhookService** is a delivery: `Deliver` (the lookup), `StoreEvent` (the INSERT,
  which blocks behind an uncommitted one and fails behind a committed one),
  `FindPayment`, `LoadRefunds`, one `Handle...` per handler, the answer. `HandlerRaises`
  and `Drop` are its failures.
* **PayGateway** composes them over the shared variables: a request steps, a delivery
  steps, or Stripe does. It states the properties.
* **PaymentLedger** and **EventLedger** are abstract: they model no code but what the
  gateway promises. To a merchant, a payment is a record that belongs to one intent for
  good, claims only what has become of it, and keeps its dates. To Stripe, an event is
  applied once, with all of its effects, and acknowledged after that; there are no
  deliveries, sessions or crashes in it. **Refinements** maps the gateway's variables to
  theirs. A status may be withdrawn by an older answer, and the ledger says so.
* **Discrepancies** has the comparison of `run_reconciliation` as operators on its two
  maps; **Reconciliation** runs it over `PayGateway` with a clock: `StartRun` reads the
  rows of a range, `ListPage` and `ListLastPage` fetch Stripe's listing, newest first,
  with `starting_after` as a cursor, `StoreReport` compares and commits. The database has
  fractions of seconds (`created_at`, taken when the row is constructed), Stripe whole
  ones. `FailRun` is any exception; the report it would have stored is rolled back.
* **RateLimiter** is `is_rate_limited` over a clock of ticks; **Admission** puts it before
  the pool of connections, `get_current_user` and `require_role`, with an operator who
  issues, dates and revokes keys at any time. The handler is one step there (`Serve`);
  `RequestSession` knows only the row lock, which is what the handlers meet of it.
* **Scheduler** is the loop: `CheckJob` compares `last_run` with the pass's own time, the
  job takes its time, completes or raises, and the next one follows. The process may end
  at any point of the loop (`ProcessEnds`), is down for up to `MaxDown` ticks and starts
  with no `last_run` (`Restart`). Times are ages, so that behaviours have no end.
  **Maintenance** adds what its jobs do: the daily
  reconciliation's choice of a day, and the deletion of old webhook events while Stripe
  delivers them. `open` has the days whose report nobody tried to make: `Reconciles` takes
  the day out of it when the report is committed, and also when a `ReconciliationError` is
  swallowed, because the code does not tell the two apart either.
* **Expectations** states what documents and tests say and the code does not do.
* **Invariants** has the inductive invariant; the `_proofs` modules use it.

Definitions marked "Wrong:" are plausible mistakes in the definition they stand
before. Nothing uses them; `PROJECT.json` names the property that detects each.

## 3. Runs

Each passing run takes one to two minutes on two workers, or less.

| Run | Bounds | Shows |
|---|---|---|
| `payments` | 3 requests of create, confirm, cancel; 2 keys; 1 intent; 3 events of 4 types, 1 worker | `StatusSound`, `TimestampsAudited`, `TimestampsStay`, the inductive `Inv` and `ImplementsPaymentLedger` under stale rows, replays and reordered events |
| `creation` | 3 requests; 2 keys; 2 intents; 2 amounts; an API key and a JWT | `CreationsRecoverable`, `CreatedIsStored`, `CollisionsAcrossCredentials` under crashes and retries, and the invariant `CreationsInv` behind the last |
| `refunds` | 1 payment of 1 or 2; 2 refund requests; 2 refunds; 3 events | `RefundRowsBacked`, `RefundsWithinAmount`, `RefundStatusSound`, and the inductive invariants behind them, `RecordsInv` and `TotalsInv` |
| `webhooks` | 3 events of 3 types; 2 workers; 2 failures or repeats after a 2xx; fairness | `EventAppliedOnce`, `AckedIsProcessed`, `ImplementsEventLedger` and, under fairness, `EventsSettle` |
| `early_response` | the commit after the response; 2 requests, 2 workers, 2 events, 1 failure | `StatusSound` and `EventAppliedOnce` do not depend on the commit's place |
| `reconciliation` | 2 creations, 2 intents, pages of 1; a clock of 4 ticks, 2 to the second; 3 ranges; fairness | `MissingProviderIsBoundary`, `LostCreationsReported`, `MatchedNeverOverstated` and, under fairness, `ReconciliationEnds` |
| `admission` | 3 requests; 2 keys of one prefix and callers without one; limits 1 and 2; a window of 2 ticks; a pool of 2 | `AdmittedWithinLimit`, `RefusedByTraffic`, `EndedKeysStayOut`, `ValidKeysAccepted`, `NoGridlock` |
| `maintenance` | 2 jobs; interval and day of 10 ticks; passes of up to 2 ticks; 1 failure in a row; 1 restart, after up to 1 tick; retention and redelivery of 2 ticks; fairness | `NoTwoDaysSkipped`, `AppliedOnceForGood` and, under fairness, `EveryJobRuns` |

Why the bounds are enough: the races are between two writers of one row that each
loaded it earlier, so one payment, a creation and two more requests or deliveries show
all of them; a third event gives a history in which the second is out of order. Two
keys are what a repeat and a different call need. Two refunds are the least whose sum
can exceed a payment, and amounts 1 and 2 tell "part" from "all". Two workers are two
deliveries of one event, and two failures let each of them fail, or the same event
twice. (`MaxFaults` also bounds the deliveries Stripe makes though it has a 2xx.) `MaxEvents`
caps what Stripe emits, and a step of Stripe that would emit more does not happen;
`Requests` caps the requests, each used once. Symmetry is over interchangeable names only,
and not used where liveness is checked.

Two intents and pages of one give a listing with a page behind the cursor, and two ticks
to a second let a payment be made in the range's second and stored outside it. Three
requests exceed either limit and outnumber the pool; two keys of one prefix are the case
that every deployment with two keys has. In `maintenance` a day is ten ticks: a pass that
takes two of them, a failure, a restart and the tick before it push the daily run past
midnight. That `NoTwoDaysSkipped` holds means: as long as the interval, late passes,
failures, restarts and the time without a process together stay within two days, of no
more than one day in a row nobody tries to make the report; with more (a process that is
down or a job that raises for a whole day) of more days. An attempt is what it says: that
the report is made too, the code does not ensure (`jobs/reconciliation.py:35`, below). The
theorem has the exact budget, `DaysAreLong` (section 6), and the run spends all of it.

The runs do not check deadlock: when the requests are used up and no event is left,
nothing has to happen, and that is where the system may rest. In `admission`, where
waiting on one another is the question, `NoGridlock` asks it.

Four more runs find the behaviour in which a document's sentence fails. Each is a
finding in `PROJECT.json`, with the sentence and the line of the code:

| Run | What happens |
|---|---|
| `bad_transition` | two deliveries load the same row; the second to commit applies a transition the table forbids |
| `capture_lost` | a declined attempt makes the payment `failed`; the next attempt's `succeeded` event is dropped |
| `full_refund_not_shown` | `charge.refunded` is processed before the refund's row is there: `partially_refunded` stays |
| `retried_confirm` | a retried confirmation writes an old answer over newer events |

Other sentences fail in every execution, or by the code's shape, so that a run would
add nothing to reading the line:

* `src/tests/e2e/test_refund_flow.py:137` ("charge.refunded webhook must transition the
  matching Refund to status=succeeded"): in that event the handler is given the charge's
  id (`providers/stripe_provider.py:243`), and `charge.refund.updated`
  (`src/docs/webhooks.md:75`) has no handler. A refund created pending stays pending.
* `src/specs/payment-gateway-core/webhook-flow.md:110` ("store the error in
  `processing_error`"): the exception that sets it rolls it back
  (`services/webhook_service.py:61-63`, `db/session.py:50`).
* `src/specs/payment-gateway-core/spec.md:66` ("Return non-200 for events that fail
  processing"): not when the commit that follows the response fails.
* `spec.md:71` ("Mismatched request body with same key returns 422 error") and
  `spec.md:73` ("Concurrent duplicate requests handled via database locking"):
  `create_payment` compares no body and locks no row; the loser of two concurrent
  creations meets the unique index and answers 500.
* `src/system-vision.md:399` ("Every payment-related mutation is logged"): the handlers of
  `processing` and `requires_action` write no audit row.
* `src/specs/payment-gateway-core/reconciliation.md:29` ("Match: count as matched"):
  `matched_count` is the smaller total less all discrepancies
  (`services/reconciliation_service.py:114`), so that a payment which is missing on one
  side lowers the count of the others. It is never too high, which is `MatchedNeverOverstated`.
* `reconciliation.md:94` ("Status consistent? If not → `status_mismatch`"): no status is
  compared. `capture_lost`, above, is a difference that no report would show.
* `reconciliation.md:119` ("Status: `completed` or `failed`"): a failed report is rolled
  back by the exception that follows it.
* `reconciliation.md:61` ("Daily at 02:00 UTC"): the job runs a day after it last ran
  (`jobs/scheduler.py:52`), first when the process starts.
* `src/specs/payment-gateway-core/tasks.md:376` ("Trigger reconciliation for previous
  day"): a run that is due before midnight and begins after it takes the next day, and
  for the one between nobody tries. It is one such day in a row at most
  (`NoTwoDaysSkipped`).
* `jobs/reconciliation.py:35-36` logs a `ReconciliationError` and returns, so that the
  scheduler sets `last_run` and the next run is a day later, for the next day. The report
  of the day that failed is never made, in every execution, and as many days in a row
  have none as the daily run fails in this way (Stripe's listing cannot be read, say).
  `NoTwoDaysSkipped` counts such a day as attempted and does not exclude this.
* `src/docs/authentication.md:20-21`: a key is `pgw_test_…`, and its first eight characters
  `pgw_test` are what it is looked up by. So are those of every other key of that
  environment: with two active rows `scalar_one_or_none` raises, and every request of both
  answers 500. That includes the rotation of
  `src/specs/payment-gateway-core/security.md:220` ("old key deactivated after grace
  period"), and an expired key, whose `is_active` stays true. `ValidKeysAccepted` says
  when a valid key is accepted.
* `src/docs/security.md:55` ("enforced per API key"): the limiter's key is the same eight
  characters, so one bucket serves all keys of an environment. The paths share it too,
  each with its own limit; and a payment's status has the 30 of `/api/v1/payments`, not the
  120 of `src/specs/payment-gateway-core/api-contract.md:450`.

## 4. Fairness

`EventsSettle` is checked under `FairSpec`. Weak fairness of `WebhookServiceStep(w)`: a
delivery in progress is a coroutine that the event loop resumes when its await is done,
so a step that stays possible is taken. Weak fairness of delivering each event: Stripe
retries what it has no 2xx for, for days, which is longer than any behaviour here;
repeats after a 2xx are possible and never fair. No
fairness is assumed of clients, customers, banks, refunds or failures; `MaxFaults` says
that failures end.

`ReconciliationEnds` is checked under `FairReconSpec`: weak fairness of the run's own steps,
a coroutine again whose calls are answered or fail. Payments that are created meanwhile
need no fairness and cannot keep it from ending, because the cursor only goes back in time.

`EveryJobRuns` is checked under `MaintenanceSpec`: time passes, the loop goes on, and a
process that ended is started again: whoever runs the service wants it up, and
`MaxRestarts` says that processes do not end for ever. A job may fail every time, if not
the daily one more than `MaxFailed` times in a row.

`NoGridlock` is an invariant, not a liveness property: somebody can always go on by a step
of the ordinary course, without a failure or a timeout. Who gets the next connection is not
promised by the code, so no fairness among requests is assumed. The steps that count are
those whose guards are in `MayAdvance`, each the guard of the action of its name.

## 5. What is assumed of Stripe and of PostgreSQL

* `succeeded` and `canceled` are final for an intent, and a succeeded refund stays so.
* A key's answer is kept for the whole behaviour. Stripe keeps it for 24 hours or more:
  a retry after that is not modelled.
* The saved answer may be an error, and a key used for another call is refused.
* Refunds that have neither failed nor been canceled never exceed the charge. They settle
  from `pending` or `requires_action`.
* A customer acts on an intent only with the `client_secret` of an answer to its
  creation.
* In events of a charge, the charge goes by its intent's name: `verify_webhook` uses
  both ids and never compares them. Names of intents and of refunds differ.
* A listing is sorted by creation, newest first, and `starting_after` continues it: what is
  created meanwhile is newer than the cursor.
* An event is not delivered later than `Resend` after it was made, and `WEBHOOK_RETENTION_DAYS`
  is at least that: Stripe retries for days, the code keeps the rows for 90.
* READ COMMITTED: a statement sees what was committed before it, an UPDATE or a
  conflicting INSERT waits for the transaction that holds the row. Clocks of the gateway
  and of Stripe agree, up to Stripe's whole seconds.

## 6. Proofs

The theorems hold for all values of the constants that satisfy the assumptions stated with
them: names of different kinds differ, keys and refund ids are finitely many (columns of
255 characters hold them), amounts, limits and pages are positive, the bounds are numbers.
The sets of requests, workers, keys, intents and refunds, the number of events, the
operations, the outcomes and the commit order are arbitrary.

| Module | Theorem | States for every instance |
|---|---|---|
| `PayGateway_proofs` | `Inductive`, `TypeCorrect`, `StatusCorrect` | `[]Inv`, `[]TypeOK`, `[]StatusSound` |
| | `TimestampsNeverLost`, `TimestampsLogged` | `TimestampsStay`, `[]TimestampsAudited` |
| | `GatewayKeepsLedger` | `ImplementsPaymentLedger` |
| `Records_proofs` | `RecordsKept`, `CreationsAreRecoverable`, `RefundRowsAreBacked` | `[]RecordsInv`, `[]CreationsRecoverable`, `[]RefundRowsBacked` |
| | `TotalsFit`, `RefundsFit`, `RefundStatusesSound` | `[]TotalsInv`, `[]RefundsWithinAmount`, `[]RefundStatusSound` |
| | `CreationsKept`, `CollisionsAreAcross` | `[]CreationsInv`, `[]CollisionsAcrossCredentials` |
| | `CreatedStored` | `[]CreatedIsStored`, if the commit precedes the response |
| `Events_proofs` | `EventsAppliedOnce` | `[]EventAppliedOnce`, for either commit order |
| | `AcksFollowCommits`, `GatewayKeepsEvents` | `[]AckedIsProcessed`, `ImplementsEventLedger`, if the commit precedes the response |
| `Reconciliation_proofs` | `MatchedSound`, `MissingIsBoundary`, `LostCreationsFound` | `[]MatchedNeverOverstated`, `[]MissingProviderIsBoundary`, `[]LostCreationsReported` |
| `Admission_proofs` | `AdmissionTypeCorrect`, `LimitsHold`, `RefusalsEarned` | `[]AdmissionTypeOK`, `[]AdmittedWithinLimit`, `[]RefusedByTraffic` |
| | `EndedKeysServeNothing`, `LoneKeysAccepted` | `EndedKeysStayOut`, `ValidKeysAccepted` |
| | `SomebodyGoesOn` | `[]NoGridlock` |
| `Maintenance_proofs` | `AppliedOnce` | `[]AppliedOnceForGood`, if `Resend <= Retention` |
| | `MaintenanceTypeCorrect` | `[]MaintenanceTypeOK`, if `MaxPass <= Day` and `Resend <= Retention` |
| | `DaysReported` | `[]NoTwoDaysSkipped`, if `DaysAreLong` and `Resend <= Retention` |

None of the invariants is inductive as the runs state it. What is added, and why:

* **`Inv`** (`Invariants`; `Steps_proofs`). A
  request about to commit might hold an answer that was never so. `Inv` says why it cannot:
  whatever a session may still write is as sound as the rows, the row it loaded
  (`LoadedSound`), the answer it got (`AnswerSound`), the answers Stripe may replay
  (`SavedSound`), the events it may deliver (`EventsSound`), the refunds behind a
  `charge.refunded` (`ChargesSound`). All are claims about an intent's past, and "it
  succeeded" or "it was canceled" cannot become false. `Evolves` states that (an intent
  keeps existing, captured, abandoned; a row keeps its `external_id`), and soundness of
  rows, answers and events survives every such step.
* **Timestamps.** No handler changes a timestamp from set to NULL, and a flush leaves the
  columns alone that its handler did not change; a handler that sets one logs it in the
  same step, and the log only grows.
* **The payment ledger.** Every step changes one row or one intent at most:
  `InsertsRow`, `OverwritesRow` (which keeps `external_id` and amount) or `MovesIntent`
  (from a state that is not final). The first two are the ledger's `Write`, the third its
  `Proceed`.
* **`RecordsInv`**: an object of Stripe's and the row of it go by one idempotency key. Each
  intent and each recorded refund is the saved answer of exactly one key (`IntentsOfKeys`,
  `RefundsOfKeys`), a request holds its key's saved answer (`RequestOfKey`), a row was made
  of it (`RowsOfKeys`). No delivery finds the refund of its event (`NoRefundFound`), as the
  event names the charge (`ChargesNamed`), which is why a refund's row never changes.
* **`TotalsInv`** (with `RecordsInv`): Stripe never promises more than the charge
  (`ChargesCovered`). The succeeded refund rows of a payment are different settled refunds of
  its intent, so their sum is no larger (`RowsAreSettled`); that is `RefundsWithinAmount`.
  What is settled only grows: a total that a delivery reads is a lower bound of it for good
  (`RowTotalled`), whatever is committed before the delivery writes `refunded`, and only
  `_handle_charge_refunded` writes that or `partially_refunded`. That an event of a refund
  has one behind it is `RefundsAnnounced`.
* **`CreationsInv`**: live sessions of one API key do not exist (`SessionsApart`), a logged
  creation is committed and its request over (`CreationsLogged`); so a creation that is
  still under way has found no row, and whoever commits one meanwhile has other credentials.
* **`OnceInv`** (`Events_proofs`): at most one delivery of an event is between its INSERT
  and its end, there is no committed row as long as it is, and a row and the effect appear
  in one step. With that every step of a delivery is a step of the event ledger or none.
* **`ReconInv`** (`Reconciliation_proofs`): the snapshot is of rows whose intents were
  listed by then (`known`), and the listing has everything of the range that the cursor
  has passed. The bound on `matched_count` is a count of the set of payments with a
  discrepancy.
* **`AdmissionInv`** (`Admission_proofs`): the times in a list are those of the requests of
  its key within the window of the last one; of several requests in a window the last that
  was let through had all others before it, so that they are within its limit. `KeysInv`
  ties what each session has seen of its key to `held` and `sole`. For `NoGridlock`: a
  request waits for a connection only if the pool has holders, and for a row only if another
  one has written it, which is then `working` and waits for nothing.
* **`RowGuards`** (`Maintenance_proofs`): while an event may come, its row is there if and
  only if its handler ran, and is no older than the event; so a row old enough to be
  deleted belongs to an event that comes no more.
* **`LateInv`** (`Maintenance_proofs`). A restart forgets `last_run`, so the time since the
  last run is not in the state. It is in the days that are open: `Unreported(n)` reads from
  them that it is `n` ticks or more since a successful daily run began. `Wait` is what the
  loop can have spent of it: an interval, a period of the loop for the pass under way and
  for each failed run, a pass and the time without a process for each restart.
  `DaysAreLong` says that this ends within two
  days. It is tight: the run meets it with equality, and with one more of `MaxPass`,
  `MaxFailed`, `MaxRestarts`, `MaxDown`, `MaxLate`, `SleepTicks` or `Interval` TLC finds two
  days skipped.
* **Types of the jobs** (`BegunBefore`): a job that began before midnight is still in the pass
  that began then, which is no longer than a day, so that no run reconciles a day older than
  the one before yesterday.

`RequestsAreNoEvents` (requests and events have different names) is used where the log must
tell who wrote an entry. `CommitBeforeResponse` is a hypothesis of three theorems, because
they are false without it: `early_response` checks what remains. `Resend <= Retention` is
section 5's assumption about Stripe's retries.

What a fold returns for any number of rows takes an induction over data, which is beyond
the prover. `Totals` counts units instead, so that the facts the proofs need (a sum over
more or of larger amounts is no less, a new amount adds itself: `Totals_proofs`) are facts
about cardinalities and injections.

Every invariant and every action property of the passing runs is proved. Only model-checked
are the liveness properties `EventsSettle`, `ReconciliationEnds` and `EveryJobRuns`: liveness
under fairness is beyond the prover. The four sentences of `Expectations` are refuted by TLC,
on the behaviours it finds.

## 7. Not modelled

* Reads (`GET` routes, listings, health): they change nothing.
* Validation of bodies and signatures, and what is in a JWT: they refuse a request before
  it reads anything that the properties are about.
* `currency`, `metadata`, descriptions, messages, addresses: copied and never consulted.
  Currencies are compared by reconciliation; every payment of the model has the same one.
* The idempotency store (`services/idempotency_service.py`): no route, service or
  middleware calls it, so that a model of it would be of code that never runs. The job that
  deletes its expired rows is in `Maintenance`, and has none to delete.
* `RATE_LIMIT_ENABLED = False`, which lets everything pass; the limiter's memory is one
  process's and is lost with it.
* Correlation ids, configuration, schemas, migrations: no state that changes. What they fix
  is in constants and assumptions (amounts are positive, keys are unique).

## 8. Plan

Done: all parts of the inventory that keep state and run; the two abstract ledgers and the
refinements; the invariants of rows, objects, totals, events, reports, limits, keys and days,
with their proofs.

Left:

1. **The event ledger after the response.** A weaker ledger for FastAPI 0.118 and later, in
   which an acknowledged event may be lost, and the refinement of it.
2. **Time at Stripe.** Saved answers that expire after 24 hours, and what a retry may then do.
3. **Reports and totals.** Reconciliation compares amounts only; a theorem that relates what
   a report counts as matched to `TotalsInv` would say what it misses about refunds.
