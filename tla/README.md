# Billing automation: a TLA+ verification of the back end

The system bills the clients of many small businesses (tenants): it issues
invoices, charges them through payment gateways, reminds payers over WhatsApp and
e-mail, recovers failed payments, and runs the business around it. The code is
TypeScript on Node.js over PostgreSQL (through Prisma), RabbitMQ and Redis; one API
process serves requests, one or more worker processes consume the queues, and a cron
script triggers the daily sweeps. Paths below are relative to the repository
(`services/` stands for `src/services/`, and so on).

Contents: [the system](#1-the-system), [modules](#2-modules),
[how the code is modelled](#3-how-the-code-is-modelled),
[runs](#4-runs-and-what-they-show), [proofs](#5-proofs),
[disagreements found](#6-disagreements-found),
[not modelled](#7-not-modelled), [plan](#8-plan).

## 1. The system

| component | state | operations | interacts with |
| --- | --- | --- | --- |
| **settlement** (`services/invoice.service.ts` applyWebhook, `payment.service.ts`, `negotiation.service.ts`, their repositories) | `Invoice.status`, `Payment`, `WebhookEvent`, `Agreement` | gateway webhook, manual payment, acceptance of an agreement, marking overdue | gateways (calls, webhooks); follow-ups into recovery, referral, fiscal, health |
| **recovery** (`services/recovery.service.ts`, `domain/recovery.ts`) | `RecoveryCase`, `RecoveryAttempt` | daily sweep (open, advance, give up), close, cancel | reads and marks invoices, publishes to the queue |
| **delivery** (`works/invoice.worker.ts`, `messaging/*`, `config/rabbitmql.config.ts`, `apis/whatsapp.api.ts`, `apis/email.api.ts`) | the queue and its dead-letter queue, `Invoice.notificationSent`, the tenant's channel settings | publish, choose channels and providers, send, retry, dead-letter | producers: recovery, dunning, winback, API |
| **dunning** (`services/notification-scheduler.service.ts`, `domain/regua.ts`) | `Invoice.reminderStep` | daily run, legacy run over the cached pending list | recovery (skips active cases), delivery |
| **recurring billing** (`services/subscription.service.ts`, `works/billing.worker.ts`) | `Subscription.nextRunDate`, billing queue | fan-out by tenant, one invoice per month | creation of charges |
| **creation of charges, referral credit** (`services/invoice.service.ts` createPayment, `referral.service.ts`) | invoices without a charge, `Client.referralCreditCents`, `Referral` | reserve, charge, attach, roll back; convert, reserve, refund credit | gateways |
| **clients, links, referrals** (`services/clients.service.ts`, `lgpd.service.ts` anonymizeClient, `portal.service.ts`, `referral.service.ts`, `utils/import-plan.ts`) | `Client`, its `portalToken` and `referralCode`, `Referral`, `ReferralSetting` | create, import, change, delete, anonymize; give a link; capture a friend, reward who brought them | everything hangs on a client and goes with it; a payment's follow-up converts a referral |
| **winback, retention** | `WinbackCase`, `CancellationRequest`, `Subscription.status` | claim and charge; pause, discount, cancel | subscriptions, gateways, delivery |
| **gateways** (`apis/payment/*`, `services/payment-setting.service.ts`, `controllers/webhook*`) | the provider's charge, its notifications, `PaymentSetting` | charge (one to three calls), read a notification, choose the gateway of a tenant and of a webhook | eight providers; the notifications settlement takes |
| **fiscal** (`services/fiscal.service.ts`, `apis/fiscal/*`, `domain/fiscal.ts`) | `FiscalDocument`, `FiscalSetting` | emit, provider webhook, cancel | follow-up of a payment; NFE.io or the mock |
| **negotiation terms, interactions** (`domain/negotiation.ts`, `domain/interaction.ts`) | `NegotiationSetting`, `InteractionEvent`, the page the payer has open | options, terms, acceptance, opening of the link, attempts | settlement (the agreement), health |
| **health score** (`services/health.service.ts`, `domain/health-score.ts`) | `ClientHealth` | daily sweep, recomputation after a payment | payments, invoices, cases, events |
| **views** (`services/cockpit*`, `cashflow*`, `action-queue*` and their domains) | none | cockpit, forecast, list of the day | read what the others write |
| **access control** (`services/access.service.ts`, `access-integration.service.ts`, `domain/access.ts`) | `Client.accessState`, `accessOverride`, settings, access events | decide (pull), daily sweep (push), override | invoices, contracts, the tenant's turnstile |
| **contract** (`services/contract.service.ts`) | `ContractSetting`, `ContractAcceptance` | save, replace the file, accept | read by the access control |
| **platform billing, team** (`services/platform-subscription.service.ts`, `team.service.ts`, `admin.service.ts`, `domain/plans.ts`) | `PlatformSubscription`, `PlatformInvoice`, `Account.status`, `User` | checkout, confirmation, renewal sweep, suspend, give a plan, invite, remove | the platform's gateway; gates what a tenant may write |
| **store** (`services/offer.service.ts`) | `Offer` purchases | acceptance of an offer | creation of charges |

What makes them hard, and the property each needs:

- *Interleaving.* Any `await` lets another request in, nothing asks PostgreSQL for
  more than READ COMMITTED, and rows are not locked. Most services check, await and
  then write. Settlement: money is booked once and never without evidence. Recovery:
  a step is neither skipped nor, without overlap or a crash, repeated.
- *Unreliable delivery.* Gateways resend, duplicate and reorder notifications; the
  broker redelivers. Webhooks must be idempotent by event id; a message must end.
- *Crashes between two steps.* Between an event row and its payment, between a
  reservation and its charge, between publishing and recording, between sending and
  acknowledging. Each gap must fail to the side that loses no money.
- *Best-effort follow-ups.* After a payment commits, closing its recovery case,
  crediting a referral, emitting a fiscal document and recomputing the score may fail
  and are not retried. What the daily sweeps do not repair is lost.
- *Eight dialects.* Each gateway names its events, orders its calls and speaks of money
  in its own way; one handler must neither take a word for money that is not, nor drop
  the one that is.
- *Several readings of one truth.* Screens, list of the day, forecast and score each have
  a query and a rule of their own for what is late or to come; they must not contradict
  each other, and what was shown to a payer must be what they get.
- *Days.* Sweeps run daily on snapshots and must make progress though they die.

`PROJECT.json` lists every hazard at its line, with the properties that cover it.

## 2. Modules

| module | models | code |
| --- | --- | --- |
| `InvoiceStatus` | the invoice state machine, as a relation | `domain/status.ts`, `domain/negotiation.ts` |
| `Settlement` | webhooks, manual payments, renegotiation, the overdue sweep | `services/invoice.service.ts`, `payment.service.ts`, `negotiation.service.ts`, their repositories |
| `InvoiceLedger` | abstract: what settlement promises about an invoice and its money | the repository's rules |
| `Recovery` | the recovery engine, payments seen as commit and follow-up | `services/recovery.service.ts`, `repositories/recovery-case.repository.ts`, `domain/recovery.ts` |
| `CaseLife` | abstract: what the recovery does to a case, for those who only look at it | the same |
| `Dunning` | the régua and the legacy run; EXTENDS `CaseLife` | `services/notification-scheduler.service.ts`, `domain/regua.ts`, `repositories/invoice.repository.ts` |
| `Billing` | recurring billing, one-time charges, offers, referral credit | `services/subscription.service.ts`, `invoice.service.ts`, `offer.service.ts`, `referral.service.ts`, `works/billing.worker.ts` |
| `Churn` | cancellation requests, the winback | `services/retention.service.ts`, `winback.service.ts`, their repositories |
| `Platform` | a tenant's plan, bills, trial and seats | `services/platform-subscription.service.ts`, `team.service.ts`, `admin.service.ts`, `domain/plans.ts`, their repositories |
| `Access` | the contract and its acceptance, the access decision, the sweep that tells the turnstile | `services/contract.service.ts`, `access.service.ts`, `access-integration.service.ts`, `domain/access.ts`, `apis/access-webhook.api.ts`, their repositories |
| `Delivery` | producers, broker, workers, channel providers and their failures | `works/invoice.worker.ts`, `messaging/`, `config/rabbitmql.config.ts`, `infrastructure/errors.ts`, `domain/channels.ts`, `apis/whatsapp.api.ts`, `apis/email.api.ts` |
| `Gateways` | one charge at each of the eight providers, their notifications, the choice of a gateway, the answers of the webhook | `apis/payment/`, `services/invoice.service.ts`, `services/payment-setting.service.ts`, the webhook controller |
| `Fiscal` | the fiscal document of an invoice, its notes at the provider, the settings | `services/fiscal.service.ts`, `domain/fiscal.ts`, `apis/fiscal/`, their repositories |
| `Clients` | the clients as persons, the links they are given, the friends they bring | `services/clients.service.ts`, `lgpd.service.ts`, `portal.service.ts`, `referral.service.ts`, `utils/import-plan.ts`, `domain/referral.ts`, their repositories |
| `Rules` | pure operators: the status shown, negotiation options and terms, health score, cash flow, list of the day, figures of the cockpit, the discount of an offer to stay | `domain/` |
| `Portfolio` | one client: invoices and dates, payments, subscription, the rules and page of negotiation, the stored score, and the screens over them; EXTENDS `Rules` | `services/` and `repositories/` of cockpit, cashflow, action queue, health, negotiation, interactions |

Beside each specification stand `<Module>Properties` (properties, inductive invariant,
refinement mapping) and `MC<Module>` (constants for TLC), unless the `.cfg` can give all of
them, as for `Recovery` and `Churn`. The proofs about all twelve are in `SettlementProofs`,
`RecoveryProofs`, `DunningProofs`, `FiscalProofs`, and, two specifications to a module, in
`BillingPortfolioProofs`, `GatewaysPlatformProofs`, `DeliveryAccessProofs` and
`ClientsChurnProofs`. Specifications that share a module of proofs differ in the names of
their parts (`PortfolioSpec`, `ChurnInit`); only the first pair shares facts, about sums.

How they meet:

- `Settlement` and `Recovery` share `InvoiceStatus`. `Settlement` has the transactions
  of a payment in full and one anonymous follow-up; `Recovery` has a payment as one
  commit (`Settle`) and its follow-up in full (`ReadCase`, `CloseCase`,
  `FollowUpFails`), so the two meet at the commit.
- `Dunning` looks at the cases of the recovery and not at its sweeps. It composes with
  `CaseLife`, and the run `recovery` shows that `Recovery` implements `CaseLife`
  (`ImplementsCaseLife`), so what `Dunning` assumes of a case is what the recovery does.
- `Billing` creates what `Settlement` settles (`charged` there is `attached` here).
  Publishing ends at the queue in `Recovery`, `Dunning` and `Churn`; `Delivery` goes
  on from there.
- `Gateways` makes the notifications `Settlement` takes as given: which event ids they
  have, when two share one, which never become a notification at all. `Settlement` has the
  races inside the transaction, `Gateways` those between the question to the provider and
  the transaction, so there the transaction is one step.
- `Portfolio` looks at what the others write from a distance: a payment, an agreement, a
  month of billing is one step (billing two, for a view may read between them), and the
  amounts and dates are real. `Fiscal` and the recomputation of the score are two of the
  follow-ups of a payment.
- `Clients` has the referral from the link to the reward; `Billing` spends the reward, with
  its conversion as one step. `Churn` looks at a client's telephone only.

Operators named as mutants in a comment are plausible mistakes in the code (a
dropped guard, a swapped order). They are used by no specification: each shows that
one property notices the mistake.

## 3. How the code is modelled

**Settlement.** `status`, `payments`, `webhookEvents`, `original`/`agreement` are the
tables; `charged` is the set of invoices with a `gatewayId`. `pc` and `local` are the
suspended requests: the label names the `await` a request is at, `local` what it
holds in memory. An interactive transaction at READ COMMITTED is two steps: its last
read, which fills `seen`, and the commit, which makes all its writes visible at once.
The unique key of `WebhookEvent` is the only lock: an insert waits while another open
transaction has the same key (`HoldsEvent`). `Fail` is a thrown error or the death
of the process at any `await`: the open transaction rolls back, the request is gone
and the gateway was not answered, so it may resend. `acked` are the notifications
answered with 200. Requests the guards refuse without any effect are left out.

**Recovery.** `case` and `attempts` are the tables, `wait` the days until
`nextActionAt`, `sent` what was published. A sweep holds in `sweep[s]` what its
queries returned: `found` (findOverdueWithoutCase), `due` and `seen` (findDueCases). All
its writes use `seen`, as the code does, and each write is one action. `NextDay`
moves every clock; it waits for sweeps to be over, since they take minutes. `closer`
is the follow-up of the settlement of an invoice.

**Delivery.** `place` and `returns` are the broker's, external: a quorum queue gives a
message to one consumer, takes it back when that one rejects it or its connection is
gone, and dead-letters it above the delivery limit. Whether a lost consumer counts
as a return depends on the broker's release, so both are allowed. A handler is
`taken`, `sending` or `marked`. The worker's connection is `up`, `lost` (nobody
reconnects, and a handler runs on and can neither ack nor nack) or `down`. A provider
may take a message although its answer is lost. WhatsApp is the tenant's (`WhatsappSettings`),
e-mail the platform's (`EmailProvider`); a provider that is not set up completely writes the
message to the log and says it succeeded, which is kept apart in `logged`.

**Billing.** An invoice is its key: subscription and month, as the unique key of the
table has it, or a request. `attached` are the invoices with a `gatewayId`;
`charges` counts what the gateway made, which the code cannot see. A process is at the
await `pc` names and holds in `local` what it has read. A run starts from a snapshot
(`findDueActive`) and bills one month of each subscription; a job that the broker gives
twice, and one the owner starts, are other runs. The gateway refuses (an error the code
catches and undoes) or its answer is lost (the charge exists, the code believes it
refused). A call of the database that fails has no effect, and a process may die at
every await. PAUSED and CANCELED are one status, because billing treats them alike.

**Dunning.** `run[r]` is what a run holds: its candidates, their `reminderStep` as
read and the invoices with an active case. Each publish and each write after it is a
step. Whether the régua is on is decided when a run starts, so the owner may switch it
any day: `StartRun` is a run with the régua, `StartLegacyRun` one without, over a list
that comes from the cache (`cached`) or goes into it. `days` stop after the last offset,
when nothing depends on them any more. The ghosts are `alone` (no sweep has been at
work since the run began), `reminded` and `settledBefore`.

**Churn.** A resolution holds the request as it was read (`resolver`), and writes
whatever others wrote since. The winback sweep is split at its awaits: enrol, find,
claim, reserve, charge, attach, publish, mark; it holds the telephones as they were
when it read the due cases (`skip`). A failed call is counted in `failures`, a call
that fails inside a `catch`, or a death, in `crashes`; a lost answer of the gateway in
`lost`. A discount may run out whenever a day ends. Settings and deletion of
subscriptions are left out.

**Platform.** `sub`, `bill`, `suspended` and `users` are the tables of one tenant,
`request` what a confirmation, a sweep or an invitation has read before its write.
`Entitlements` is `resolveEntitlements`. `paidOn` is the gateway's knowledge: some
gateways report when a bill was paid, for others it is the moment of the
notification, so `Confirm` takes either. `granted` is a ghost. Days stand for dates;
`nextPeriodEnd` cuts to midnight, so a day is as fine as the code is.

**Access.** One client. `late` is the age of its oldest invoice that is due, which is all
that the decision takes from the invoices; payers move it freely. A sweep is split at the
webhook and at the write that follows it; its reads are taken together (`ReadInputs`), and
so are the two of an acceptance, which commute with all that may come between. A save of the
contract holds the row it has read, as `upsertSetting` and `setFile` do. `turnstile` is
what the webhook last brought to the other side, which the code cannot see. Two ghosts
record causes, never effects: `missed` (a webhook failed or was skipped, a sweep died
before its write, or sweeps overlapped, since record and turnstile last agreed) and
`blurred` (a save over a contract that had changed since it was read, or a switch of
mode). The log of events is left out: only the panel lists it.

**Gateways.** Each gateway is a record: the words it translates, the calls of its
`createCharge`, whether it finds our reference in the notification or asks the provider, what
its event id names, what it makes of a foreign notification. One instance has one invoice at
one provider, any of the eight. `word` is what the provider says of a payment, `Life` the
order in which it may say it; `sent` are its notifications, `acked` those it need not
resend. A request is split between reading (which may ask the provider, and then gets the
present word and not the one notified) and applying; `local` holds the event as read.
`unread` are notifications answered with 200 although nobody understood them. A
webhook is read by the gateway the tenant has now, if our reference is found in it, and
by the one of its url otherwise (`Reader`); then it is verified with the
environment's credentials, whatever the tenant's own (`own`, `SignatureHolds`). Signature arithmetic
and bodies are left out.

**Fiscal.** `doc` is the row, `note` and `made` the provider's notes, which exist whether or
not the row knows of them; `events` its webhooks on their way, as often as it likes and in any
order. A request holds in `local` the document as it read it, asks the provider, and writes:
nothing in the write tests what was read. Ghosts record causes only: `lost` (an emission
that never reached the row), `missed` (news answered with 200 and not applied), `stale` (a write over
a row that had changed) and `strayed` (the mock answered for a note of NFE.io).

**Portfolio.** Money is in cents, rounded where the code rounds; time is in half days, so
that an invoice may be late by less than a day. `Tick` goes from one of `Instants` to the
next, and everything else happens at one of them. Past invoices and their payments are given by
`Past` and `PastPayments`. A payment settles its invoice whatever it amounts to: the gateway confirms the
invoice's value (`ConfirmPayment`), the owner records that or what he types (`RegisterManual`, an amount
of `Typed`); other news of the gateway make an invoice FAILED, or open again (`GatewayNews`). `page` is what the payer's browser shows: the options as computed when it was opened;
an acceptance sends its type only and the terms are computed anew. Each recomputation of
the score is split between its reads, taken together, and its write (`held`); the sweep
is one of them. Forecast, cockpit and list of the day are operators over the state, each
with the query of its repository.

**Clients.** Of a client's data there are the telephone, which is the key, whether name
and document are a person's, and whether there is an e-mail, which `Anonymize` keeps. `request` is what a suspended request holds between its reads,
which are one step, and its write: an import, which is a transaction at READ COMMITTED,
holds the rows it has found. `Conflict` is what the database refuses: a telephone that is taken,
a row that is gone; nothing else is tested again. `handed` are the links somebody was given;
one is `contested` if another request for the same link was under way when it was stored.
`grants`, `freed` and `readmitted` are ghosts: rewards by friend, how often a telephone
changed its row, and the anonymized clients to whom the owner gave a telephone again. A drawn code never
collides with another.

*Abstracted everywhere:* tenants (each query is scoped, one tenant is modelled),
amounts (except in `Portfolio` and referral credit), texts, dates other than "due" and "days to
wait" (except in `Portfolio`, `Platform`), logging, exports.

## 4. Runs, and what they show

Passing runs:

| run | instance | shows |
| --- | --- | --- |
| `settlement` | one invoice and one renegotiated invoice, 3 concurrent requests, 5 notifications (their ids their own, one has none) | a notification books money once and PAID always has a payment (`MoneyIsBooked`); a renegotiated debt has a payable replacement (`DebtNeverVanishes`); an acknowledged confirmation is accounted for (`AckedPaymentAccounted`); every step is one of `InvoiceLedger` or that of a request whose read is out of date (`LedgerKeptUnlessOutOfDate`), so duplicates, reordering and crashes alone do no harm |
| `recovery` | one invoice, two overlapping sweeps, 3 steps, 2 days between them, one crash | no step is skipped, none recorded unsent, none given up early, whatever the overlap (`AttemptsFollowSteps`); implements `CaseLife`, with its promise that a case ends (`ImplementsCaseLife`) |
| `delivery` | two workers, one good and one malformed message, limit 1, 2 failures, WhatsApp with its token and without, SMTP | a message is with one consumer; acknowledged only if a payer got it, its invoice is gone or a channel that is not set up logged it; given up only after its retries (`MessagesAccountedFor`); copies bounded (`CopiesBounded`); it ends unless every worker has lost its connection (`MessageEnds`) |
| `billing` | one subscription over two months, the cron's run and the owner's, one one-time charge of the same client, one referral, one refusal, one failure | a month is charged once and once more per failure (`ChargedOnce`); credit is lost only by failures (`CreditIsKept`); no month is skipped, whatever overlaps, dies or fails, but one whose charge was refused or whose answer was lost (`NoMonthSkipped`); billing reaches every month (`EveryMonthReached`) |
| `dunning` | one invoice, a reminder before and one after its due date, the cron's run and the owner's, one crash | a step is marked only when it was sent, and is sent once by each run of a day and once more per crash (`RemindersBounded`); no reminder is sent while a case is active if the run comes after the sweep (`RecoveryOwnsCommunication`); whoever settled hears nothing from the next day on (`SettledIsLeftAlone`); the last step is reached (`EveryStepSent`) |
| `churn` | one subscription, one request, two resolutions, two sweeps, one day to wait, one failure, one crash | a return is charged once and once more per lost answer (`ReturnChargedOnce`); a resolved request changes only through a stale read (`ResolvedAgainByStaleReader`); who stays away gets the offer unless a dead sweep holds the case (`LeaverGetsOffer`) |
| `platform` | two bills, two requests, a trial and a month of one day, three days | a paid plan was paid, given or tried (`PaidPlanHasPayment`); within a day access goes only to a suspension, to a sweep that read another subscription, or to a bill confirmed after its month (`AccessLostOnlyByStaleReader`); overlapping invitations alone exceed the seats of the largest plan (`SeatsHeld`) |
| `access` | one client, two sweeps, two requests, two changes of the owner, one crash | whoever counts as having accepted the contract has accepted what it says (`AcceptedIsShown`); the state on record is what the turnstile was told (`RecordIsTold`), and a decision that stands reaches it (`TurnstileCatchesUp`); each with the exceptions of section 3 and no other |
| `gateways` | each of the eight providers, two payments tried on one charge, two requests, a tenant who may move to Mercado Pago or Stripe | an invoice is paid only by approved money (`PaidWasApproved`); a confirmation answered with 200 has paid, unless its id was spent on an earlier notification or it was never read (`ConfirmationIsKept`); with the same exceptions, and those of a tenant who left, every approval pays in the end (`ConfirmationArrives`) |
| `fiscal` | two requests, two notes, NFE.io, the mock, and NFE.io switched off; one change of settings, one failure | every valid note is the one the invoice names, unless its emission was not recorded (`NotesAreKnown`); the document claims only what has happened at the provider (`DocumentIsTrue`); a terminal status is left only by a stale writer (`TerminalLeftOnlyByStaleWriter`); a document does not stay in the works (`ProcessingEnds`) |
| `clients` | two persons, three rows, two links, six requests of which two overlap and one fails, a programme of referrals that is on, off or changed | a friend is rewarded once, and one more time only if the telephone became free; a friend is forgotten only by a failing capture (`FriendsAreCounted`); a link leads where it led when it was given, unless it was contested, and never elsewhere (`LinksOpen`); telephone, name or e-mail come back to an anonymized client only by the owner's change of that client, or by an import that found it before it lost its telephone or after the owner gave it one, never by a later import, capture or registration of the same person (`OnlyOldImportsBringBack`) |
| `portfolio` | a client with an invoice paid late, one overdue, a subscription with a discount that ends, room for one invoice more; two instants, one event, and one of a change, an amount that is typed, a payment that fails and a recomputation that fails | cockpit, list of invoices, list of the day and radar agree on which invoices are late, the first three on what they and those of the week are worth (`ViewsAgree`); the forecast counts each thing once (`ForecastCountsOnce`); a payer gets the terms that were shown (`ShownTermsAreHeld`); the stored score becomes that of the data (`ScoreCatchesUp`) |

Type invariants are part of the inductive invariants and proved with them. `ChargedOnce`,
`CopiesBounded`, `RemindersBounded` and `ReturnChargedOnce` say how far the code keeps
"once": the repetitions they allow are counted by overlapping processes, crashes or lost
answers, each of which really causes one. `AckedPaymentAccounted` needs unique event ids
and `ConfirmationIsKept` says which gateways have none; `NoMonthSkipped` excepts the months for which
`createCharge` threw, and no other; `EveryStepSent` holds of invoices that fit the page of candidates: the run has one
invoice and a page of one.

*Bounds, and why they are enough.*

- Settlement: every hazard is between two requests on one invoice; a third lets a
  resend race a race, and one spare invoice lets an agreement be made and paid.
- Recovery: the conflicts are between two sweeps on one case, and cases do not
  influence each other; 3 steps have a first, a middle and a last one, and 2 days a day
  on which nothing is due (the code has 4 steps, 3 days apart).
- Delivery: a limit of 1 has a first delivery, a retry and a dead letter; two failures
  can take both workers away.
- Billing: two runs and a request compete for one month and one client's credit; two
  months are a first and a following one.
- Dunning: one step before and one after the due date; invoices influence each other only
  through the limit of the page (see section 6). A third run would add one thing, a mark set
  back (`SetBack`, see section 5), which the theorem covers for any number of runs.
- Churn: subscriptions do not influence each other; two resolvers and two sweeps are what
  a race needs.
- Platform: two bills can be confirmed out of order, two requests can overlap, and three
  days have a trial, a month that is paid and a day after it. Bills and requests are
  symmetric, and no liveness is checked in this run.
- Gateways: two payments of one charge have a failed attempt before a good one, an approval after
  an approval and a refund; two requests reorder reading and applying. Two of the eight
  providers to move to have both answers to a foreign notification. `MCWords` has every word
  that is translated to something of its own, one of each kind that is not.
- Fiscal: two notes are an orphan and its successor, two requests race for the row; one change
  of settings can come between any two steps of them.
- Portfolio: rounding, lateness and the split of the month are about one client; the three
  invoices are one paid late, one overdue and the one that billing or an agreement
  makes. The instants are a day after the due date and beyond the month and the
  thresholds of the score; the second set of rules is dearer in every respect, so that
  the page and the rules in force differ in every term. What is typed is less than any invoice is
  worth. One `MaxChanges` is for every kind of change: each disturbs the screens, or the score, by itself.
- Clients: a race is between two requests about one person, and the other person is the one
  who brought them. Six requests let a client be registered, found by an import, anonymized, registered
  again and changed, with one to spare; the theorems have any number. Requests are
  symmetric, and no liveness is checked in this run.
- Delivery's settings: a cloud provider with its token and without, beside SMTP, are all
  outcomes a send may have.
- Access: two saves, or a save and an acceptance, race for one contract, and two sweeps for
  one turnstile; two changes write a contract and replace it; a grace of no days has a day
  in it and one after it.

`MaxCrashes`, `MaxFailures`, `MaxRefusals`, `MaxChanges`, `MaxNotes`, `MaxRows`, `MaxLinks`, `MaxAsked`, `MaxInvoices`,
`MaxEvents`, `Instants`, `LastMonth` and `LastDay` are the only bounds on behaviours. Deadlock is checked in `dunning` and `churn`, whose days never end, in
`platform`, whose administrators can always act, and in `access`, whose payers can; the
other instances stop once their requests, months, payments, notes and messages are used up.

*Fairness, and why the code justifies it.*

- `Recovery!FairSpec`, `Churn!FairSpec`, `Dunning!ReguaFairSpec`, `Billing!FairSpec`, `Access!FairSpec`: the
  cron starts the sweep or the run daily (`scripts/run-daily-billing.sh`), a sweep that
  does not die goes on, days pass. Payers, owners, gateways and follow-ups owe
  nothing. `runAllTenants` catches what a tenant throws, so a sweep that fails is
  over for that day and the next one starts anew. `Dunning` also takes from `CaseLife`
  that a case ends, which `recovery` checks. Billing reaches every month because
  `MaxRefusals` and `MaxFailures` end: a gateway that refuses for ever bills nobody.
- `Delivery!DeliveryFairSpec`: a worker's event loop runs its handler, a process that died is
  restarted (`restart: unless-stopped`, `docker-compose.free.yml:159`). A worker that
  only lost its connection is not: the process is alive and nobody reconnects, so the
  liveness property has that exception and no more.
- `Gateways!FairSpec`: a request ends, and the provider resends an approval until it is
  answered with 200, so that one that keeps being tried is read and applied at last (strong
  fairness, because a failing database may disable it again and again).
- `Fiscal!FairSpec`: a request goes on or fails, NFE.io ends what it queued and delivers its
  news until it gets an answer. The owner owes nothing.
- `Portfolio!PortfolioFairSpec`: the cron runs the sweep of the scores daily, and the sweep
  (`StartSweep \/ UpsertHealth(Sweep)`), like a follow-up, goes on to its write or fails, at most
  `MaxChanges` times; nothing else needs to happen.
- `Settlement`, `Platform` and `Clients` have no fairness. A request is answered or fails; nothing
  else follows. The daily script does not call the renewal sweep, so a subscription need
  never become `past_due` (its access ends by its date all the same).

## 5. Proofs

Checked by TLAPS for every value of the constants: any number of invoices, requests,
notifications, sweeps, steps, subscriptions, months, bills, texts, days, reminder runs, fiscal
notes, persons, links, messages, workers, tries, amounts, instants and failures. Every
safety property that a run checks, and every action property, is a theorem, and so is the safety
part of the refinement the run `recovery` checks. They rest on the assumption of each
specification (`SettlementAssumption`, `RecoveryAssumption`, `BillingAssumption`, `DunningAssumption`,
`ChurnAssumption`, `PlatformAssumption`, `AccessAssumption`, `DeliveryAssumption`,
`GatewaysAssumption`, `FiscalAssumption`, `ClientsAssumption`, `PortfolioAssumption`) and on nothing else;
TLC evaluates it in every run. They say that the constants have their
types, that a step interval is at least one day, that what stands for "no value" is not a
value (`None`, `Nobody`, and `"none"` for no invoice or message), that at least one payment is
tried, where something is counted or looked for that it is finite (the runs of a day, the persons,
the instants), and in `Portfolio` that an amount the owner types is positive, as the form demands,
and that nothing of a client's past is stored as overdue before its day.

`SettlementProofs`

- `Invariance`: `Spec => []IInv`. None of the properties is inductive alone. That PAID
  has a payment fails at a commit whose read was PAID, which books nothing: it needs
  `OpenTransactions` (what a transaction has read has its evidence in the tables, and
  evidence is never removed from a charged invoice), which needs `ChargedExists` and
  `Reservations` (only an uncharged reservation is deleted, and each belongs to one
  request). Once per event needs that nobody else holds or has recorded the id of an
  open transaction (`OpenTransactions`) and that booked ids are recorded
  (`RecordedEvents`). `Accounting` ties recorded, acknowledged and about-to-be
  acknowledged confirmations to their payment.
- The properties follow: `TypeCorrect`, `WebhookIdempotence`, `PaymentEvidence`, `MoneyIsRight` (both),
  `RenegotiationKeepsDebt`, `AgreementEvidence`, `NoConfirmationLost` (given unique event
  ids), and the action property `PaidIsLeftByStaleReads`.
- `LedgerIsKept` is the refinement, as far as it goes: while the books are right, every step is
  one of `InvoiceLedger` (or changes nothing the ledger sees), or that of a request whose
  read of the status is out of date. The proof takes each write in turn; a write whose read
  is still true is the ledger's by `IInv`, which has the evidence for it.

`RecoveryProofs`

- `RecoveryInvariance`: overlapping sweeps may move a case backwards, so "the case
  stands at its last attempt" is false; what is inductive is that the attempts have no
  gap, that every step any sweep remembers is still among them (`ReadsAreHistory`;
  attempts are never deleted), and that what is about to be recorded was published
  (`PublishedFirst`).
- From it: `GivenUpAfterTrying`, `NoStepSkipped`, and `ResolvedLeftByStaleReads`.
- `CaseLifeIsImplemented`: `Spec => Life!Spec`, step by step. What `CaseLife` asks
  of a step and no guard of the recovery tests is that the invoice is past due, or has a case;
  `CasesArePastDue` says so of every invoice in the hands of a sweep or a follow-up, and is a
  part of the invariant. That a case ends is liveness, which the run `recovery` checks.

`BillingPortfolioProofs`, about `Billing`

- `Invariance`: `Spec => []IInv`. `ChargedOnce` is not inductive, because a second process
  might charge for an invoice that has its charge. `OneMaker` says that it cannot: the
  unique key lets one process create an invoice, and only that one attaches or deletes
  it. `RightKey` keeps the keys of requests and runs apart, so that nobody
  else's invoice is touched; `ChargesCounted` ties charges to existing invoices and
  failures, because an invoice that is undone leaves behind only charges whose answer was
  lost.
- No month skipped (`MonthsAreBilled`) needs more than the tables: a run holds months it read long ago.
  `MonthsAreSeen` says that all months before one in anybody's memory are invoiced, or were and their charge
  threw (`Seen`); and that a process that undoes an invoice is one whose charge threw. So `Seen` never
  shrinks, whoever dies or fails, and a month that a run has found stays in it until the run advances.
- Credit is kept (`CreditIsConserved`, by `CreditIInv`) because it is in one place at a time
  (`CreditInOnePlace`): with the process that reserved it, noted on the invoice it is
  making, or spent on an invoice that has its charge. A process that is through with its
  charge holds none, and only the maker of an invoice that is not charged changes what is noted on
  it; so each step moves credit from one place to another, or is a failure that loses it. What a
  client has, holds and has spent are sums over processes and invoices, which must be
  finite; that they stay so is part of the invariant.
- Sums: `SumFunctionOnSet` takes the elements of a finite set in an order that is not known, by a
  recursive function that is chosen. That it exists, that it adds an element whichever it is, that
  it is additive over disjoint sets, over parts and over images (`SumExists`, `SumTakesAny`, `SumOfUnion`,
  `SumOfParts`, `SumOverImage`) is proved from a smallest counterexample: the subsets of a finite set
  are well founded (`FS_StrictSubsetOrderingWellFounded`), and the library's `WFMin`, unlike its induction
  rules, takes a set and no operator. `SetInduction` is the rule drawn from it.
- The theorems: `ChargedOnce`, `NoStrayInvoice`, `NoMonthSkipped`, `CreditIsKept`, type correctness.

`BillingPortfolioProofs`, about `Portfolio`

- `PortfolioInvariance`: `PortfolioSpec => []PortfolioIInv`. A stored status may lag behind the day and is never ahead of it, though a gateway
  may set it (`OverdueIsLate`); the page shows what the rules it was made by offer
  for its invoice, whose value never changes (`PageIsTrue`); who is about to write a score has one, from 0 to
  100 (`ScoresAreHeld`). The rules are typed on the way: terms of an agreement are terms
  (`TermsType`, `OptionsType`, `ChosenTermsType`), a score is a score (`ScoreType`), whatever was read.
- `TheViewsAgree`: each screen sums the values of a set of items, and the item an invoice has on a screen is
  its own; so the sum is that of the invoices behind it (`ValuesOfRows`), and it remains that
  these are the same on all screens. `WhatIsToCome` says so of the three rules for a date (whole days
  rounded down, a comparison, a window of a week), and `OverdueIsLate` of the stored status.
- `TheForecastCountsOnce`: every item of a forecast is in a week that the forecast has
  (`EachHasABucket`), so the weeks are parts of it (`CashflowCountsOnce`); and no probability is more than
  95 per cent (`ProbabilityIsPercent`), so none of them brings less than it probably will.
- `TheTermsShownAreHeld`: price and delay of what is chosen, and of what is shown, are the same functions of
  rules, value and type (`ChosenTermsAre`, `ShownTermsAre`); what remains is that rounding
  takes half a cent (`PriceIsWithin`) and that `PageIsTrue`.

`DunningProofs`

- `ReguaInvariance`: `ReguaSpec => []ReguaIInv`. That a marked step was published is inductive
  with what each run has read and is about to mark (`ReadsWerePublished`).
- How often a step may be published (`ReminderBound`) needs an account of the day
  (`RemindersAccountedFor`). For each invoice there is the step that was marked when the day began;
  no run of today has read less (`DayBegan`). A later step is published today by as many runs as
  are through with the invoice, less those that marked an earlier step, for a run does one
  step of an invoice a day (`Account`). The obvious bound, one message per run and crash, is
  *false*, which the attempt to prove it showed: of three runs that overlap, the
  slowest writes back the step it had read (`markReminderStep` has no guard), and the next run
  sends again what a faster one had marked. The bound counts these marks (`SetBack`); with two
  runs there are none, because a run that sets the mark back has sent that step itself.
- `ActiveCasesAreLeftToTheRecovery` rests on `CasesAreKnown`: a run that no sweep has joined knows all
  the active cases, for only a sweep opens one. That is `CaseLife`'s word, and
  `CaseLifeIsImplemented` is the theorem that the recovery keeps it.
- `SettledHearsNothing` rests on `SettledIsUnlisted`: what was settled yesterday is on no list, of
  the cache or of a run. The cache expires within the day, and so no list is older.

`GatewaysPlatformProofs`, about `Gateways`

- `GatewaysInvariance`: `GatewaysSpec => []GatewaysIInv`. A gateway is a record of tables, so what the words
  mean is settled by one lemma about the eight of them; the rest is for any provider,
  tries and requests. That PAID was approved needs that what a request holds was notified, and that it read PAID
  only after an approval (`EventsAreNotified`); a request that asks the provider gets the present word,
  so the present word has to have been notified too, and what is approved has to be
  left by a reversal only (`WordsAreNotified`).
- That a confirmation is kept needs that the key of an event that is named after its
  notification is there only if the event was applied (`KeysAreApplied`), and that the invoice it was
  applied to carries its charge and is not undone (`ChargedStays`).
- From it: `OnlyApprovedMoneyPays`, `ConfirmationsAreKept`.

`GatewaysPlatformProofs`, about `Platform`

- `PlatformInvariance`: `Spec => []IInv`. What a tenant may do depends on dates that were
  written by confirmations in any order, so `PaidPlanHasPayment` needs that the present
  period ends a month after some payment or gift for the present plan (`SubJustified`),
  and that only paid bills are confirmed (`Confirmable`). That access is kept needs that
  what a sweep has found was due (`ReadsWereDue`): if the subscription is still the same,
  it has no access to lose. Seats need that a request that found one free holds one
  (`SeatsCounted`).
- From it: `PaidPlansArePaid`, `AccessIsKept`, `SeatsAreHeld`.

`DeliveryAccessProofs`, about `Delivery`

- `DeliveryInvariance`: `DeliverySpec => []CopiesIInv`. That a message is acknowledged only when it was sent
  needs that the handler that acknowledges believes so only if it is true (`HandlersAreTrue`), and that
  no other handler still has the message (`OneConsumer`): one that lost its connection has it in
  hand and no longer counts. Given up after its retries needs that nothing else was returned more
  often than the limit (`ReturnsAreLimited`).
- `CopiesBounded` is not inductive, for a handler may have sends before it. `CopiesAreDeliveries`
  counts with the copies of a message those that a handler may still send, of a lost connection too:
  together they are no more than its returns, the failures, and one for the delivery under way.
- From it: `MessagesAreAccountedFor`, `CopiesAreBounded`.

`DeliveryAccessProofs`, about `Access`

- `AccessInvariance`: `Spec => []IInv`. That the record is what was told is not inductive:
  the write of a sweep needs that what it sent is still the last word (`SentIsCurrent`),
  and that whatever it writes unsent is the baseline of a new client or known to be
  missed (`UnsentIsFirst`). That what was accepted is shown needs it of the acceptances on
  their way too, and that none of them is of a version still to come
  (`VersionsAreContents`).
- From it: `AcceptedContractIsShown`, `RecordIsWhatWasTold`.

`FiscalProofs`

- `FiscalInvariance`: `Spec => []IInv`. What the document says is true only if what is about to be
  written is: an emission brings a note that the provider made and its first word
  (`Emissions`), a cancellation's note is cancelled by then or the mock answered for it
  (`Cancellations`), and news on its way, or being applied, has happened and its transition was
  allowed when it was read (`ReadingsExist`, `Notifications`). A word that has happened
  stays true but for a cancellation (`Happened`).
- From it: `ValidNotesAreKnown`, `DocumentsAreTrue`, and the action property
  `TerminalIsLeftByStaleWriters`: a transition that was tested at the read is a legal one at the
  write, if nobody has written between.

`ClientsChurnProofs`, about `Clients`

- `ClientsInvariance`: `Spec => []ClientsIInv`. Rows are not numbered twice, so whatever names a
  row names one that was made (`RowsAreMade`); a referral has the referrer of the friend's
  row, and only one request is about to write it (`ReferralsAreTrue`).
- `FriendsCountOnce`: "one reward per telephone" is not inductive, because the next payment may add
  one. `FriendsAccountedFor` counts with the rewards those that are still to come: pending
  referrals and captures between their two writes. Each took the telephone when nobody had it,
  so they are no more than the rows that gave it up, and the one that has it. A friend
  nobody is rewarded for is one that a failure left between the two writes: a refused second
  write means that the friend or the referrer is gone.
- `LinksLeadToTheirClient`: a link is drawn once and what a client carries was handed out
  (`LinksAreHanded`). That it stays needs that nobody who asks for a link now can have found
  none: whoever did so was under way when it was stored, and made it contested.
- `OldImportsBringBack`, an action property: who is anonymized has no telephone, unless the owner wrote one
  afterwards (`NotFoundAgain`), although requests that read before write after; so an import that still
  holds such a row found it by a telephone it has no more. A capture and a registration
  write a row that was not there (`IsNew`), and an import keeps whose a row is (`StaysOf`).

`ClientsChurnProofs`, about `Churn`

- `ChurnInvariance`: `ChurnSpec => []ChurnIInv`. Two sweeps may have read the same case as due; the claim
  has a guard, so one of them handles it (`OneSweepHandles`), and that is an invariant of the sweeps' places
  in their code as well as of the row, for a case may be marked skipped by a sweep that read it before.
  `ChargesAreKnown` says at which of these places the charge has been made: beyond those whose answer was
  lost there is none before it and one after, and the status of a case in nobody's hand tells
  which. A request that is being resolved was open when it was read (`ReadersSawItOpen`).
- From it: `ReturnsAreChargedOnce`, and the action property `OnlyStaleReadersResolveAgain`.

`AgreementEvidence` (ACCEPTED was paid), `PaidIsLeftByStaleReads`, `GivenUpAfterTrying`,
`ResolvedLeftByStaleReads` and `InvoicesAreMade` are proved and not repeated in a run, whose `LedgerKeptUnlessOutOfDate` or
other properties say more about the same states.

Only model-checked are the liveness properties, since TLAPS does not reason about fairness here:
`EveryStepSent`, `EveryMonthReached`, `MessageEnds`, `TurnstileCatchesUp`, `ProcessingEnds`,
`ConfirmationArrives`, `ScoreCatchesUp`, `LeaverGetsOffer`, and that a case ends (in
`ImplementsCaseLife`). What a score or a sort is worth beyond its type is in no theorem: the
score is a formula that is run, and the ranking of the list of the day is in no property.

## 6. Disagreements found

Consequences that the models have and no run is spent on; where a property has an
exception, it is for one of these:

- *Gateways.* Mercado Pago, Asaas, PagBank and InfinitePay use one id for every notification
  about a payment (`mercadopago.gateway.ts:134`), so the approval after "pending" is dropped
  as a duplicate, although SDD spec 0003 (line 68) wants the event applied. An InfinitePay
  notification whose check fails is answered with 200 and not resent. Stripe's later
  completion of a session that was not yet paid is not among the events it reads. Payments of
  charges still open at a former provider are read by the tenant's new gateway, which refuses
  or ignores them; Mercado Pago and InfinitePay are verified with the
  environment's credentials even if the tenant has its own (`invoice.service.ts:383`; spec
  0019, RN-G5). A charge whose answer was lost stays open at the provider, and nobody knows.
- *Fiscal.* Two emissions, or a lost answer and a second try, leave two valid notes of which the
  invoice names one. News that comes before the document is stored is answered and ignored, and
  the document stays in the works. A slow writer takes back what a faster one has recorded.
  Once the owner has gone over to the mock, it "cancels" notes of NFE.io that stay valid.
- *Delivery.* WhatsApp in the cloud without its credentials falls back to the log, and the
  message counts as sent.
- *Views.* The cockpit counts an invoice that falls due at this instant as late
  (the comment at `cockpit.ts:39` has `dueDate >= hoje` to come); the line "Vence hoje" of the list of the day needs
  that very instant (`action-queue.ts:116`). The cockpit's threshold of hesitation is fixed at
  3, the negotiation's is the owner's. The forecast omits a month whose day has come and whose run has
  not, counts it twice between the run's two writes, and sees one month per window. The screens'
  agreement has the first exception only, the forecast's the second and the third. An invoice whose payment
  FAILED is in neither cockpit, list of the day, forecast nor score (`OPEN_STATUSES` are PENDING and
  OVERDUE), although it is unpaid, may be settled by hand and may be PENDING again. A manual
  payment records any positive amount and settles the whole invoice (`payment.service.ts:49`, RN-REC5, "v1 =
  total"), so what the cockpit says was received may be less, or more, than what was billed: no
  property equates the two.
- *Negotiation.* An acceptance tests neither hesitation nor what was shown: the rules in force
  apply. The instalments may differ from the total by cents. An agreement does not recompute
  the score; the next sweep does.
- *Settlement.* Two confirmations with different ids, or one and a manual payment, read the
  status before either commits, and book the money twice, although `payment.service.ts:40`
  says that a second settlement is refused and `domain/status.ts:57` that money is not
  duplicated (`LedgerKeptUnlessOutOfDate` has this exception by name). Such stale commits also
  take PAID to FAILED or RENEGOTIATED (`PaidLeftOnlyByStaleWriter` says exactly when). Two acceptances can both
  create an active agreement (spec 0018, RN-NEG3), and the one that loses the race keeps
  its new invoice, which stays payable, although `agreement.repository.ts:47` says the
  caller undoes it. A manual payment of the new invoice leaves its agreement PENDING
  (RN-NEG6).
- *Recovery.* Two overlapping sweeps publish the same step (RN-3303). A sweep writes
  'recovering' over a case that was resolved after the sweep had read it. A case whose
  follow-up failed, or ran before the case was opened, goes on to 'lost' although its
  invoice is paid (`findDueCases` does not look at the invoice). A sweep that dies
  between opening a case and marking its invoice OVERDUE leaves it PENDING, and a legacy
  run duns it beside the recovery.
- *Dunning.* `findReguaCandidates` takes the 500 oldest open invoices, whether or not they
  have steps left; invoices that nobody pays stay open for good, and once they fill the page no
  newer one gets a reminder (RN-2603 promises each its next step). A legacy run looks only at PENDING, so what was marked OVERDUE gets no
  legacy reminder. The régua resumes once a case is lost. `markReminderStep` writes the step a run
  has read plus one, whatever is there by now: of three runs that overlap the slowest takes the
  mark back, and a step that was sent and marked is sent once more on a later day.
- *Billing.* A run that finds the month's invoice already made advances the subscription;
  the other run then deletes that invoice because its charge was refused, or made and not answered for, and
  the month is skipped (`invoice.service.ts:254`; `domain-model.md:491`, RN-S1). The `create` of a one-time charge is outside the `try` that gives credit
  back, although spec 0046 §9 says that no credit is lost. A crash after the invoice was
  created leaves one without a charge, which blocks its month. A lost answer charges
  twice. A run bills a subscription that was stopped after it was read. A subscription
  that is resumed is billed for its paused months, one per run.
- *Clients.* An import or a change that read a client before the anonymization writes the data
  back, and the second anonymization finds it done (spec 0004, RN-L2, RN-L4): `OnlyOldImportsBringBack`
  names both. `anonymize` keeps the e-mail, though its comment says that it removes the personal data
  (`cliente.repositorie.ts:176`). A capture that fails after its first write leaves a client who cannot be referred any
  more. Two first demands for a link both answer, and one of the links is dead. `ensureCode`
  answers with a code for a client who is gone. Manual payments convert no referral, and
  whichever payment by webhook finds the programme on does, the first invoice or not (spec 0046, RN-4603).
- *Churn.* When the charge of a return is refused, `winback.service.ts:144` says that the
  reservation is cleaned up; the code gives the case back and leaves the invoice, one
  more each day. Two resolutions of a request both apply, so that it may say "saved" while the
  subscription is CANCELED (RN-3703). The winback charges a subscription whose owner has
  reactivated it. A case a dead sweep left 'sending' is never found again. A sweep
  that read a client without a telephone can write 'skipped' over 'sent'.
- *Platform.* A renewal sweep that read the subscription before its bill was confirmed
  writes past_due over the paid month (spec 0020, RN-SB3). A late confirmation of an old
  bill replaces a later period, and one after its month ends access at once. Who pays
  early loses the rest of the running month.
- *Access.* A webhook that failed or was skipped, or whose sweep died before its write, is
  not sent again, or is sent twice; the turnstile is wrong until the next transition.
  `accept` records the version in force when it runs, not the one the client was shown.
  Two overlapping saves give one version two texts, or put the version back, and a switch
  between text and file changes what is shown without a new version; an acceptance of the
  first then counts for the second (RN-4003). The portal looks at the last acceptance and the
  access control at the highest version, so they may disagree.

## 7. Not modelled

`PROJECT.json` gives each component and the reason. In short:

- accounts, authentication, onboarding and the platform's administration (but for what
  changes a plan): requests of one actor on rows of its own;
- brand, exports, what the portal shows of an invoice and to whom it opens: they read and format;
- routing, validation, encryption, signatures and the front end: no state of the billing;
- within modelled components: the quota of invoices and the grants of
  modules, editing of templates, steps and offers, the texts of messages, the fields of a
  fiscal note, the counts of the cockpit per channel. These are why most components are
  "partly".

Gateways, fiscal provider, message providers, broker, turnstile and Redis are external: they
appear as the code sees them.

## 8. Plan

The runs and properties are few on purpose: a new component takes the place of the
properties that say least.

| order | module | content | properties and theorems |
| --- | --- | --- | --- |
| done | `Settlement`, `Recovery`, `Delivery`, `Billing`, `CaseLife`, `Dunning`, `Churn`, `Platform`, `Access`, `Gateways`, `Fiscal`, `Rules`, `Portfolio`, `Clients` | | |
| done | proofs about all of these | | every safety property a run checks |
| 1 | `Reminders` | producers composed with the queue: a step recorded though its message was lost, a reminder of an invoice paid while it waited | the hazards in `PROJECT.json` without a property |
| 2 | quota of invoices | | overlapping charges against the quota |

An abstract specification worth stating besides `InvoiceLedger` and `CaseLife`: an
at-least-once mailbox for `Delivery`.
