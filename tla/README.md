# Verification of the INFINICUS platform

This directory holds TLA+ models of the stateful core of INFINICUS, the TLC runs
that check them on small instances, and TLAPS proofs of what matters most about
them. Paths in this file are relative to `infinicus-platform/` unless they start
with `docs/`.

## 1. The system

INFINICUS turns business data into recommendations and, after a human approval,
into authorised actions. Its layers form a chain:

    data acquisition -> business operations -> business intelligence
      -> digital twin -> simulation -> AI decision intelligence (ADI)
      -> approved business action (ABA) -> outcome monitoring -> learning

The running program is the TypeScript monorepo `infinicus-platform`: a Fastify
API, service classes (`packages/workflow`, `packages/onboarding` and others) and
repositories over PostgreSQL (`packages/database`), where migrations add
constraints and triggers. The root-level layer directories are older,
independent in-browser prototypes of the same layers, and `functions/` holds
small stateless endpoints.

Concurrency has one source. Every repository method is one transaction
(`withTenantTransaction`, READ COMMITTED, no retries), and a service call is a
sequence of such transactions with awaits between them. Other calls,
administrators, the clock and crashes come in between. What keeps the system
correct is a mixture of unique indexes, triggers, row and advisory locks and the
order in which services read and write; that mixture is what is verified here.

### Inventory

| Component | State | Operations | Hard behaviour | What makes it correct |
|---|---|---|---|---|
| Approval workflow (`DecisionWorkflowService`, ABA repositories) | reviews and their facts, approver assignments, decisions, audit events | create a review, grant, revoke, submit a decision, read a status | eight transactions per decision; facts, role, freshness and clock are read at different times | no approval without authority, sufficient role and valid facts; audit agrees with decisions |
| Policy and gate (`approvalRiskPolicy`, `approvalGate`) | none | evaluate | unknown and missing facts | fail closed |
| Owner bootstrap (`OwnerApproverAuthorityService`, `classifyOwnership`) | the owner's assignment | read evidence, grant | races with grants, revocations and membership changes | a revoked or foreign authority is never re-issued |
| Tenant onboarding (`OnboardingService`) | the progress row, business, membership, settings, invitations, authority | one call per step, resume, abandon | a step is several transactions; the row is selected without a lock and updated by id | a completed onboarding has everything its steps stand for; an owner that is answered has an assignment that only an administrator takes away |
| Digital twin snapshots | snapshot and version status | create, validate, publish, supersede, assess freshness | unlocked check-then-update | only validated snapshots are published, publications stand |
| HTTP idempotency | one row per tenant, key and route | begin, complete | racing duplicates, crashes, failing completion, lost acknowledgements | one execution, same answer |
| Package store (migration 0176) | identity, sealed versions, lifecycle facts | issue, supersede, revoke, expire, consume | all of these race | one fate per version |
| Eventing | outbox, ledger, inbox, dead letters, attempts | claim, publish, retry, bury, consume | crashes between transactions, redelivery | published means recorded, effects at most once, nothing lost |
| Data acquisition | runs, webhook receipts, publication packages | submit, receive, process, prepare, publish, revoke | redelivered webhooks, calls cut off or failing half-way | a run is published once and settles |
| Business operations intake | delivery status, inventory balance | process a hand-off, reject it | two deliveries of one package, late refusals | what is delivered was executed, once and as a whole |
| Billing | subscription, usage counter | provision, enter, use, pay, operator transitions, the scheduled script | unlocked transitions, a counter shared by all calls | units counted exactly and within the limit |
| Platform incidents | incident status and timeline | declare, update, resolve | unlocked check-then-update | resolved is final |
| Point of sale | orders, register sessions, purchase orders | add lines, complete, void, close | as above, with money | one sale per order |
| ABA intake and publication | handoff packages | receive, accept, dispatch, acknowledge | select-then-insert | idempotent intake |
| Other layer repositories | one status column per table | create, transition, read | as for snapshots | per-table legality |
| Authentication, LLM client, simulation engine, contracts, web application | sessions, none | reads, pure computation, I/O | little of what TLC reaches | not modelled |

`PROJECT.json` gives the files of each component, the lines each definition
models, and the hazards of the code one by one.

## 2. The modules

| Module | Models |
|---|---|
| `ApprovalWorkflow` | approval workflow, policy, gate, owner bootstrap |
| `TwinCatalog` | abstract: the standing of each snapshot, unpublished, superseded or published for good |
| `TwinSnapshot` | snapshots; refines `TwinCatalog` |
| `HttpIdempotency` | the idempotency plugin and its repository |
| `PackageFates` | abstract: a line of versions, each with one fate |
| `ActionPackage` | the package store; refines `PackageFates` |
| `EventLog` | abstract: facts that are open, published or buried, and a log |
| `EventDelivery` | outbox, ledger, dead letters, attempts, inbox; refines `EventLog` |
| `DataAcquisition` | runs, receipts and publication packages |
| `StockBook` | abstract: runs booked once and as a whole on a balance |
| `BusinessIntake` | extends `DataAcquisition` by the layer that receives its packages; refines `StockBook` |
| `Billing` | entitlements, usage, payments and the lifecycle script |
| `Onboarding` | the onboarding wizard |
| a `_proofs` module for each of `ApprovalWorkflow`, `TwinSnapshot`, `HttpIdempotency`, `ActionPackage`, `EventDelivery`, `BusinessIntake`, `Billing`, `Onboarding` | theorems |
| `MC...` | constants and symmetry of the runs |

Two conventions hold throughout. A call, a client, a worker or a session is a
process with a program counter, and an action is one transaction with whatever
the code computes until its next `await`; a transaction is split into two actions
exactly where it reads without locking and another one can come in before it
writes. Constants that only bound a count (`MaxTime`, `MaxVersion`,
`MaxCrashes`, `MaxFailures`, `MaxFaults`, `MaxLostAcks`, `MaxUsage`, and
`Administered`, the businesses an administrator may touch) appear in the
guards of the environment's actions and are named in section 3.

### ApprovalWorkflow

| Action | Code |
|---|---|
| `BeginSubmit`, `BeginStatus` | entry of `submitApprovalDecision` (including the refusal of a foreign approver id) and of `getReviewApprovalStatus` |
| `FindActiveForUser` | the active assignment of this user under this code |
| `AssertOwnerAuthorityStillProven` | ownership of an onboarding grant. The provenance of a code never changes after its grant, so reading it and reading the ownership evidence are one step |
| `GetLatestVersionWithClock` | review facts and `now()`, one statement |
| `NoteExpiry`, `RecordExpiry`, `NoteExpiryFails` | `recordExpiryDetected`: advisory lock and look-up, insert and commit; failures are swallowed |
| `GetRoleAndEvaluate` | role of the assignment and the policy's verdict |
| `AssessGate` | snapshot freshness and the gate, on the clock read earlier |
| `CreateDecision`, `Decide` | draft row; then status and audit event together |
| `AuditRefusal` | the best-effort record of a refusal |
| `Throw` | a crash or failed transaction at any point |

The other actors are `CreateReviewPackage/CreateReviewVersion/StartReview`
(`createReview`, three transactions), grants and revocations, the two
transactions of the bootstrap, the clock, the twin layer (`ChangeTwin`:
publications, supersessions and revalidations, the steps of `TwinCatalog`) and
changes of ownership. The gate's freshness assessment counts published and
superseded snapshots alike (`Counted`), as `assessFreshness` does.

A submitted call carries three pieces of history that no guard reads: `begun`
(the clock, the revoked codes and the publications when it began), `counted` (the
snapshots that have counted at some moment since) and `proven` (whether its user
has been a proven owner at some moment since). The properties say with them how
old the evidence of a decision may be.

Abstractions: identifiers are model values; a time-sensitivity is yes, no or
unknown; the evidence of ownership is the set of proven owners; reviews have one
version, because `createReview` is the only caller of `createVersion`; a request
names a review that exists (an unknown one ends in a refusal or a foreign-key
error without a decision). Delegations, rationales, modifications, outcomes and
the repository methods that nothing calls (`supersede`, `createAssignment`) are
left out.

### TwinSnapshot

`Select` is a transaction's unlocked SELECT and its check, `Update` its UPDATEs
with the trigger `enforce_snapshot_immutability` judging the row as it is then,
`Rollback` its failure. `validations` is history. The refinement maps each status to
the standing that `assessFreshness` tells apart (`Standing`), and `ApprovalWorkflow`
runs on the catalogue's own steps (`Catalogue!Change`): the two modules meet in the
abstract one. A supersession is no last word: a session that selected the row before
it may validate or publish it afterwards.

### HttpIdempotency

A request goes `lookup -> insert -> handle -> complete -> answered`. Lookup and
insert are the two statements of `begin`. A unique violation aborts the
transaction, so the SELECT that `begin` issues next fails and the request ends
in a server error (`lost_race`). `CompleteFails` is a completion that fails
without committing: the reply becomes an error, which passes the hook again.
`CompleteUnseen` is one that commits while its acknowledgement is lost: the row
holds the response, the client gets an error, and the hook completes the row a
second time, with that error. A response is told apart by the handler run it
came from and its success.

### ActionPackage

`BeginInsert/BeginRevoke/BeginExpire` are the repository's transactions up to their
checks, holding the package's advisory lock; `InsertVersion` and `InsertFact` the
writes, with the guards and unique indexes of migration 0176; `Abort` every refusal
and failure. The consumer of a package is not in the repository yet: `BeginConsume` is
any insert of a `CONSUMED` fact that the lifecycle guard accepts, on the clock it
reads then, `CommitConsume` the commit, which may come after the expiry, and
`AbandonConsume` a refusal by the unique index, a rollback or a death.
`StatusNeverRevives` says what remains: a terminal fact is the answer for ever,
nothing goes back to `ISSUED`, and after `EXPIRED` only a consumer that had inserted
its fact before can still turn the answer into `CONSUMED`. The advisory lock is not
what makes the store safe: the guards and indexes decide every race, and the consumer
takes no lock. `Decide` abstracts the decision table: `ApprovalWorkflow` proves that a
decided status is final. A document is reduced to its mode, the decision status it
states and its expiry; the digest check of a replay is the guard `~Exists`.

### EventDelivery

The repository has the tables, `CanonicalEventPublisher` and the repositories of
outbox, dead letters, attempts and inbox, but no relay process. `worker` is that
relay, in the order of steps those classes imply: `ClaimBatch` (one UPDATE with `SKIP
LOCKED`, one attempt counted per row), then for each claimed row `Take -> Find ->
Append -> MarkPublished -> RecordAttempt`. After a failure it is `RecordAttempt ->
MarkFailed -> ScheduleRetry`, with `CreateDeadLetter` at the end when the attempts are
used up, or straight after `RecordAttempt` when the content is one that no contract
admits. `Find` and `Append` are the publisher's look-up and insert under the unique
idempotency key: two workers can be between them, and the loser compares what the
winner wrote (`SameLogicalEvent`). As in the code that comparison is of type, version,
aggregate, correlation and evidence class (`IdentityOf` a content) and not of the
payload: a second event under one key that differs in its payload alone is marked
published while the ledger keeps the first one's. `Told` and `EventLog` say no more
than that. `Fault` is a transaction that fails, or one that commits without the worker
seeing it. `BecomeDue` is the delay of a retry running out.

A handler process goes `BeginProcessing -> Act -> MarkProcessed`; `effects`
counts how often its consumer acted. `StopHandler` is a handler that throws or
dies: no code writes the inbox status `failed`, although `tryBegin` reads it.

### DataAcquisition and BusinessIntake

A task is one call of a service: `submitManualIntake`, `receiveWebhook`,
`preparePackage`, `publishPackage`, `processPublishedPackage` or
`processHandoff`. `receiveWebhook` takes the receipt under its unique key
and then runs the intake; `ProcessRun` is the transaction that validates and
scores a batch, `ProcessingRejected` and `MarkRunFailed` its refusal and
`markRunFailedSafely`; `PublishOn` publishes package and run together and
`PublishRejected` is its refusal. Validation, scoring and
mapping are abstracted to their outcome, a batch of `BatchType`: how many records
are valid and invalid, the quality class on which the policies of publication and
intake decide, the change of the balance, and whether it can be mapped at all.
`PageLimit` is the default limit of the provenance read (200 in the code).

`Deliver` is the one transaction that executes a package's commands and records
the delivery; `DeliveryRefused` is what follows when it throws: the promise of the
failed-delivery record is not awaited, so nothing is recorded then. That a delivery
which fails half-way leaves none of its commands is PostgreSQL's rollback: it is
assumed by the single action, not shown.
`RecordRejectedDelivery` records a refusal of the policy and cannot overwrite a
delivery. The refinement maps the runs booked to `StockBook`'s entries. A run that is
quarantined can be brought back by a reviewer; `PublishedOnce` says that it is published
out of `validated` only, by exactly one package, and for good.

### Billing

One tenant, one metric and one month. `Read`, `CreateSelect`, `CreateInsert`,
`Conflict` and `ReadBack` are `getOrCreateSubscription` and its race on the unique
index; `Enforce` the check of `enforceActiveSubscription`; `Increment` the upsert
of the usage row, whose lock (`meter`) the transaction holds until `Settle`, where
a total over the limit throws and rolls everything back. `RecordPayment`,
`TransitionSelect` and `TransitionApply` are payment results and
`transitionStatus`, which reads without locking and writes later whatever the row
holds by then. `ListDue` and the process `Audit` are the scheduled script
`billing-lifecycle-audit`: it lists, then transitions.
`Fail` and `FailUnseen` are transactions that fail or commit unseen.

Time is abstracted: an end that is set may have come at any moment (`DueTrial`,
`DueGrace`). `payment_status` decides nothing and is left out. `served` is
history: whether the tenant was in service at some moment since the call began.

### Onboarding

| Action | Code (`OnboardingService`) |
|---|---|
| `LoadForBusiness`, `CreateBusiness` | `setBusiness`: the row, then the business under its unique code |
| `LoadForOwner`, `CreateMembership`, `ActivateMembership`, `AssignRole` | `assignOwner`, four transactions; a row that already names a membership goes straight to the bootstrap |
| `LoadEvidence`, `Grant` | `bootstrapOwnerAuthority` at its end, its evidence read from the rows the wizard made |
| `ApplySettings` | `applyDefaultSettings` |
| `ListPending`, `Invite` | `inviteTeamMembers`: those already pending are skipped |
| `Check`, `Write` | `recordStep`, `complete`, `abandon`: the unlocked SELECT with `checkStepTransition`, and the UPDATE by id |
| `Cut` | a crash between two transactions |
| `Administer` | the routes that grant and revoke an assignment (`grantApproverAuthority`, `revokeAssignment`), used by a member with the owner role while the wizard runs |

A code stands for the business it names. All calls are those of the user who
began the onboarding, as `setBusiness` and `assignOwner` refuse everybody else at
once. `Asked` is the step `resumeOnboarding` answers and `GoOn` a caller who
follows it.

`authority` holds for each business what its owner's code is used for: nothing yet, the
initiator's active assignment, one that an administrator gave to somebody else, or a
revoked one. A used code is never granted again: `assignOwner` then answers
`already-assigned`, `held-by-other` or `previously-revoked`, and the business may be
left without an active approver. `OwnerIsAuthorized` therefore claims that an answered
call has left an assignment, and that no call undoes what an administrator did to it.
Memberships, roles and business statuses are taken to change by the wizard alone;
nothing in the platform changes them for the initiator of a running onboarding.

## 3. The runs

Deadlock is checked except where everything may legitimately have ended: all
snapshots published, all versions ended, all events settled, all runs used
(`snapshots`, `unpublished`, `packages`, `events`, `dead_worker`, `intake`).

| Run | Question | Instance |
|---|---|---|
| `authority` | Can anybody decide without the authority for it? | 2 users, 1 call, 2 assignment codes, 1 classified and 1 unclassified review; 930 000 states |
| `decisions` | Does the audit trail tell what happened, is an expiry recorded once, is a decision final, and does every call end? | 2 calls on one review that expires, 1 decision code, clock 0..1; 134 000 states, liveness |
| `gate` | Was every approved recommendation valid when the call began, on a snapshot that counted? | 4 facts, one per gate rule, 2 snapshots that are published, superseded and validated again, clock 0..2; 975 000 states |
| `snapshots` | Do unlocked transitions keep publications sound? | 3 snapshots, 3 sessions; 99 000 states |
| `idempotency` | One execution, one answer, and is a persistent client answered? | 3 clients, 1 key, 2 bodies, 2 crashes, 1 failing completion, 1 lost acknowledgement; 97 000 states, liveness |
| `packages` | Does every version meet one fate? | 1 package, 3 versions, 4 documents, 2 writers and a consumer that may commit late, clock 0..2; 15 000 states |
| `events` | Is an event acted upon at most once, is what is published recorded, and does every event settle? | 2 events under one key, 4 contents (two that differ in their payload alone, one of another identity, one unpublishable), 2 workers, 2 handlers, 2 attempts, batches of 2, 1 fault, 1 crash; 461 000 states, liveness |
| `intake` | Do the records of a delivery reach the balance once and as a whole? | 2 tasks, 2 runs, 2 packages, 1 webhook key, 3 batches of which one cannot be mapped, pages of 1, a stock of 1; 526 000 states, liveness |
| `billing` | Is usage exact and entitled under races with suspension, and does every grace period end? | 2 calls and the script, a plan of 3 units and an unlimited one with a trial, 2 units a call, 1 failure; 700 000 states, liveness |
| `onboarding` | Is a completed onboarding complete, does an answered owner have an assignment that only an administrator takes away, and does the wizard end? | 2 calls, 2 business codes, an administrator on one of them, 1 crash; 584 000 states, liveness |
| `unpublished`, `dead_worker` | disagreements, see below | |

Why the bounds are enough. The properties of a decision relate one call to the
administrators, who are unbounded in number of steps, so one call is enough for them;
two are needed only where calls meet: on a decision code and on the advisory lock.
Codes are independent, so one ordinary and the owner's suffice. Two snapshots
distinguish current and stale, two ticks before, at and after the expiry. A key is
only shared among requests, so one key, with two requests of one body and one of
another. Three versions give one with a predecessor and a successor. Two events under
one key are one fact enqueued twice, the same with an amended payload, or two facts
that claim one key; two workers and two attempts give a lost race, a retry and a dead
letter. A page of one provenance record stands for 200 and is filled by a run of one
accepted record (a longer run can never be prepared, and adds nothing beyond that).
Two metered calls of two units exceed a limit of three only together. Two onboarding
calls race on each row, and one crash cuts any of them between any two transactions;
assignments of different businesses are independent, so an administrator on one of the
two shows the business with and without one. Each instance is large enough for the
mutants: for every property a plausible change of the code (a dropped guard, a missing
lock, a status spelt differently) violates it under the same bounds.

The bounds: `MaxTime` on the clocks, `MaxVersion` on versions; `MaxCrashes`,
`MaxFailures`, `MaxFaults`, `MaxLostAcks` on what goes wrong; `MaxUsage` on the
usage at which a metered call still begins; `Administered` on the businesses whose
assignment an administrator changes. `MaxAttempts`, `BatchSize` and
`PageLimit` are parameters of the code.

### Fairness

* `ApprovalWorkflow`: weak fairness of `Advance(c)`. A call that runs on a live
  server takes its next step; failures, refused audit writes, requests and clock
  ticks are never forced. A call queued on the advisory lock is not enabled, and
  `CallsEnd` holds because the lock's holder moves on or dies, and PostgreSQL
  releases the lock of a dead session.
* `HttpIdempotency`: the server carries on every request, and clients keep
  retrying; without crashes this answers them. With a crash it does not: the claim
  has no lease, and each retry is refused as in progress (`OrphanedForGood`).
  Completions that fail again and again would do the same; only `MaxFailures` keeps
  that out.
* `EventDelivery`: each worker keeps working and delays run out. `EventSettles`
  is claimed as long as no process dies; `dead_worker` shows why.
* `BusinessIntake`: each task goes on. `RunSettles` is claimed unless a call was
  cut off in the middle, which includes one whose `markRunFailed` itself fails.
* `Billing`: each command of the script is run again and again and the script
  goes on, as its schedule says. Calls are never forced.
* `Onboarding`: calls that run go on (weak), and a caller who comes back again and
  again makes the call that is asked for (strong: the call is possible only while
  no other one of the caller's occupies the process). Nothing forces a caller to
  abandon, nor a crash.

### Disagreements between the code and what it says

With a run:

* `unpublished`: a superseded snapshot counts as once published, but only
  unpublished ones can be superseded. The approval gate inherits this: an approval on
  a snapshot that was superseded and never published passes, so
  `ApprovalRestsOnValidFacts` asks for a snapshot that counted, not for a published one.
* `dead_worker`: a claim has no lease, so the row of a worker that dies stays in
  `processing` for ever, against "at-least-once delivery". `AbandonedForGood` proves it
  for any number of workers: no later claim, no further attempt.

Seen while modelling; the properties say what holds instead:

* Approval. The assignment is read once, at the start of a call, so a revocation
  that commits later does not stop that call's decision, although the comment on
  `revokeApproverAuthority` (`packages/workflow/src/DecisionWorkflowService.ts:310-312`)
  says that afterwards the grantee has no authority; `DecisionRestsOnAuthority` is
  what holds. A recommendation that expires, or is overtaken, between the reads and
  the decision is approved, against
  `docs/architecture/reconciliation/P0-3_HANDOFF.md:6`; `ApprovalRestsOnValidFacts`
  is what holds. Two approvers can both decide one review, under two codes. A crash
  between `createDecision` and `decide` leaves a draft whose code is used up
  (`DraftIsLost`).
* Packages. The comment at line 393 of
  `infrastructure/database/migrations/0176_create_authorized_action_packages.sql` says
  that consumption "can never be recorded for a package that has already expired". The
  guard judges the clock when the fact is inserted and the fact is seen when it is
  committed, so `EXPIRED` may be answered first and `CONSUMED` after it;
  `StatusNeverRevives` is what holds.
* Idempotency. The loser of a race for a key gets a server error, not the replay
  its comment promises (`IdempotencyKeyRepository.ts:68-69`).
* Onboarding. `docs/production-readiness/operating-procedure-build19.md:64-66` says
  that every step call is safe to retry. A call cut off after
  `memberships.create` and before the owner step is recorded leaves a membership
  the row does not name, and every later `assignOwner` fails with
  `MembershipAlreadyExistsError`, so that the onboarding is never completed
  (`CutOffForGood`); `assignOwner` before `setBusiness`, which an
  existing test makes, does the same. A late `setBusiness` sets the row back behind
  the owner step. These are the two states of `Stranded`, the only ones in which a
  persistent caller is not brought to an end (`WizardEnds`). Late writes also set
  `current_step` back or turn `completed` into `abandoned`, and two `setBusiness`
  calls make two businesses; `CompletionIsEarned` and `OwnerIsAuthorized` hold
  through all of that. An `assignOwner` that answers does not mean that its caller can
  approve: after a revocation it answers and leaves no active approver, as the
  repository's own test has it.
* Eventing. `publishClaimed` answers with the row's id where the ledger holds the id
  of the prior event. An event that repeats a key with another payload is taken for a
  replay: its row is published and its payload is nowhere in the ledger. Failed rows
  can be claimed again at once, before their retry is scheduled. No code writes the
  inbox status `failed`.
* Data intake. Preparation compares all valid records of a run with a provenance read
  of at most 200, so a larger run is validated but can never be published
  (`DataAcquisitionService.ts:667`, `PublicationService.ts:48-49`; `LongRunsStay`).
  The failed delivery of a transaction that throws is not recorded
  (`BusinessIntakeService.ts:293`).
* Billing. The script can suspend a subscription that a payment reactivated
  between listing and transition, against the comment at its head (lines 3-6). A
  transition that read before a cancellation and writes after it revives the
  canceled subscription, and the status history then names a state that was not
  there. A throw on an exceeded limit rolls back the trail that
  `UsageRepository.ts:49-51` says remains. A failed payment does not restart a
  running grace period.

## 4. The proofs

All theorems hold for any constants that satisfy the modules' named assumptions:
any number of users, calls, workers, keys, versions and so on, and any bound. The
assumptions say no more than that NULL is none of the values it may stand beside,
that bounds are natural numbers, and how parameters relate (a free plan without
trial days, the code of the owner among the codes).

| Module | Theorems |
|---|---|
| `ApprovalWorkflow_proofs` | `Invariance`, `TypeCorrect`, `ApprovalSafe` (`ApprovalRespectsRisk`), `ApprovalValid` (`ApprovalRestsOnValidFacts`), `DecisionAuthorized` (`DecisionRestsOnAuthority`), `AuditAgrees` (`AuditMatchesDecisions`), `ExpiryOnce` (`ExpiryRecordedOnce`), `AuthorityNeverReturns` (`AuthorityIsFinal`), `DecisionNeverChanges` (`DecisionIsFinal`), `DraftIsLost` |
| `TwinSnapshot_proofs` | `TypeCorrect`, `PublicationSound` (`PublishedIsSound`), `CatalogueImplemented` (`CatalogueSpec`) |
| `HttpIdempotency_proofs` | `TypeCorrect`, `HandledAtMostOnce` (`AtMostOnce`), `AnswersAlwaysAgree` (`AnswersAgree`), `ResponseIsFinal`, `OrphanedForGood` |
| `ActionPackage_proofs` | `TypeCorrect`, `IssuedForApproved` (`IssuedOnlyForApproved`), `NeverRevives` (`StatusNeverRevives`), `FatesImplemented` (`FatesSpec`) |
| `EventDelivery_proofs` | `TypeCorrect`, `ActsAtMostOnce` (`ActedAtMostOnce`), `HistoryTrue` (`HistoryIsTrue`), `LogImplemented` (`LogSpec`), `AbandonedForGood` |
| `BusinessIntake_proofs` | `TypeCorrect`, `PublishedByOnePackage` (`PublishedOnce`), `WebhookBookedOnce` (`BookedOnce`), `DeliveredIsExecuted` (`DeliveriesAreBooked`), `IntakeImplementsBook` (`BookSpec`), `LongRunsStay` |
| `Billing_proofs` | `TypeCorrect`, `UsageAlwaysExact` (`UsageIsExact`), `UseIsEntitled` (`EntitledUse`), `GraceAlwaysTimed`, `ProvisionSucceeds` (`ProvisionNeverLost`) |
| `Onboarding_proofs` | `TypeCorrect`, `CompletionEarned` (`CompletionIsEarned`), `OwnerAuthorized` (`OwnerIsAuthorized`), `CutOffForGood` |

The common argument. What a property speaks of was checked several transactions
before it is written, so no property is inductive as it stands. Each module's
inductive invariant says what a process has established by the time it reaches
each program counter, and what everybody else leaves alone meanwhile.

* **Approval.** `IInv`: past the assignment the code is its user's and was not revoked
  at the start, past the role the tier suffices for the facts, past the gate there are
  facts (`CallsEstablished`); each decision is tied to the call that wrote it
  (`DecisionsTied`). Nothing changes an assignment except to revoke it
  (`NextAuthority`), nothing changes the facts of a review (`NextFacts`). A call's own
  step is treated action by action (`StepEstablished`), the steps of others leave its
  record alone (`StandsStill`), and a change of ownership only adds to `proven`.
  `LadderSound` shows that the tiers amount to the roles that `ApprovalRespectsRisk`
  names class by class. Three more invariants stand on `IInv`, each proved by itself.
  `Evident`: a call past the gate has facts that were valid on the clock it read,
  which is no earlier than its beginning, against publications that contain those of
  its beginning, and on a snapshot that has counted since; the clock, the publications
  and the record of what has counted only grow (`TimePasses`), so a late judgement is
  no weaker than the one the property asks for, although a snapshot that counts by
  supersession may stop to. `ExpiryInv`: only the holder of the advisory lock is about
  to insert (`LockSound`), and then there is no event yet, whoever else fails or dies.
  `AuditInv`: what a call has written follows from where it is (`AuditTold`), and a
  row names a call that got as far as creating it (`RowsOwned`).
* **Snapshots.** `SessionsSound`: whoever is about to publish selected a snapshot
  that a committed validation covered, and validations are never undone. The
  refinement then needs only that no status leaves `published`.
* **Idempotency.** `RequestSound` says what a request may rely on at each step and
  how an answer relates to the row, `KeySound` how the row relates to the number
  of executions, and `ClaimedAlone` that only one request holds a key's claim;
  `StillAlone` carries the last through every step. After a lost acknowledgement
  the row may already be completed, which is why `ResponseIsFinal` excepts it.
* **Packages.** `Line`: the stored versions of a package are an initial segment,
  all but the last superseded, the last live or ended once; `HeldAlone`: the
  advisory lock has one holder; `SessionSound`: what the holder has checked.
  Extending and closing a line are the two steps of `PackageFates`. The
  consumer, who takes no lock, can only close a line, however late it commits, and the
  guards of the database refuse a writer that comes after. A claim names a stored
  version, and none is made once the version is past its expiry.
* **Events.** A published row's identity is that of the ledger's entry; a worker past
  the append has such an entry; a handler that is to act is the only one with the
  event, and nobody has acted yet. For the refinement each action maps to one of
  `Raise`, `Record`, `Publish`, `Bury` or to a stutter.
  The history of attempts needs an invariant of its own (`HistoryInv`). A claim hands
  out an attempt number that is higher than all before it to one worker, who holds it
  until it records it, once (`ClaimsInv`); a success is recorded, or held, only for a
  published event, and a published event is never claimed again, so there is no second
  one (`SuccessInv`); no event is dead-lettered without a letter (`LettersTold`).
* **Intake.** A call that is about to publish or to deliver names a package whose run
  has been processed, and keeps its records from then on (`TaskSound`, `Grows`). The
  packages that were issued correspond one to one to the published runs
  (`IssuedSound`), a run is published out of `validated` and stays so, it is booked
  exactly if its issued package is delivered (`BookedSound`), and the unique index
  leads each delivery to one run (`ReceiptSound`): together they make the balance move
  once. For the refinement the row of a published run must not change any more
  (`PublishedStays`), as its entry in the book is computed from it; every step but
  `Deliver` is a stutter.
* **Billing.** `InPlace` ties program counters to kinds of calls; a call past
  `enforce` has `served` (`Entitled`); one that holds the usage row has its total
  right and inside the plan it read (`Metered`), and before the first subscription
  nothing has been used (`UnusedBefore`), so that the plan it brings cannot be
  exceeded already.
* **Onboarding.** `RowSound`: the completed steps are closed downwards and each has
  what it stands for; `CallSound`: a call that is about to write a step has made
  it and has seen the one before it completed, which no later write undoes
  although it may set the current step back; `Apart`: the business that a call is
  about to record is nobody else's and not on the row yet. A step changes an assignment
  that exists only by revoking it (`AssignmentKept`).

Five theorems state no property of a run. They say for any number of processes what
the disagreements of section 3 amount to: a claim whose holder is gone is never given
up (`OrphanedForGood`, `AbandonedForGood`), what a cut-off call has left behind blocks
every retry (`DraftIsLost`, `CutOffForGood`), and a run longer than a page is stuck
(`LongRunsStay`). Each says that a state, once entered, is never left, whatever all
others do; with `ResponseIsFinal` and `GraceAlwaysTimed` they complete the theorems of
properties that runs check.

Only model-checked: liveness (`CallsEnd`, `RetryIsAnswered`, `EventSettles`,
`RunSettles`, `GraceEnds`, `WizardEnds`), which is out of the prover's reach, as it
rests on fairness and ENABLED. Every invariant, action property and refinement that a
passing run checks is also proved. `OnlyPublishedCounts` and `ClaimedIsRetried` are
refuted by their runs.

## 5. What is not modelled, and the plan

Done: `ApprovalWorkflow`, `TwinSnapshot`, `HttpIdempotency`, `ActionPackage`,
`EventDelivery`, `DataAcquisition` with `BusinessIntake`, `Billing` and
`Onboarding`, with proofs of all their properties but liveness.

Next, in this order:

1. Point of sale: orders, register sessions and purchase orders. Its hazards: two
   completions of one order, a line added after completion, completion racing
   void, a total recomputed from stale lines, a sale in flight when its register
   closes.
2. The composition of `HttpIdempotency` and the entitlement check with
   `ApprovalWorkflow`: a decision behind a key is made at most once.
3. Platform incidents and the ABA hand-off packages, as one module of unlocked
   status machines each; then approved actions, control gates and execution
   plans.
4. Event subscriptions and replay, several onboardings of one user.

Not modelled at all: authentication and permission checks (the models start
with an authenticated, permitted principal), numeric simulation, prompt and text
generation, rendering, contracts and validators, and tenant isolation by row-level
security (all state here is one tenant's). Most lines of the repository are the
browser prototypes at its root and the per-table repositories of the layers. The
former are superseded by the platform and run in one thread of one page; the
latter repeat, table by table, the create, transition and read methods that
`TwinSnapshot` stands for.
