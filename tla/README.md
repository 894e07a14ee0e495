# Formal models of the lottery back end

TLA+ specifications of the lottery services in this repository, model-checked
with TLC and, for the parts named below, proved with TLAPS.  Every definition is
translated from the source; `PROJECT.json` maps each to its lines.

## 1. Inventory

The system is a NestJS API on PostgreSQL (Prisma, READ COMMITTED, explicit
`FOR UPDATE` locks) and two workers.  They share nothing but the database.

| component | state it keeps | operations | what makes it hard | correct when |
|---|---|---|---|---|
| tickets API (`tickets.service.ts`) | quotes, tickets, ticket_items | create quote, confirm (manual credit or external wallet), check, list | confirm races with another confirm and with a closing round | a quote makes one ticket; a ticket is made only while its round is open |
| wallet outbox worker (`wallet-outbox-worker/src/main.ts`) | `wallet_outbox`, the mirrored columns of `tickets` | claim, call wallet, apply answer, retry, recover stale, reconcile, operator's marks | calls happen outside transactions; leases expire under them; answers are lost; workers crash | see section 4.1 |
| settlement worker (`settlement-worker/src/main.ts`) | `settlement_jobs`, tickets, ledger, accounts, credit rows of the outbox | settle by id, settle from the queue, recover | one long transaction with many row locks; several workers and jobs on one round | see section 4.2 |
| results (`results.service.ts`) | results, a settlement job for each | post | nothing keeps a round from a second result | whatever results a round has, a ticket that has WON is paid |
| manual credit (`manual-credit.service.ts`) | users, accounts, ledger | create user, topup, deduct, change status | balance computed in the program under a row lock; status read without one | balance = sum of the ledger; never negative |
| idempotency (`idempotency.service.ts`) | `idempotency_keys` | run a handler once per key | duplicates arrive together; handlers fail | one effect per key, same answer for all |
| rounds (`rounds.service.ts`) | rounds, their audit entries | create, patch, current | a patch judges what it read without a lock; any status may follow any other | times in order, no patch lost, no bet after the result |
| ops scheduler (`ops.service.ts`) | timer, a flag | one cycle of both workers, start, stop | an exception in one section skips the following ones; several API processes each have one; stop and start around a cycle in flight | cycles of a process do not overlap; no job is settled twice; every section gets its turn |
| rules, domain (`packages/`) | none | outcomes, straight bets, eligibility, round times | the rule exists three times, eligibility twice; amounts are floating-point numbers | API and worker agree on who wins and who may be settled; balance and ledger agree to the cent |
| audit, catalog, health, config, demo pages, HTTP layer, UI | none that others act on | — | — | — |

How they meet:

* confirm of an external ticket inserts the ticket (`PENDING_FUNDING`) and a
  `WALLET_DEBIT` row in one transaction; the wallet worker turns the row's final
  status into the ticket's `funding_status` and `status`;
* posting a result inserts a settlement job; the settlement worker settles the
  confirmed tickets of the round, credits manual winners and inserts a
  `WALLET_CREDIT` row for external ones; the wallet worker turns that row's final
  status into the ticket's `payout_status`;
* settlement, topup, deduct and confirm share a lock on the user's credit account;
* the scheduler calls the workers' jobs in a fixed order, again and again.

The hazards this code has, each at its line, are listed in `PROJECT.json`.

## 2. Modules

| module | what it is |
|---|---|
| `WalletOutbox` | wallet outbox worker, operator service, and the writes of the API and of settlement to the same two tables |
| `TicketLifecycle` | abstract specification: the order of phases an external-wallet ticket may pass through |
| `WalletOutboxProofs` | theorems about `WalletOutbox`, the implementation of `TicketLifecycle` among them |
| `Settlement` | settlement workers, transactions and row locks |
| `SettlementProofs` | theorems about `Settlement`, that its tickets follow `TicketLifecycle` among them |
| `TicketConfirm` | the API's requests on quotes, rounds and credit accounts: quote, confirm, manual ticket, topup, deduct, patches and results |
| `Accounts` | abstract specification: the ledger of a user as a chain of entries |
| `TicketConfirmProofs`, `AccountsProofs` | theorems about them, the implementation of `Accounts` among them |
| `Idempotency` | `IdempotencyService.run`, requests under one key |
| `OncePerKey` | abstract specification: one effect and one answer per key |
| `IdempotencyProofs` | theorems about `Idempotency`, the implementation of `OncePerKey` among them |
| `OpsCycle` | the schedulers of several API processes, the sections of a cycle, the order of both queues, the recovery of settlement jobs |
| `OpsCycleProofs` | theorems about `OpsCycle` |
| `Rounds` | creation and patches of rounds, their times and audit trail |
| `RoundsProofs` | theorems about `Rounds` |
| `Rules` | outcomes and straight bets, as the packages and the worker compute them, and what they mean |
| `CreditLedger` | amounts below a cent: quotes, bets, payouts, topups and deductions of one account |
| `CreditLedgerProofs` | theorems about `Rules` and `CreditLedger` |
| `MCWalletOutbox`, `MCSettlement`, `MCTicketConfirm`, `MCIdempotency`, `MCOpsCycle`, `MCRounds`, `MCCreditLedger` | instances for TLC |

Definitions that only serve to show that a property can fail (a dropped guard, an
off-by-one) stand before the definition they vary and are marked *Mutant*.

## 3. How the models correspond to the code

### 3.1 WalletOutbox

One action is one database transaction or one call of the wallet.  A row of
`wallet_outbox` is identified by its ticket and type; the code makes at most one
`WALLET_DEBIT` row for a ticket, and at most one `WALLET_CREDIT` row as shown in
`Settlement`.  Its record keeps `status`, `retry_count`, `waiting` for
"`next_retry_at` lies ahead" and `leased` for "`updated_at` is younger than
`leaseTimeoutMs`".

| code | model |
|---|---|
| `confirmExternalWalletTicket` | `ConfirmExternalWalletTicket` |
| `settleTicket`, `enqueueWalletPayout` | `SettleTicket` |
| `WalletOutboxStateService.transition` | `Transition`, for the statuses `OperatorMarks` |
| `claimDuePendingRows` | `claimDuePendingRows`, `Batch` |
| `processClaimedRow` before its transaction | `CallWallet` (`WalletAnswers` is the wallet) |
| `processClaimedRow`, its transaction | `ApplyAnswer` |
| `scheduleRetryOrFail`, `applyFinalStatus`, `updateRelatedTicket` | operators of those names, parts of the actions that call them |
| `recoverStaleProcessingRows`: first transaction / one per row | `SelectStale` / `RecoverRow` |
| `reconcileUnknownOutboxRows`: `lockUnknownRows` / call / transaction | `lockUnknownRows` / `ReconcileCall`, `ReconcileUnknown`, `ReconcileThrows` / `ReconcileApply` |
| clock passes `next_retry_at`, the lease | `BackoffElapses`, `LeaseTimesOut` |
| process dies, or a transaction of a run throws out of it | `Crash` |

Each worker keeps what its run holds in memory: the rows it read (`todo`), the
row it has called the wallet for (`cur`) and the answer (`ans`).  `cutoff` is the
part of a recovery's rows whose `updated_at` has not changed since, which is what
the comparison with the cutoff of the run tells.  Rows of a batch are taken in any order; the
code takes them oldest first, so the model has all its behaviours and more.

The wallet is external.  It is taken to be idempotent by `operation_ref`: `moved`
is a set.  A definite answer is honest; an answer that throws or is UNKNOWN says
nothing.  Reconciliation is honest about what has moved.

Eligibility for settlement is there twice, as in the code: `isEligibleTicket` is
the worker's, which asks for a SUCCEEDED debit row, and
`isTicketEligibleForSettlement` the domain package's, which asks the ticket.

### 3.2 Settlement

A worker's transaction is a private set of writes (`touched`, `bal`, `credited`,
`paid`, `enqueued`) that `Commit` publishes at once and `EndTransaction` forgets.
Locks follow from the writes: a ticket's items are locked by the worker that has
`touched` it, an account by the worker that has it in `accounts`, a job by the
worker that settles it.  A statement that meets a lock waits, as its guard says.
Reads see what is committed at that moment (READ COMMITTED), which is why
`todo`, read once, can be stale when a ticket's turn comes.

| code | model |
|---|---|
| `lockSettlementJob` by id / from the queue | `CallById`, `ClaimById` / `ClaimQueued` |
| `loadEligibleTickets` | `LoadEligibleTickets` |
| `settleTicket` to the first look for a payout | `UpdateItems` |
| `creditManualPayout` | `CreditManualPayout` |
| `enqueueWalletPayout` | `enqueued` in `UpdateItems` |
| UPDATE of the ticket, UPDATE of the job, COMMIT | `Commit`, `SettledTicket` |
| `catch` of `settleSettlementJob` | `RollBack` to "catch", then `MarkFailed` |
| PostgreSQL's deadlock detector | `Deadlocked`, `DeadlockVictim` |
| `createResultAndSettlementJob`, `applyLockedLedgerChange` (topup) | `PostResult`, `Topup` |
| `updateRelatedTicket` of the wallet worker: a debit / a credit has SUCCEEDED | `DebitSucceeds` / `CreditSucceeds` |

An error inside `creditManualPayout` is caught by `settleTicket`, but a
PostgreSQL transaction is aborted by any statement that fails, so the next
statement fails as well and the whole transaction rolls back; `DeadlockVictim`
and `TransactionFails` do that.  A job becomes PROCESSING in the same transaction
that ends it: the status is never committed and this module has no such status
(`OpsCycle` has it, for jobs found in it).  Whether a ticket wins is `Wins`, a
constant per job, and the amounts of its items are one `Payout`; `CreditLedger`
has both in full.

`walletPaid` has the tickets whose credit row has SUCCEEDED: the wallet worker has
then written the payout on the ticket and does not look at the row again, so
nothing repairs a later `settleTicket` that overwrites it (`main.ts:324`).

The tickets of a round exist from the start, since a settlement reads those that
are there; what a confirmation that comes late does is the matter of
`TicketConfirm`.

### 3.3 TicketConfirm

Each request of the API is one transaction, opened by `IdempotencyService.run`.
A client is at one statement of its request (`pc`); its locks follow from where
it is: the quote it confirms from `readRound` on, the account it has read
(`account`) until it ends.  What a transaction writes is seen by nobody before
its commit and it takes no further lock after the account's, so the writes and
the commit are one action.

| code | model |
|---|---|
| `createQuote`, `createQuoteRecord` | `CreateQuote`, `MayQuote` |
| `confirmTicket` | `ConfirmTicket`, then the statements of `confirmQuote` |
| `createManualTicket` | `CreateManualTicket`, then the statements of `confirmQuote` after the lock, which is free |
| `confirmQuote`: the quote FOR UPDATE / the round | `LockQuote` / `ReadRound` |
| `confirmManualCreditTicket`: account and balance | `LockAccount` |
| `applyLockedLedgerChange`, `topup`, `deduct` | `ApplyLedgerChange` (positive and negative amounts), `PostEntry` |
| `createTicketFromQuote`, the debit row, the quote's status | `CreateTicket` |
| COMMIT / any failure before it | `Commit` / `RollBack` |
| `rounds.patch`, `createResultAndSettlementJob`, `updateUserStatus` | `PatchRound`, `PostResult`, `UpdateUserStatus` |
| the clock passes `expires_at` | `QuoteExpires` |

`CreateQuote` is one step though it reads the round before it inserts: it locks
nothing, and what it read of the round is asked again by the confirmation.  The
user's status is not asked again by anybody, and no property is about it.
`tickets.quote_id` is unique, which is the first conjunct of `CreateTicket`; it
never decides, as `RequestsNeverBlock` proves.  The ticket's foreign key locks the
round FOR KEY SHARE and an update of the round's status takes FOR NO KEY UPDATE;
the two do not conflict, so `PatchRound` and `PostResult` have no guard.
A topup or deduction reads the user under the account's lock, but the user's row
itself is not locked.  A request that is refused ends without a trace.

### 3.4 Idempotency

The INSERT comes first in the transaction, so the uncommitted row is the lock: a
second INSERT of the key waits (`KeyFree`) and, when the first has committed,
does nothing and goes to `readExisting`; when it has rolled back, the second is
the first.  A handler answers something no other run of a handler answers (it
has made a ticket, an entry, a round): `runs`.  The public token of a ticket is
taken out of the stored response and put back on replay; it is computed from the
ticket, so the answer is the same.  The branch of `readExisting` for a row that
is not there is unreachable, since no key is ever deleted, and the one for a row
without a response is there in the model and never taken, as `TypeOK` shows.
`delivered` remembers the successful answers that reached a caller.

### 3.5 OpsCycle

A process has its interval (`timer`), its flag (`tickInFlight`) and its cycles in
flight, one `Slot` each; the code has no such slots, and nothing but the flag
keeps a process from having two cycles, which is what is shown.  A stop clears the
interval and leaves the cycle alone, as `clearInterval` does.

| code | model |
|---|---|
| `onModuleInit` / `startScheduler` | `Boot` / `StartScheduler` |
| `runTick` up to the call of `runOneCycle` / its `finally` | `MayTick`, `BeginCycle`, `Tick` / `EndCycle` |
| `stopScheduler`, `onModuleDestroy` | `StopScheduler`; the process then ends by `Exit`, which may also come at any time |
| `runOneCycle`, section after section | `section`; each section's actions end in `GoTo` the next |
| an exception out of a section | `SectionThrows`, `SettlementFails` |
| `recoverStaleProcessingRows`, `processPendingOutboxRows` | `RecoverWalletRows`, `ProcessWalletRow`, `WalletRowsProcessed` |
| `reconcileUnknownOutboxRows` | `ReadUnknownRows`, `ReconcileRow`, `RowsReconciled` |
| `recoverStaleProcessingJobs`: first transaction / one per job | `SelectStaleJobs` / `RecoverJob`, `JobsRecovered` |
| `settleQueuedJob`: the claim / the rest of the transaction | `ClaimJob`, `NoQueuedJob` / `SettleJob`, `SettlementFails` |

The wallet sections are coarse, since `WalletOutbox` has them in detail: a queued
row leaves the queue or stays, and what matters here is the queue of UNKNOWN rows,
kept in the order of `updated_at`.  An UNKNOWN answer leaves a row where it is.
A settlement is one step after its claim, since `Settlement` has it statement by
statement; until then the job is locked (`held`) and PENDING to everybody else.
`Interrupted` jobs are PROCESSING at the start, with a lease that is over: no
transaction of this code commits that status, but the recovery is written for
such rows and `tests/integration/operational-runner.test.ts:95` makes one.
`Poisoned` jobs are those whose settlement throws every time (a payload without a
result, say); the job was not named by id, so it stays PENDING and the oldest.

### 3.6 Rounds

`create` reads nothing before its insert and is one step.  `patch` is two: the
unlocked read with the check of what the round would become (`GetRound`), and the
UPDATE of the columns the input names, with the audit entry, up to the commit
(`PatchRound`).  An UPDATE waits for a row that is being written, so it always
writes on top of what is committed, and the table's CHECK judges the outcome.
Times are compared only with each other and are small numbers.  Posting a result
updates the round in the same way without asking for its status.  The audit entry
of a patch also keeps what it had read (`before`), which is left out: it may be
old, and nobody acts on it.

### 3.7 Rules and CreditLedger

`Rules` has the three forms of the rule for straight bets as the code has them and
one form as one would explain it (`StraightBetWins`: as many digits as the bet's
type, each equal to the result's digit at the same distance from the end).

`CreditLedger` counts money in cents and amounts that have not been rounded yet in
quarters of a cent.  `toFixed(2)` of a floating-point number gives a nearest cent;
exactly between two, the binary fraction that stands for the decimal lies on one
side, so `toFixed2` allows both.  Sums are exact on this grid.  A floating-point sum
is off by less than 0.02 cents for any NUMERIC(14, 2), which can decide the
rounding only of an amount that close to a half without being one; the grid has no
such amount, and nothing is claimed of them.  `Numeric2` is the database's rounding, half away
from zero, for what it gets as a Decimal.  A topup hands the rounded balance to
the account and the amount as it came to the ledger.  Each handler is one step:
`TicketConfirm` and `Settlement` show that the account's lock makes it one.

## 4. What is checked

### 4.1 Wallet outbox

| run | instance | properties |
|---|---|---|
| `wallet_safety` | 2 tickets, 2 workers, `MaxRetries` 2, batches of 2, 1 crash | `RetryBound`, `WalletCallsBounded`, `SucceededMeansMoved`, `NoPayoutBeforeStake`, `UnretriedFailureMeansRefused` |
| `wallet_operator` | 1 ticket, 2 workers, `MaxRetries` 2, an operator with every mark, 1 crash, `FairSpec` | `TypeOK`, `TicketMirrorsOutbox`, `EligibilityAgrees`, `EveryTransitionAllowed`, `TicketsFollowLifecycle`, `RowsLeaveTheQueue` |

Two workers are enough for one to hold an answer whose claim another has taken
away; two tickets put rows of different tickets and types in one batch;
`MaxRetries` 2 gives a retry and its end.  Bounds:
`MaxCrashes`; everything else is finite by itself.

What the runs show: however claims, leases, answers and crashes interleave, the
wallet is called at most `maxRetries` times for an operation; no row is SUCCEEDED
unless the wallet did it or an operator said so; a row that FAILED at first
asking was really refused.  The last one is as much as the code gives: after a
lost answer, spent retries make a row FAILED whose money has moved (a thrown call
is taken for a retryable refusal, `main.ts:508`).

Fairness of `FairSpec`: backoffs and leases pass (weak); a run that has started
goes on (weak); a row that is due or stale again and again is picked in the end
(strong), since the scheduler repeats the jobs and they read the oldest rows
first.  Nothing is assumed of reconciliation or of the wallet's answers.

### 4.2 Settlement

| run | instance | properties |
|---|---|---|
| `settlement_safety` | 2 workers, 6 tickets of 2 users in 2 rounds (manual winners in opposite orders, an external winner funded late, an external loser), 3 jobs (one round has its result twice, and the second time a winner loses), 1 failure or crash, 1 topup | `TypeOK`, `PayoutOnce`, `BalanceMatchesLedger`, `PaidIffWon`, `WonMeansPaid`, `PayoutShown`, `SucceededMeansSettled` |
| `settlement_liveness` | 2 workers, 2 rounds whose winners lock two accounts in opposite orders, a ticket funded late, 1 failure, `FairSpec` | `JobsFinish` |
| `settlement_rerun` | as above, without fairness | `SucceededJobsStay` is violated |

Nothing keeps a round from a second result, and no document says what it should
do.  The properties say how far the code can be trusted with it.  A ticket that is
WON has been paid, whatever results are posted and however old the copy a worker
settles by (`WonMeansPaid`).  Where the results so far agree on a ticket, it is
paid exactly if it has WON (`PaidIffWon`); where they do not, a ticket may have
been paid by one job and be LOST by another.  While a round has one result, a ticket
the wallet has paid says so (`PayoutShown`); a second job, the same result or
another, that has read the ticket before can put its payout back to PENDING after
the wallet has paid, for good.

Bounds: `MaxFailures` (failed transactions and crashes together), `MaxTopups`.
Deadlocks are not counted by a bound.

Fairness of `FairSpec`: an idle worker that can claim a job again and again does
(strong: callers by id may keep it busy in between); a call goes on (weak); a
transaction that waits for an account gets it in the end (strong: PostgreSQL
wakes the waiter when the lock is released, and the others need several
statements to come back).

`settlement_rerun` is a disagreement between the code and what its tests and
`terminalSettlementJobStatuses` say: see "findings" in `PROJECT.json`.

### 4.3 Tickets and accounts

| run | instance | properties |
|---|---|---|
| `ticket_safety` | 2 clients, 1 user, 1 round, a manual quote and an external one, amounts 1 and 2, 2 topups or deductions, 1 failure, `FairSpec` | `TypeOK`, `TicketPerQuote`, `ImplementsAccounts`, `RequestsEnd` |
| `ticket_round` | 2 clients, an external quote | `TicketsWhileOpen` is violated |

Two clients can confirm one quote, or meet in one account from different
requests; three of them add no pair of statements that two do not have.  Bounds:
`MaxChanges`, `MaxFailures`.  Fairness: a statement that can run does (weak); a
lock that becomes free again and again is got in the end (strong), since
PostgreSQL queues those who wait.

`ticket_round` is a disagreement between the code and what its test expects of a
round closed after the quote: the round may close, or get its result, between the
confirmation's read and its commit.

### 4.4 Idempotency

| run | instance | properties |
|---|---|---|
| `idempotency_safety` | 3 clients, 1 key, 2 bodies, 3 runs of handlers, 2 failures, `FairSpec` | `TypeOK`, `EffectPerKey`, `ImplementsOncePerKey`, `RequestsEnd` |

Three clients are one that holds the key and two that wait for it with different
bodies; keys share nothing, so one is enough.  Bounds: `MaxRuns`, `MaxFailures`;
handlers may throw as often as they like, so the bound on runs keeps nobody waiting.  Fairness: a request goes on
(weak); a key that is free again and again is inserted in the end (strong).

### 4.5 Scheduler

| run | instance | properties |
|---|---|---|
| `ops` | 2 processes with a scheduler each, 2 slots for cycles each, 2 outbox rows of which the wallet never knows one, 2 jobs (one found PROCESSING, one that always fails), batches of 2, 1 fault, `FairSpec` | `TypeOK`, `CyclesDoNotOverlap`, `JobSettledByOne`, `SettledJobsStay`, `JobsGetSettled`, `UnknownRowsResolved` |

Two slots are enough to see a second cycle beside a first, two processes to claim,
recover or settle the same job.  Bound: `MaxFaults`, for exceptions, stops and
crashes together; a failing settlement is not counted and repeats for ever.

Fairness of `FairSpec`: a process comes up, its interval fires again and again, a
cycle in flight goes on (weak); a stopped process ends and comes up again (weak:
`stopScheduler` is only called when the module is destroyed); a row lock of a job
that is free again and again is got (strong).

What it shows, beyond safety: the interrupted job is recovered and settled, and a
row the wallet knows is reconciled although another one stays in front of it.  The
limits stand in the properties: a job behind one that always fails, and a row
behind a full batch of rows nobody can resolve, wait for ever.

### 4.6 Rounds

| run | instance | properties |
|---|---|---|
| `rounds` | 2 patches in flight on 1 round, 3 instants, patches of one time, of two, of the status, of both and of nothing, 4 audit entries | `TypeOK`, `TimesInOrder`, `AuditEndsAtRound`, `OnlyNamedColumnsChange` |

Rounds share nothing, so one is enough; three instants are the fewest with times
in order, out of order and equal.  Bound: `MaxEntries`.  `TimesInOrder` needs the
CHECK of the table: each patch may be in order with what it read and both not be
in order together.

### 4.7 Amounts and rules

| run | instance | properties |
|---|---|---|
| `ledger` | 2 tickets on 1 account, 4 slips (a cent; one and a half with half a cent on two types; a selection too short; a stake that comes to nothing), changes of 0.25, 0.5, 1, 1.5 and 4.75 cents, 3 changes, 2 results, balances up to 16 cents | `TypeOK`, `DriftBounded`, `PaidByTheRules` |
| `ledger_half` | one topup of 1.5 cents | `LedgerExplainsBalance` is violated |

The amounts lie below, at and above the half.  One result ends in the digits that
are bet on, the other begins with them.  Bounds: `MaxChanges`, and `MaxCents` for
the width of the columns.  `ledger_half` is a disagreement between the code and
`docs/manual-backoffice.md`; `DriftBounded` says how far it goes: a cent for every
amount of exactly half a cent that was asked for, and nothing else ever adds to it.

`CHECK_DEADLOCK FALSE` is set where the system does stop: every ticket settled and
paid, every job done, every bound reached.  `ops` never stops and is checked for
deadlock.

## 5. What is proved

`WalletOutboxProofs`, for any sets of tickets and workers and any values of the
other constants allowed by `WalletOutboxAssumption`:

* `TypeCorrect`: `Spec => []TypeOK`.  `TypeOK` is not inductive: `ApplyAnswer`
  writes an answer into a status column and RETRYABLE is no status.  The
  inductive invariant `TypeInv` adds `ReconcileDefinite`: only a run that
  processes or reconciles has an answer in hand, and a reconciliation's answer
  is SUCCEEDED or FAILED.
* `StepsAreTableSteps`: every step changes the two tables in one of six ways
  (confirm, settle, claim, finish a row, retry a row, let a time pass).  The
  other theorems go by these six.
* `RetriesBounded`: `Spec => []RetryBound`.
* `TicketsMirrorRows`: `Spec => []TicketMirrorsOutbox`.
* `TransitionsAllowed`: `Spec => EveryTransitionAllowed`.
* `ImplementsLifecycle`: `Spec => TicketsFollowLifecycle`, the refinement of
  `TicketLifecycle` under the mapping `PhaseOf`, from `TicketMirrorsOutbox`.
* `TicketsOnlyGoForward`: with the refinement, a ticket never enters a phase
  twice, as every successor of a phase is further (`Rank`).
* `EligibilitiesAgree`: from `TicketMirrorsOutbox`.
* The properties that relate rows to the wallet's calls and money go by a second
  list of steps, of the workers' memory (`StepsAreWorkersSteps`: a run starts,
  the wallet is called, a row is finished, a run ends, or it is no worker's step).
* `CallsBounded`: `WalletCallsBounded` does not follow from a row's retries, as a
  claim whose lease is over may still call.  `CallsCovered` counts the claims that
  have not called yet (`Claimers`): calls made and claims outstanding together stay
  within what the row's retries allow so far (`Budget`), since a claim is good for
  one call and between two claims of a row there is a retry.
* `SuccessIsTrue`, `StakeFirst`, `FailureIsRefusal`: `MoneyInv`, an answer in a
  worker's hand is true, whatever has become of the row since (`AnswersTrue`); a row
  without retries got past PROCESSING by an answer only (`AnsweredRows`); the rows
  of a run exist (`TodoKnown`).

`SettlementProofs`, from `SettlementAssumption`:

* `SettlementTypeCorrect`: from `TypeInv`, which adds to `TypeOK` that a worker that
  settles has a job (`HasJob`).
* Every step is one of a few kinds (`SettlementStep`): a transaction
  ends without a trace, reads its tickets, updates a ticket's items, credits a
  payout or commits, or it is a step that is nobody's settling.
* `PayoutsHappenOnce`: the inductive part (`PayoutInv`) says that two workers
  never have the items of one ticket (`TouchedApart`), and that what a worker is
  about to pay or enqueue is not in the tables (`PaymentsPending`).
* `BalancesMatchLedger`: `BalanceInv`, two workers never have one account
  (`AccountsApart`), and what a worker is to write there is the balance with its
  own credits added (`BalanceInHand`).
* `SucceededJobsSettled`: `CompleteInv`, for a worker that settles a round each
  of its tickets funded from the start is settled, on the worker's list or
  already updated by it.
* `WonTicketsArePaid` and `WinnersPaid`, of any results: `JobInv`, a worker's job
  has been posted (`JobsPosted`) and two workers never settle one job
  (`JobsApart`); `WinnerInv`, what a ticket says and the rows it has are due to
  posted results (`ResultsBehind`), the tickets in hand are of the job's round
  (`InRound`), and a worker that is through with a winner has its payout in hand or
  found it there (`DoneAsWon`).  The last is what makes the invariant inductive:
  the commit writes WON long after the payout was decided on, and `TouchedApart`
  keeps everyone else from the ticket meanwhile.
* `PayoutsStayShown`: `ShownInv`, under one result a worker never has a settled
  ticket in hand (`FreshInHand`, from `JobsApart`), so that `main.ts:324` overwrites
  no payout.
* `TicketsSettledInOrder`, from `PhaseInv`: under one result the tickets of
  `Settlement` go from phase to phase as `TicketLifecycle` allows, and manual ones
  from funded to lost or paid in one step.  This is what allows `WalletOutbox` to
  take a settlement for one step of a funded ticket.  It is no property of a run;
  without the hypothesis it is false, a second job being able to unpay a ticket.

`AccountsProofs`: `LedgersAreChains`, that every behaviour of `Accounts` keeps
`LedgerIsChain`.  `TicketConfirmProofs`, from `TicketConfirmAssumption`:

* `TypeCorrect`: the balance is a natural number only because a client that has
  an account locked has seen a balance that its entry does not overdraw, which
  the inductive invariant adds to `TypeOK`.
* `KeepsAccounts`: two clients never hold one account and what each has seen is
  the balance (`AccountsApart`, `SeenIsBalance`), so each commit is a step of
  `Accounts` and every other step a stutter.
* `LedgersExplainBalances`: what `LedgersAreChains` proves of `Accounts` holds of
  the accounts of `TicketConfirm`, by the refinement: the ledger of each user is a
  chain from zero to the balance.
* `RequestsNeverBlock`: the safety part of `RequestsEnd`.  A request that waits,
  waits for one that goes on or waits for one that does (`WaitsEnd`: quotes are
  locked before accounts), so that there is no deadlock, for any number of clients;
  and a request that has come to its commit is not refused there
  (`CommitsAccepted`).
* `TicketsArePaidOnce`: `QuoteInv`, a quote held by a client is unused and held by
  no other.

`IdempotencyProofs`, from `IdempotencyAssumption`: `TypeCorrect`,
`EffectsHappenOnce` and `KeepsPromise` from `KeyInv`: one client at most is past
the insert of a key, no row of that key is committed then, and a client with an
answer in hand has it from the committed row.  What `OncePerKey` promises its
callers then holds of `Idempotency` under the refinement: two successful answers under
one key are one answer to one body (`AnswersStayTheSame`, since every answer given
is that of the effect, `AnswersKnown`), and no effect is undone or repeated
(`EffectsAreKept`).

`OpsCycleProofs`, from `OpsCycleAssumption`, for any processes, slots, rows and
jobs: `TypeCorrect`, `OneCycleAtATime`, `OneCyclePerJob` and `NoJobTwice` from one
inductive invariant `IInv`.  It adds to the properties that a row is queued or
UNKNOWN and never both (`QueuedOrUnknown`, without which the queue of unknown rows
might repeat one), and that exactly the cycles that are settling hold a job
(`HeldJobsPending`, which has its status too).

`RoundsProofs`, from `RoundsAssumption`, for any patches and clients:
`TypeCorrect`; `TimesStayInOrder`; `PatchesAreNotLost`, step by step from the
types; `AuditTrailEndsAtRound`, entry by entry: a step adds an entry that explains
the row it writes, or leaves both alone.  `TypeInv` adds that a patch in flight is
for a round that exists.

`CreditLedgerProofs`, from `CreditLedgerAssumption`: `RulesAgree`, that the three
forms of the rule and `StraightBetWins` say the same for every selection and every
result; `TypeCorrect`; `DriftStaysBounded`, from `RoundingDrift`, that one rounding
by each side differs by a cent at most and only at a half; and
`PayoutsFollowTheRules`, from `RulesAgree` and `SettledByResult`, that a settled
ticket got the worker's total for the result posted.  `LedgerExplainsWithoutHalves`
adds to the finding of `ledger_half` that, of amounts in quarters of a cent, half
cents are its only cause: where no
topup or deduction is of exactly half a cent, balance and ledger agree.

Every invariant and action property the passing runs check is proved.  Only
model-checked are the liveness properties (`RowsLeaveTheQueue`, `JobsFinish`,
`RequestsEnd` of tickets and of idempotency, `JobsGetSettled`,
`UnknownRowsResolved`): liveness and ENABLED are out of the proof system's reach.

## 6. Not modelled

* A payout that fails inside `creditManualPayout` without a database error (a
  manual ticket without a user or account): the schema and the API's writes rule it out.
* Audit rows other than those of rounds and results: they are written in the
  transactions that are modelled, and no code acts on them.
* The times of a round against the clock: no handler compares them.
* `min_stake` and `max_stake` of the catalog: no handler compares a stake with them.
* What a corrected result should do: no document says.  `Settlement` models what a
  second result does, and section 4.2 says which properties speak of it.
* Reports, summaries, lists and the text of errors; HTTP layer, configuration,
  health, catalog, demo pages, OpenAPI, UI, apps and scripts: they keep no state
  others act on, and each stands in `PROJECT.json` with its reason.

The modules meet in the database but are not composed into one specification:
`Settlement` takes tickets as confirmed, `WalletOutbox` takes a settlement as one
step, `CreditLedger` takes every handler as one step, `TicketConfirm` leaves the
replay of a request to `Idempotency`.  Each of these simplifications is a property
of the module that has the details: `TicketPerQuote`, `PayoutOnce`,
`BalanceMatchesLedger`, `ImplementsAccounts`, `ImplementsOncePerKey`.

## 7. How the project was built, and what could follow

The order was: the outbox worker, settlement, confirmations and accounts,
idempotency, each with its proofs; then the scheduler that drives both workers,
rounds, the rules and the amounts below a cent, and the remaining invariants of
the outbox worker; last the consequences of the refinements, the absence of
deadlocks among requests, and settlement under results that disagree.  What could follow:

1. `TicketConfirm` under `Idempotency`: that a retried confirmation makes one
   ticket, as one specification instead of two.
2. `OpsCycle` shown to be implemented by `WalletOutbox` and `Settlement`, section
   by section.
