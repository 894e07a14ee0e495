---------------------------- MODULE WalletOutbox ----------------------------
(* The wallet outbox of services/wallet-outbox-worker: rows of the table      *)
(* wallet_outbox ask an external wallet to debit a stake or to credit a       *)
(* payout, several workers claim them, call the wallet outside any            *)
(* transaction and write the answer back, and every final answer is mirrored  *)
(* in the ticket the row belongs to.                                          *)
(*                                                                            *)
(* One action is one database transaction or one call of the wallet: between  *)
(* two of them every other worker, the API and the operator may run, a lease  *)
(* may pass and the worker may crash.  Time is abstract: a row is "waiting"   *)
(* while next_retry_at lies ahead, and "leased" until updated_at is           *)
(* leaseTimeoutMs old.                                                        *)
EXTENDS Naturals, FiniteSets

CONSTANTS
  Ticket,        \* external-wallet tickets
  Worker,        \* wallet outbox workers
  NoRow,         \* "no row": an idle call slot of a worker
  MaxRetries,    \* options.maxRetries
  BatchSize,     \* options.batchSize
  OperatorMarks, \* the statuses an operator sets by hand
  MaxCrashes     \* bound: how often a worker may crash

Status == {"PENDING", "PROCESSING", "SUCCEEDED", "FAILED", "UNKNOWN"}
terminalStatuses == {"SUCCEEDED", "FAILED"}
Debit == "WALLET_DEBIT"
Credit == "WALLET_CREDIT"
Row == Ticket \X {Debit, Credit}

ASSUME WalletOutboxAssumption ==
  /\ MaxRetries \in Nat \ {0}
  /\ BatchSize \in Nat \ {0}
  /\ MaxCrashes \in Nat
  /\ OperatorMarks \subseteq Status \ {"PENDING"}
  /\ NoRow \notin Row

VARIABLES
  ticket,   \* the rows of table tickets, a record for each ticket
  outbox,   \* the rows of table wallet_outbox, a record for each row
  job,      \* what each worker is running
  todo,     \* the rows its current run read and has not finished
  cutoff,   \* rows of todo whose updated_at is still behind the run's cutoff
  cur,      \* the row whose wallet call has been made, or NoRow
  ans,      \* the answer to that call
  moved,    \* external: operations the wallet has carried out
  calls,    \* how often debit or credit was called for a row
  crashes   \* crashes so far

dbVars == <<ticket, outbox>>
workerVars == <<job, todo, cutoff, cur, ans>>
walletVars == <<moved, calls>>
vars == <<ticket, outbox, job, todo, cutoff, cur, ans, moved, calls, crashes>>

Job == {"idle", "process", "recover", "reconcile"}
(* A debit or credit answers with a final status, or with FAILED and          *)
(* retryable, which is also what a call that throws becomes.                  *)
Answer == {"SUCCEEDED", "FAILED", "UNKNOWN", "RETRYABLE"}

Absent == [status |-> "ABSENT", retry_count |-> 0, waiting |-> FALSE, leased |-> TRUE]
FreshRow == [Absent EXCEPT !.status = "PENDING"]
NoTicket == [status |-> "ABSENT", funding |-> "PENDING", settlement |-> "PENDING", payout |-> "NOT_REQUIRED"]

TicketRecord == [status : {"ABSENT", "PENDING_FUNDING", "CONFIRMED", "REJECTED", "SETTLED"},
                 funding : {"PENDING", "SUCCEEDED", "FAILED", "UNKNOWN"},
                 settlement : {"PENDING", "WON", "LOST"},
                 payout : {"NOT_REQUIRED", "NO_WIN", "PENDING", "SUCCEEDED", "FAILED", "UNKNOWN"}]
OutboxRecord == [status : Status \union {"ABSENT"}, retry_count : Nat,
                 waiting : BOOLEAN, leased : BOOLEAN]

TypeOK ==
  /\ ticket \in [Ticket -> TicketRecord]
  /\ outbox \in [Row -> OutboxRecord]
  /\ job \in [Worker -> Job]
  /\ todo \in [Worker -> SUBSET Row]
  /\ cutoff \in [Worker -> SUBSET Row]
  /\ cur \in [Worker -> Row \union {NoRow}]
  /\ ans \in [Worker -> Answer]
  /\ moved \in SUBSET Row
  /\ calls \in [Row -> Nat]
  /\ crashes \in Nat

Init ==
  /\ ticket = [t \in Ticket |-> NoTicket]
  /\ outbox = [r \in Row |-> Absent]
  /\ job = [w \in Worker |-> "idle"]
  /\ todo = [w \in Worker |-> {}]
  /\ cutoff = [w \in Worker |-> {}]
  /\ cur = [w \in Worker |-> NoRow]
  /\ ans = [w \in Worker |-> "UNKNOWN"]
  /\ moved = {}
  /\ calls = [r \in Row |-> 0]
  /\ crashes = 0
-----------------------------------------------------------------------------
(* Writing a row.  Every UPDATE of a row sets updated_at (@updatedAt), so it  *)
(* renews the lease and takes the row past every cutoff fixed before.         *)

Written(row, next) == [row EXCEPT !.status = next, !.leased = TRUE]

TouchedCutoffs(S) == [w \in Worker |-> cutoff[w] \ S]

(* updateRelatedTicket: what the ticket becomes when its row moves to next.   *)
DebitOnTicket(tk, next) ==
  CASE next = "SUCCEEDED" -> [tk EXCEPT !.funding = "SUCCEEDED", !.status = "CONFIRMED"]
    [] next = "FAILED"    -> [tk EXCEPT !.funding = "FAILED", !.status = "REJECTED"]
    [] next = "UNKNOWN"   -> [tk EXCEPT !.funding = "UNKNOWN"]
    [] OTHER              -> tk

(* Mutant: the early return for PROCESSING and PENDING dropped.               *)
CreditOnTicketAlways(tk, next) == [tk EXCEPT !.payout = next]

CreditOnTicket(tk, next) ==
  IF next \in {"SUCCEEDED", "FAILED", "UNKNOWN"} THEN [tk EXCEPT !.payout = next] ELSE tk

updateRelatedTicket(r, next) ==
  ticket' = [ticket EXCEPT ![r[1]] =
               IF r[2] = Debit THEN DebitOnTicket(@, next) ELSE CreditOnTicket(@, next)]

(* applyFinalStatus, and the body of WalletOutboxStateService.transition.     *)
applyFinalStatus(r, next) ==
  /\ outbox' = [outbox EXCEPT ![r] = [Written(@, next) EXCEPT !.waiting = FALSE]]
  /\ updateRelatedTicket(r, next)

(* Mutant: > for >=.                                                          *)
RetryLimitPassed(n) == n > MaxRetries

RetryLimitReached(n) == n >= MaxRetries

(* Mutant: the retry is not counted.                                          *)
RetriedUncounted(row) == [Written(row, "PENDING") EXCEPT !.waiting = TRUE]

(* scheduleRetryOrFail: one more retry, or FAILED when the retries are spent. *)
Retried(row) ==
  LET n == row.retry_count + 1
  IN  [Written(row, IF RetryLimitReached(n) THEN "FAILED" ELSE "PENDING")
         EXCEPT !.retry_count = n, !.waiting = ~RetryLimitReached(n)]

(* Mutant: the ticket is forgotten when the retries are spent.                *)
scheduleRetryOrFailTicketForgotten(r) ==
  /\ outbox' = [outbox EXCEPT ![r] = Retried(@)]
  /\ UNCHANGED ticket

scheduleRetryOrFail(r) ==
  /\ outbox' = [outbox EXCEPT ![r] = Retried(@)]
  /\ updateRelatedTicket(r, Retried(outbox[r]).status)
-----------------------------------------------------------------------------
(* The rest of the system, as far as it writes these two tables.              *)

(* confirmExternalWalletTicket: the ticket and its debit row, in one          *)
(* transaction.                                                               *)
ConfirmExternalWalletTicket(t) ==
  /\ ticket[t] = NoTicket
  /\ ticket' = [ticket EXCEPT ![t].status = "PENDING_FUNDING"]
  /\ outbox' = [outbox EXCEPT ![<<t, Debit>>] = FreshRow]
  /\ UNCHANGED <<workerVars, walletVars, crashes>>

(* Mutant: a ticket is settled whether or not its funding has arrived.        *)
isEligibleUnfunded(t) ==
  /\ ticket[t].status \in {"PENDING_FUNDING", "CONFIRMED"}
  /\ ticket[t].settlement = "PENDING"

(* isEligibleTicket of the settlement worker, for an external-wallet ticket.  *)
isEligibleTicket(t) ==
  /\ ticket[t].status = "CONFIRMED"
  /\ ticket[t].settlement = "PENDING"
  /\ outbox[<<t, Debit>>].status = "SUCCEEDED"

(* The domain package's word for it, which looks at the ticket alone.         *)
isTicketEligibleForSettlement(tk) ==
  /\ tk.status = "CONFIRMED"
  /\ tk.settlement = "PENDING"
  /\ tk.funding \in {"DEBITED", "SUCCEEDED", "NOT_REQUIRED"}

(* settleTicket with enqueueWalletPayout: a winner gets a credit row unless   *)
(* it has one.  A round is settled by one job here (see Settlement).          *)
SettleTicket(t, won) ==
  /\ isEligibleTicket(t)
  /\ outbox' = [outbox EXCEPT ![<<t, Credit>>] = IF won /\ @.status = "ABSENT" THEN FreshRow ELSE @]
  /\ ticket' = [ticket EXCEPT ![t].status = "SETTLED",
                              ![t].settlement = IF won THEN "WON" ELSE "LOST",
                              ![t].payout = IF won THEN "PENDING" ELSE "NO_WIN"]
  /\ UNCHANGED <<workerVars, walletVars, crashes>>

(* Mutant: the check for terminal statuses dropped.                           *)
allowFromTerminal(current, next) == current = "UNKNOWN" => next \in terminalStatuses

assertAllowedTransition(current, next) ==
  /\ current \notin terminalStatuses
  /\ current = "UNKNOWN" => next \in terminalStatuses

(* WalletOutboxStateService: an operator marks a row by hand.  Marking the    *)
(* status the row has already is accepted and changes nothing.                *)
Transition(r, next) ==
  /\ next \in OperatorMarks
  /\ outbox[r].status \in Status \ {next}
  /\ assertAllowedTransition(outbox[r].status, next)
  /\ applyFinalStatus(r, next)
  /\ cutoff' = TouchedCutoffs({r})
  /\ UNCHANGED <<job, todo, cur, ans, walletVars, crashes>>

BackoffElapses(r) ==
  /\ outbox[r].waiting
  /\ outbox' = [outbox EXCEPT ![r].waiting = FALSE]
  /\ UNCHANGED <<ticket, workerVars, walletVars, crashes>>

LeaseTimesOut(r) ==
  /\ outbox[r].status = "PROCESSING"
  /\ outbox[r].leased
  /\ outbox' = [outbox EXCEPT ![r].leased = FALSE]
  /\ UNCHANGED <<ticket, workerVars, walletVars, crashes>>
-----------------------------------------------------------------------------
(* A run of a worker reads a batch and takes its rows one by one.             *)

(* FOR UPDATE SKIP LOCKED with LIMIT: the oldest rows no other transaction    *)
(* has locked at that moment, hence any part of the candidates.               *)
Batch(candidates) == {S \in SUBSET candidates : S # {} /\ Cardinality(S) <= BatchSize}

StartRun(w, kind, S) ==
  /\ job[w] = "idle"
  /\ job' = [job EXCEPT ![w] = kind]
  /\ todo' = [todo EXCEPT ![w] = S]

(* The row is finished: go on with the next, or end the run.                  *)
NextInRun(w, r) ==
  /\ todo' = [todo EXCEPT ![w] = @ \ {r}]
  /\ job' = [job EXCEPT ![w] = IF todo[w] = {r} THEN "idle" ELSE @]
  /\ cur' = [cur EXCEPT ![w] = NoRow]
  /\ ans' = [ans EXCEPT ![w] = "UNKNOWN"]

EndRun(w) ==
  /\ todo' = [todo EXCEPT ![w] = {}]
  /\ cutoff' = [cutoff EXCEPT ![w] = {}]
  /\ job' = [job EXCEPT ![w] = "idle"]
  /\ cur' = [cur EXCEPT ![w] = NoRow]
  /\ ans' = [ans EXCEPT ![w] = "UNKNOWN"]

(* Mutants: a claim that takes PROCESSING rows as well, and one that takes    *)
(* only rows whose next_retry_at IS NULL.                                     *)
IsDueOrClaimed(r) == outbox[r].status \in {"PENDING", "PROCESSING"} /\ ~outbox[r].waiting
IsDueFirstTime(r) == outbox[r].status = "PENDING" /\ outbox[r].retry_count = 0

(* claimDuePendingRows *)
IsDue(r) == outbox[r].status = "PENDING" /\ ~outbox[r].waiting

claimDuePendingRows(w, S) ==
  /\ S \in Batch({r \in Row : IsDue(r)})
  /\ StartRun(w, "process", S)
  /\ outbox' = [r \in Row |-> IF r \in S THEN Written(outbox[r], "PROCESSING") ELSE outbox[r]]
  /\ cutoff' = TouchedCutoffs(S)
  /\ UNCHANGED <<ticket, cur, ans, walletVars, crashes>>

(* External: what the wallet may answer to a call for r, and whether the      *)
(* money has moved by then.  The wallet is honest and idempotent by           *)
(* operation_ref; an answer may be lost on the way (RETRYABLE after the money *)
(* has moved), and UNKNOWN says nothing either way.                           *)
WalletAnswers(r, a, movedAfter) ==
  \/ a = "SUCCEEDED" /\ movedAfter = moved \union {r}
  \/ a = "FAILED" /\ r \notin moved /\ movedAfter = moved
  \/ a \in {"RETRYABLE", "UNKNOWN"} /\ movedAfter \in {moved, moved \union {r}}

(* processClaimedRow, first half: debit or credit is called for a row as the  *)
(* claim read it, whatever has become of the row since.                       *)
CallWallet(w, r) ==
  /\ job[w] = "process" /\ r \in todo[w] /\ cur[w] = NoRow
  /\ cur' = [cur EXCEPT ![w] = r]
  /\ \E a \in Answer, movedAfter \in SUBSET Row :
       /\ WalletAnswers(r, a, movedAfter)
       /\ ans' = [ans EXCEPT ![w] = a]
       /\ moved' = movedAfter
  /\ calls' = [calls EXCEPT ![r] = @ + 1]
  /\ UNCHANGED <<dbVars, job, todo, cutoff, crashes>>

(* processClaimedRow, second half: the row is locked and read again, and the  *)
(* answer counts only when the row is still PROCESSING, by whosever claim.    *)
(* Mutant: only the first of the two status checks.                           *)
AnswerCountsUnlessTerminal(r) == outbox[r].status \notin terminalStatuses

AnswerStillCounts(r) == outbox[r].status = "PROCESSING"

ApplyAnswer(w) ==
  LET r == cur[w] IN
  /\ job[w] = "process" /\ r # NoRow
  /\ NextInRun(w, r)
  /\ \/ ~AnswerStillCounts(r) /\ UNCHANGED <<dbVars, cutoff>>
     \/ AnswerStillCounts(r) /\ ans[w] = "RETRYABLE" /\ scheduleRetryOrFail(r) /\ cutoff' = TouchedCutoffs({r})
     \/ AnswerStillCounts(r) /\ ans[w] # "RETRYABLE" /\ applyFinalStatus(r, ans[w]) /\ cutoff' = TouchedCutoffs({r})
  /\ UNCHANGED <<walletVars, crashes>>

(* recoverStaleProcessingRows: a first transaction reads the stale rows and   *)
(* lets go of their locks; each row is locked and judged again on its own.    *)
IsStale(r) == outbox[r].status = "PROCESSING" /\ ~outbox[r].leased

SelectStale(w, S) ==
  /\ S \in Batch({r \in Row : IsStale(r)})
  /\ StartRun(w, "recover", S)
  /\ cutoff' = [cutoff EXCEPT ![w] = S]
  /\ UNCHANGED <<dbVars, cur, ans, walletVars, crashes>>

StillStale(w, r) == outbox[r].status = "PROCESSING" /\ r \in cutoff[w]

RecoverRow(w, r) ==
  /\ job[w] = "recover" /\ r \in todo[w]
  /\ NextInRun(w, r)
  /\ \/ /\ StillStale(w, r)
        /\ scheduleRetryOrFail(r)
        /\ cutoff' = TouchedCutoffs({r})
     \/ /\ ~StillStale(w, r)
        /\ cutoff' = [cutoff EXCEPT ![w] = @ \ {r}]
        /\ UNCHANGED dbVars
  /\ UNCHANGED <<walletVars, crashes>>

(* reconcileUnknownOutboxRows: lockUnknownRows, then for each row a call of   *)
(* the wallet outside any transaction and a transaction that looks again.     *)
lockUnknownRows(w, S) ==
  /\ S \in Batch({r \in Row : outbox[r].status = "UNKNOWN"})
  /\ StartRun(w, "reconcile", S)
  /\ UNCHANGED <<dbVars, cutoff, cur, ans, walletVars, crashes>>

(* Mutant: UNKNOWN is not skipped but taken for success.                      *)
ReconcileCallOptimistic(w, r) ==
  /\ job[w] = "reconcile" /\ r \in todo[w] /\ cur[w] = NoRow
  /\ cur' = [cur EXCEPT ![w] = r]
  /\ ans' = [ans EXCEPT ![w] = "SUCCEEDED"]
  /\ UNCHANGED <<dbVars, job, todo, cutoff, walletVars, crashes>>

ReconcileCall(w, r) ==
  /\ job[w] = "reconcile" /\ r \in todo[w] /\ cur[w] = NoRow
  /\ cur' = [cur EXCEPT ![w] = r]
  /\ ans' = [ans EXCEPT ![w] = IF r \in moved THEN "SUCCEEDED" ELSE "FAILED"]
  /\ UNCHANGED <<dbVars, job, todo, cutoff, walletVars, crashes>>

(* The wallet does not know either: continue with the next row.               *)
ReconcileUnknown(w, r) ==
  /\ job[w] = "reconcile" /\ r \in todo[w] /\ cur[w] = NoRow
  /\ NextInRun(w, r)
  /\ UNCHANGED <<dbVars, cutoff, walletVars, crashes>>

(* reconcile throws and nothing catches it: the rest of the batch is left.    *)
ReconcileThrows(w) ==
  /\ job[w] = "reconcile" /\ cur[w] = NoRow
  /\ EndRun(w)
  /\ UNCHANGED <<dbVars, walletVars, crashes>>

StillUnknown(r) == outbox[r].status = "UNKNOWN"

ReconcileApply(w) ==
  LET r == cur[w] IN
  /\ job[w] = "reconcile" /\ r # NoRow
  /\ NextInRun(w, r)
  /\ \/ StillUnknown(r) /\ applyFinalStatus(r, ans[w]) /\ cutoff' = TouchedCutoffs({r})
     \/ ~StillUnknown(r) /\ UNCHANGED <<dbVars, cutoff>>
  /\ UNCHANGED <<walletVars, crashes>>

(* The process dies and starts again: what it held in memory is gone, rows it *)
(* had claimed stay PROCESSING, money it had moved stays moved.               *)
Crash(w) ==
  /\ job[w] # "idle"
  /\ crashes < MaxCrashes
  /\ crashes' = crashes + 1
  /\ EndRun(w)
  /\ UNCHANGED <<dbVars, walletVars>>
-----------------------------------------------------------------------------
WorkerStep(w) ==
  \/ \E S \in SUBSET Row : claimDuePendingRows(w, S) \/ SelectStale(w, S) \/ lockUnknownRows(w, S)
  \/ \E r \in Row : CallWallet(w, r) \/ RecoverRow(w, r) \/ ReconcileCall(w, r) \/ ReconcileUnknown(w, r)
  \/ ApplyAnswer(w)
  \/ ReconcileApply(w)
  \/ ReconcileThrows(w)
  \/ Crash(w)

Next ==
  \/ \E t \in Ticket : ConfirmExternalWalletTicket(t)
  \/ \E t \in Ticket, won \in BOOLEAN : SettleTicket(t, won)
  \/ \E r \in Row, next \in Status : Transition(r, next)
  \/ \E r \in Row : BackoffElapses(r) \/ LeaseTimesOut(r)
  \/ \E w \in Worker : WorkerStep(w)

Spec == Init /\ [][Next]_vars

(* OpsService's scheduler runs the worker's three jobs again and again, a run *)
(* that has started goes on, and time passes.  Claiming and recovering a      *)
(* given row is strongly fair: it waits in the table, oldest first, but a     *)
(* worker is free only now and then.  Nothing is assumed of reconciliation,   *)
(* of operators or of what the wallet answers.                                *)
ClaimOf(r) == \E w \in Worker, S \in SUBSET Row : r \in S /\ claimDuePendingRows(w, S)
SelectOf(r) == \E w \in Worker, S \in SUBSET Row : r \in S /\ SelectStale(w, S)
RunGoesOn(w) ==
  \/ \E r \in Row : CallWallet(w, r) \/ RecoverRow(w, r) \/ ReconcileCall(w, r) \/ ReconcileUnknown(w, r)
  \/ ApplyAnswer(w)
  \/ ReconcileApply(w)

Fairness ==
  /\ \A r \in Row : /\ WF_vars(BackoffElapses(r))
                    /\ WF_vars(LeaseTimesOut(r))
                    /\ SF_vars(ClaimOf(r))
                    /\ SF_vars(SelectOf(r))
  /\ \A w \in Worker : WF_vars(RunGoesOn(w))

FairSpec == Spec /\ Fairness
-----------------------------------------------------------------------------
(* Safety.                                                                    *)

StatusOf(t, type) == outbox[<<t, type>>].status

DebitMirrored(t) ==
  LET d == StatusOf(t, Debit) IN
  /\ d = "ABSENT" <=> ticket[t] = NoTicket
  /\ d \in {"PENDING", "PROCESSING"} => ticket[t].status = "PENDING_FUNDING" /\ ticket[t].funding = "PENDING"
  /\ d = "UNKNOWN" => ticket[t].status = "PENDING_FUNDING" /\ ticket[t].funding = "UNKNOWN"
  /\ d = "FAILED" => ticket[t].status = "REJECTED" /\ ticket[t].funding = "FAILED"
  /\ d = "SUCCEEDED" => ticket[t].status \in {"CONFIRMED", "SETTLED"} /\ ticket[t].funding = "SUCCEEDED"

CreditMirrored(t) ==
  LET c == StatusOf(t, Credit) IN
  /\ c # "ABSENT" <=> ticket[t].settlement = "WON"
  /\ ticket[t].status = "SETTLED" <=> ticket[t].settlement # "PENDING"
  /\ c = "ABSENT" => ticket[t].payout = IF ticket[t].settlement = "LOST" THEN "NO_WIN" ELSE "NOT_REQUIRED"
  /\ c \in {"PENDING", "PROCESSING"} => ticket[t].payout = "PENDING"
  /\ c \in {"SUCCEEDED", "FAILED", "UNKNOWN"} => ticket[t].payout = c

(* What a ticket says of its funding and its payout is always what the two    *)
(* outbox rows say, whoever wrote them last: a claim, a late answer, a        *)
(* recovery, a reconciliation or an operator.                                 *)
TicketMirrorsOutbox == \A t \in Ticket : DebitMirrored(t) /\ CreditMirrored(t)

(* The settlement worker, which asks the outbox, and the domain package,      *)
(* which asks the ticket, never differ on which tickets may be settled.       *)
EligibilityAgrees ==
  \A t \in Ticket : isEligibleTicket(t) <=> isTicketEligibleForSettlement(ticket[t])

(* A row that is still in the queue has a retry left, and no row counts more  *)
(* retries than maxRetries (scheduleRetryOrFail's comparison).                *)
RetryBound ==
  \A r \in Row :
    /\ outbox[r].retry_count <= MaxRetries
    /\ outbox[r].status \in {"PENDING", "PROCESSING"} => outbox[r].retry_count < MaxRetries

(* However claims, expired leases, recoveries and crashes interleave, the     *)
(* wallet is called at most maxRetries times for one operation_ref.           *)
WalletCallsBounded == \A r \in Row : calls[r] <= MaxRetries

(* Unless an operator said so, SUCCEEDED is only ever written for an          *)
(* operation the wallet carried out, even when the answer that counts is that *)
(* of a claim the lease had taken away.                                       *)
SucceededMeansMoved ==
  "SUCCEEDED" \notin OperatorMarks =>
    \A r \in Row : outbox[r].status = "SUCCEEDED" => r \in moved

(* A payout leaves for the wallet only after the stake of the same ticket has *)
(* been debited (settlement eligibility, then enqueueWalletPayout).           *)
NoPayoutBeforeStake ==
  "SUCCEEDED" \notin OperatorMarks =>
    \A t \in Ticket : <<t, Credit>> \in moved => <<t, Debit>> \in moved

(* A row that FAILED without ever being retried really was refused: money     *)
(* that moved for a FAILED row takes a lost answer, a crash or an expired     *)
(* lease, and so a retry, before it.                                          *)
UnretriedFailureMeansRefused ==
  OperatorMarks = {} =>
    \A r \in Row : outbox[r].status = "FAILED" /\ outbox[r].retry_count = 0 => r \notin moved

(* Every status change of an existing row is one assertAllowedTransition      *)
(* allows, those that claim, recover and retry without asking it included:    *)
(* SUCCEEDED and FAILED are final and UNKNOWN is only ever resolved.          *)
EveryTransitionAllowed ==
  [][\A r \in Row :
       LET current == outbox[r].status
           next    == outbox'[r].status
       IN  current \notin {"ABSENT", next} => assertAllowedTransition(current, next)]_vars

(* The phase of the ticket a customer sees, read off the ticket alone.        *)
PhaseOf(tk) ==
  CASE tk.status = "ABSENT"   -> "none"
    [] tk.status = "PENDING_FUNDING" -> IF tk.funding = "UNKNOWN" THEN "fundingInDoubt" ELSE "awaitingFunds"
    [] tk.status = "REJECTED"  -> "rejected"
    [] tk.status = "CONFIRMED" -> "funded"
    [] tk.status = "SETTLED" /\ tk.settlement # "WON" -> "lost"
    [] OTHER -> CASE tk.payout = "SUCCEEDED" -> "paid"
                  [] tk.payout = "FAILED"    -> "payoutFailed"
                  [] tk.payout = "UNKNOWN"   -> "payoutInDoubt"
                  [] OTHER                   -> "payoutDue"

Lifecycle == INSTANCE TicketLifecycle WITH phase <- [t \in Ticket |-> PhaseOf(ticket[t])]

(* Tickets follow TicketLifecycle: every step of the outbox and its workers   *)
(* is a step of a ticket there or leaves every phase as it is.                *)
TicketsFollowLifecycle == Lifecycle!Spec

(* Liveness: a row never stays in the queue, however the wallet answers, as   *)
(* long as workers crash finitely often: it ends SUCCEEDED, FAILED or UNKNOWN.*)
RowsLeaveTheQueue ==
  \A r \in Row :
    outbox[r].status \in {"PENDING", "PROCESSING"} ~> outbox[r].status \in {"SUCCEEDED", "FAILED", "UNKNOWN"}
=============================================================================
