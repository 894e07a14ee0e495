----------------------------- MODULE Settlement -----------------------------
(* The settlement worker of services/settlement-worker, several of them at    *)
(* once on PostgreSQL at READ COMMITTED.  settleSettlementJob runs in one     *)
(* transaction: what it has written so far is private to the worker, the rows *)
(* it has written or selected FOR UPDATE are locked against every other       *)
(* writer, and everything appears at the commit or never.  Its reads see what *)
(* others have committed by then, so a list of tickets read early can be      *)
(* stale when it is used.                                                     *)
(*                                                                            *)
(* Jobs and tickets are numbered in the order of their created_at.            *)
EXTENDS Naturals, FiniteSets

CONSTANTS
  Worker,      \* settlement workers
  User,        \* manual users, each with one credit account
  Ticket,      \* 1..N, tickets in the order the worker reads them
  Job,         \* 1..M, settlement jobs in the order of the queue
  TicketRound, \* the round of each ticket
  JobRound,    \* the round of each job
  Wins,        \* for each job, the tickets that win under its result_6d
  Manual,      \* the tickets in MANUAL_CREDIT mode; the others are EXTERNAL_WALLET
  Owner,       \* the user of each ticket
  Payout,      \* potential_payout of each ticket
  LateFunded,  \* external tickets whose debit has not succeeded yet
  MaxFailures, \* bound: transactions that fail, or workers that crash, for no reason of their own
  MaxTopups    \* bound: topups of all accounts together

ASSUME SettlementAssumption ==
  /\ Ticket \subseteq Nat /\ Job \subseteq Nat \ {0}
  /\ Wins \in [Job -> SUBSET Ticket]
  /\ Manual \subseteq Ticket /\ LateFunded \subseteq Ticket \ Manual
  /\ Owner \in [Ticket -> User]
  /\ Payout \in [Ticket -> Nat \ {0}]
  /\ MaxFailures \in Nat /\ MaxTopups \in Nat

VARIABLES
  (* committed rows *)
  job,         \* settlement_jobs.status, ABSENT before the result is posted
  ticket,      \* status, settlement_status and payout_status of each ticket
  balance,     \* credit_accounts.balance
  ledgerTotal, \* sum of amount_delta over the credit_ledger rows of each user
  payouts,     \* number of PAYOUT_CREDIT ledger rows of each ticket
  creditRows,  \* number of WALLET_CREDIT outbox rows of each ticket
  walletPaid,  \* tickets whose WALLET_CREDIT row has SUCCEEDED
  (* each worker: where it is, and its transaction *)
  pc,          \* the next step of settleSettlementJob
  byId,        \* it was called with a settlementJobId
  jw,          \* the job it works on, or 0
  todo,        \* eligible tickets read and not settled yet
  touched,     \* tickets whose items it has updated: locked rows
  accounts,    \* users whose account it has locked
  bal,         \* the balance it has written for a locked account
  credited,    \* sum of the ledger rows it has inserted for each user
  paid,        \* tickets it has inserted a PAYOUT_CREDIT row for
  enqueued,    \* tickets it has inserted a WALLET_CREDIT row for
  (* bounds *)
  failures, topups

dbVars == <<job, ticket, balance, ledgerTotal, payouts, creditRows, walletPaid>>
txVars == <<todo, touched, accounts, bal, credited, paid, enqueued>>
vars == <<dbVars, pc, byId, jw, txVars, failures, topups>>

NoJob == 0
TicketRecord == [status : {"PENDING_FUNDING", "CONFIRMED", "SETTLED"},
                 settlement : {"PENDING", "WON", "LOST"},
                 payout : {"NOT_REQUIRED", "NO_WIN", "PENDING", "SUCCEEDED"}]

TypeOK ==
  /\ job \in [Job -> {"ABSENT", "PENDING", "SUCCEEDED", "FAILED"}]
  /\ ticket \in [Ticket -> TicketRecord]
  /\ balance \in [User -> Nat] /\ ledgerTotal \in [User -> Nat]
  /\ payouts \in [Ticket -> Nat] /\ creditRows \in [Ticket -> Nat] /\ walletPaid \subseteq Ticket
  /\ pc \in [Worker -> {"idle", "lockJob", "load", "settle", "pay", "catch"}]
  /\ byId \in [Worker -> BOOLEAN]
  /\ jw \in [Worker -> Job \union {NoJob}]
  /\ todo \in [Worker -> SUBSET Ticket] /\ touched \in [Worker -> SUBSET Ticket]
  /\ accounts \in [Worker -> SUBSET User]
  /\ bal \in [Worker -> [User -> Nat]] /\ credited \in [Worker -> [User -> Nat]]
  /\ paid \in [Worker -> SUBSET Ticket] /\ enqueued \in [Worker -> SUBSET Ticket]
  /\ failures \in Nat /\ topups \in Nat

Zero == [u \in User |-> 0]

Init ==
  /\ job = [j \in Job |-> "ABSENT"]
  /\ ticket = [t \in Ticket |-> [status |-> IF t \in LateFunded THEN "PENDING_FUNDING" ELSE "CONFIRMED",
                                 settlement |-> "PENDING", payout |-> "NOT_REQUIRED"]]
  /\ balance = Zero /\ ledgerTotal = Zero
  /\ payouts = [t \in Ticket |-> 0] /\ creditRows = [t \in Ticket |-> 0] /\ walletPaid = {}
  /\ pc = [w \in Worker |-> "idle"]
  /\ byId = [w \in Worker |-> FALSE]
  /\ jw = [w \in Worker |-> NoJob]
  /\ todo = [w \in Worker |-> {}] /\ touched = [w \in Worker |-> {}]
  /\ accounts = [w \in Worker |-> {}]
  /\ bal = [w \in Worker |-> Zero] /\ credited = [w \in Worker |-> Zero]
  /\ paid = [w \in Worker |-> {}] /\ enqueued = [w \in Worker |-> {}]
  /\ failures = 0 /\ topups = 0
-----------------------------------------------------------------------------
(* Row locks.  A lock is held from the statement that takes it to the end of  *)
(* the transaction.                                                           *)

JobLockedBy(w, j) == jw[w] = j /\ pc[w] \in {"load", "settle", "pay"}
(* Mutant: the job is read without FOR UPDATE.                                *)
JobNotLocked(j) == TRUE
JobFree(j) == \A w \in Worker : ~JobLockedBy(w, j)
ItemsFree(w, t) == \A v \in Worker \ {w} : t \notin touched[v]
(* Mutant: the account is read without FOR UPDATE.                            *)
AccountNotLocked(w, u) == TRUE
AccountFree(w, u) == \A v \in Worker \ {w} : u \notin accounts[v]

(* The tickets are settled in the order they were read.                       *)
IsNext(w, t) == t \in todo[w] /\ \A s \in todo[w] : t <= s

(* Waiting for a row lock of another worker while holding locks oneself.      *)
WaitsFor(w) ==
  {v \in Worker \ {w} : \E t \in Ticket :
     /\ IsNext(w, t)
     /\ \/ pc[w] = "settle" /\ t \in touched[v]
        \/ pc[w] = "pay" /\ Owner[t] \in accounts[v]}

(* A circle of transactions that wait for each other.                         *)
Deadlocked(w) ==
  \E S \in SUBSET Worker :
    /\ w \in S
    /\ \A v \in S : (\E u \in S : u \in WaitsFor(v)) /\ (\E u \in S : v \in WaitsFor(u))

EndTransaction(w) ==
  /\ todo' = [todo EXCEPT ![w] = {}]
  /\ touched' = [touched EXCEPT ![w] = {}]
  /\ accounts' = [accounts EXCEPT ![w] = {}]
  /\ bal' = [bal EXCEPT ![w] = Zero]
  /\ credited' = [credited EXCEPT ![w] = Zero]
  /\ paid' = [paid EXCEPT ![w] = {}]
  /\ enqueued' = [enqueued EXCEPT ![w] = {}]

GoIdle(w) ==
  /\ pc' = [pc EXCEPT ![w] = "idle"]
  /\ byId' = [byId EXCEPT ![w] = FALSE]
  /\ jw' = [jw EXCEPT ![w] = NoJob]
-----------------------------------------------------------------------------
(* The rest of the system.                                                    *)

(* createResultAndSettlementJob: nothing keeps a round from getting a second  *)
(* result, and with it a second job.                                          *)
PostResult(j) ==
  /\ job[j] = "ABSENT"
  /\ \A i \in Job : i < j => job[i] # "ABSENT"
  /\ job' = [job EXCEPT ![j] = "PENDING"]
  /\ UNCHANGED <<ticket, balance, ledgerTotal, payouts, creditRows, walletPaid>>
  /\ UNCHANGED <<pc, byId, jw, txVars, failures, topups>>

(* The wallet outbox worker: a late debit succeeds.                           *)
DebitSucceeds(t) ==
  /\ ticket[t].status = "PENDING_FUNDING"
  /\ ticket' = [ticket EXCEPT ![t].status = "CONFIRMED"]
  /\ UNCHANGED <<job, balance, ledgerTotal, payouts, creditRows, walletPaid>>
  /\ UNCHANGED <<pc, byId, jw, txVars, failures, topups>>

(* The wallet takes a payout, and updateRelatedTicket writes it on the ticket *)
(* whatever the ticket says; the row is never sent again.                     *)
CreditSucceeds(t) ==
  /\ creditRows[t] > 0 /\ t \notin walletPaid
  /\ walletPaid' = walletPaid \union {t}
  /\ ticket' = [ticket EXCEPT ![t].payout = "SUCCEEDED"]
  /\ UNCHANGED <<job, balance, ledgerTotal, payouts, creditRows>>
  /\ UNCHANGED <<pc, byId, jw, txVars, failures, topups>>

(* A topup of the API, which locks the account, adds a ledger row and updates *)
(* the balance.                                                               *)
Topup(u) ==
  /\ topups < MaxTopups
  /\ \A w \in Worker : u \notin accounts[w]
  /\ topups' = topups + 1
  /\ balance' = [balance EXCEPT ![u] = @ + 1]
  /\ ledgerTotal' = [ledgerTotal EXCEPT ![u] = @ + 1]
  /\ UNCHANGED <<job, ticket, payouts, creditRows, walletPaid, pc, byId, jw, txVars, failures>>
-----------------------------------------------------------------------------
(* settleSettlementJob(settlementJobId), called for a job the caller knows.   *)
CallById(w, j) ==
  /\ pc[w] = "idle"
  /\ job[j] # "ABSENT"
  /\ pc' = [pc EXCEPT ![w] = "lockJob"]
  /\ byId' = [byId EXCEPT ![w] = TRUE]
  /\ jw' = [jw EXCEPT ![w] = j]
  /\ UNCHANGED <<dbVars, txVars, failures, topups>>

(* lockSettlementJob by id waits for the row; a job that is not PENDING is    *)
(* reported as it is, a PENDING one claimed.                                  *)
ClaimById(w) ==
  /\ pc[w] = "lockJob"
  /\ JobFree(jw[w])
  /\ \/ job[jw[w]] = "PENDING" /\ pc' = [pc EXCEPT ![w] = "load"] /\ UNCHANGED <<byId, jw>>
     \/ job[jw[w]] # "PENDING" /\ GoIdle(w)
  /\ UNCHANGED <<dbVars, txVars, failures, topups>>

(* settleQueuedJob: the oldest PENDING job nobody has locked.                 *)
IsOldestQueued(j) ==
  /\ job[j] = "PENDING" /\ JobFree(j)
  /\ \A i \in Job : i < j => job[i] # "PENDING" \/ ~JobFree(i)

ClaimQueued(w, j) ==
  /\ pc[w] = "idle"
  /\ IsOldestQueued(j)
  /\ pc' = [pc EXCEPT ![w] = "load"]
  /\ jw' = [jw EXCEPT ![w] = j]
  /\ UNCHANGED <<dbVars, byId, txVars, failures, topups>>

(* loadEligibleTickets: a plain read of what is committed now.                *)
isEligibleTicket(t) == ticket[t].status = "CONFIRMED" /\ ticket[t].settlement = "PENDING"

(* Mutant: batchSize limits the tickets of a job.                             *)
LoadFirstEligibleTicket(w) ==
  LET eligible == {t \in Ticket : TicketRound[t] = JobRound[jw[w]] /\ isEligibleTicket(t)} IN
  /\ pc[w] = "load"
  /\ pc' = [pc EXCEPT ![w] = "settle"]
  /\ todo' = [todo EXCEPT ![w] = {t \in eligible : \A s \in eligible : t <= s}]
  /\ UNCHANGED <<dbVars, byId, jw, touched, accounts, bal, credited, paid, enqueued, failures, topups>>

LoadEligibleTickets(w) ==
  /\ pc[w] = "load"
  /\ pc' = [pc EXCEPT ![w] = "settle"]
  /\ todo' = [todo EXCEPT ![w] = {t \in Ticket : TicketRound[t] = JobRound[jw[w]] /\ isEligibleTicket(t)}]
  /\ UNCHANGED <<dbVars, byId, jw, touched, accounts, bal, credited, paid, enqueued, failures, topups>>

(* settleTicket begins by updating the ticket's items, which waits for every  *)
(* transaction that has updated them.  Only then are the payout ledger and    *)
(* the outbox asked whether the ticket has been paid.                         *)
(* Mutants: the ledger is not asked; any outbox row of the ticket will do,    *)
(* its debit for one.                                                         *)
payoutLedgerNotAsked(t) == FALSE
anyOutboxRow(t) == TRUE
payoutLedgerExists(t) == payouts[t] > 0
existingOutbox(t) == creditRows[t] > 0
Won(w, t) == t \in Wins[jw[w]]

(* Mutant: a ticket that has been settled meanwhile is not asked about, and   *)
(* not paid.                                                                  *)
NeedsManualPayoutUnsettled(w, t) == Won(w, t) /\ t \in Manual /\ ticket[t].status # "SETTLED"
NeedsManualPayout(w, t) == Won(w, t) /\ t \in Manual /\ ~payoutLedgerExists(t)
NeedsWalletPayout(w, t) == Won(w, t) /\ t \notin Manual /\ ~existingOutbox(t)

UpdateItems(w, t) ==
  /\ pc[w] = "settle" /\ IsNext(w, t)
  /\ ItemsFree(w, t)
  /\ touched' = [touched EXCEPT ![w] = @ \union {t}]
  /\ \/ /\ NeedsManualPayout(w, t)
        /\ pc' = [pc EXCEPT ![w] = "pay"]
        /\ UNCHANGED <<todo, enqueued>>
     \/ /\ ~NeedsManualPayout(w, t)
        /\ todo' = [todo EXCEPT ![w] = @ \ {t}]
        /\ enqueued' = IF NeedsWalletPayout(w, t) THEN [enqueued EXCEPT ![w] = @ \union {t}] ELSE enqueued
        /\ UNCHANGED pc
  /\ UNCHANGED <<dbVars, byId, jw, accounts, bal, credited, paid, failures, topups>>

(* creditManualPayout: lock the account, read its balance, insert the ledger  *)
(* row, write the balance.                                                    *)
BalanceSeen(w, u) == IF u \in accounts[w] THEN bal[w][u] ELSE balance[u]

CreditManualPayout(w, t) ==
  LET u == Owner[t] IN
  /\ pc[w] = "pay" /\ IsNext(w, t)
  /\ AccountFree(w, u)
  /\ accounts' = [accounts EXCEPT ![w] = @ \union {u}]
  /\ bal' = [bal EXCEPT ![w][u] = BalanceSeen(w, u) + Payout[t]]
  /\ credited' = [credited EXCEPT ![w][u] = @ + Payout[t]]
  /\ paid' = [paid EXCEPT ![w] = @ \union {t}]
  /\ todo' = [todo EXCEPT ![w] = @ \ {t}]
  /\ pc' = [pc EXCEPT ![w] = "settle"]
  /\ UNCHANGED <<dbVars, byId, jw, touched, enqueued, failures, topups>>

(* The last ticket is done: the job becomes SUCCEEDED and everything the      *)
(* transaction wrote is committed.                                            *)
(* Mutant: the payout status is written as PAID, a value of the old enum.     *)
SettledTicketPaid(w, t) ==
  [status |-> "SETTLED", settlement |-> IF Won(w, t) THEN "WON" ELSE "LOST",
   payout |-> IF Won(w, t) THEN "PAID" ELSE "NO_WIN"]

SettledTicket(w, t) ==
  [status |-> "SETTLED",
   settlement |-> IF Won(w, t) THEN "WON" ELSE "LOST",
   payout |-> IF ~Won(w, t) THEN "NO_WIN" ELSE IF t \in Manual THEN "SUCCEEDED" ELSE "PENDING"]

Commit(w) ==
  /\ pc[w] = "settle" /\ todo[w] = {}
  /\ job' = [job EXCEPT ![jw[w]] = "SUCCEEDED"]
  /\ ticket' = [t \in Ticket |-> IF t \in touched[w] THEN SettledTicket(w, t) ELSE ticket[t]]
  /\ balance' = [u \in User |-> IF u \in accounts[w] THEN bal[w][u] ELSE balance[u]]
  /\ ledgerTotal' = [u \in User |-> ledgerTotal[u] + credited[w][u]]
  /\ payouts' = [t \in Ticket |-> payouts[t] + IF t \in paid[w] THEN 1 ELSE 0]
  /\ creditRows' = [t \in Ticket |-> creditRows[t] + IF t \in enqueued[w] THEN 1 ELSE 0]
  /\ EndTransaction(w)
  /\ GoIdle(w)
  /\ UNCHANGED <<walletPaid, failures, topups>>

(* Mutant: the transaction is abandoned with its locks.                       *)
AbandonTransaction(w) ==
  /\ pc' = [pc EXCEPT ![w] = "idle"]
  /\ UNCHANGED <<dbVars, byId, jw, txVars>>

(* The transaction is rolled back.  Called by id, the error is caught first.  *)
RollBack(w) ==
  /\ EndTransaction(w)
  /\ \/ byId[w] /\ pc' = [pc EXCEPT ![w] = "catch"] /\ UNCHANGED <<byId, jw>>
     \/ ~byId[w] /\ GoIdle(w)
  /\ UNCHANGED dbVars

(* PostgreSQL picks a victim: its statement fails, and the catch around       *)
(* creditManualPayout cannot save a transaction that is aborted already.      *)
DeadlockVictim(w) ==
  /\ Deadlocked(w)
  /\ RollBack(w)
  /\ UNCHANGED <<failures, topups>>

(* A statement fails for another reason: the transaction's time is up while   *)
(* it waits or works, or the connection is lost.                              *)
TransactionFails(w) ==
  /\ pc[w] \in {"lockJob", "load", "settle", "pay"}
  /\ failures < MaxFailures
  /\ failures' = failures + 1
  /\ RollBack(w)
  /\ UNCHANGED topups

(* The catch of settleSettlementJob: an UPDATE of its own, by id only.        *)
MarkFailed(w) ==
  /\ pc[w] = "catch"
  /\ JobFree(jw[w])
  /\ job' = [job EXCEPT ![jw[w]] = "FAILED"]
  /\ GoIdle(w)
  /\ UNCHANGED <<ticket, balance, ledgerTotal, payouts, creditRows, walletPaid, txVars, failures, topups>>

(* The process dies; PostgreSQL rolls its transaction back.                   *)
Crash(w) ==
  /\ pc[w] # "idle"
  /\ failures < MaxFailures
  /\ failures' = failures + 1
  /\ EndTransaction(w)
  /\ GoIdle(w)
  /\ UNCHANGED <<dbVars, topups>>
-----------------------------------------------------------------------------
JobRuns(w) ==
  \/ ClaimById(w)
  \/ LoadEligibleTickets(w)
  \/ \E t \in Ticket : UpdateItems(w, t) \/ CreditManualPayout(w, t)
  \/ Commit(w)
  \/ DeadlockVictim(w)
  \/ MarkFailed(w)

Next ==
  \/ \E j \in Job : PostResult(j)
  \/ \E t \in Ticket : DebitSucceeds(t) \/ CreditSucceeds(t)
  \/ \E u \in User : Topup(u)
  \/ \E w \in Worker, j \in Job : CallById(w, j) \/ ClaimQueued(w, j)
  \/ \E w \in Worker : JobRuns(w) \/ TransactionFails(w) \/ Crash(w)

Spec == Init /\ [][Next]_vars

(* The scheduler calls settleQueuedJob again and again, PostgreSQL resolves   *)
(* deadlocks, and a call that has started goes on.  The wait for an account   *)
(* is strongly fair: the transaction that waits is woken when the lock is     *)
(* released, and is not overtaken for ever by transactions that come later    *)
(* and take the lock again.                                                   *)
LocksAccount(w, u) == \E t \in Ticket : Owner[t] = u /\ CreditManualPayout(w, t)

FairSpec ==
  /\ Spec
  /\ \A w \in Worker :
       /\ SF_vars(\E j \in Job : ClaimQueued(w, j))
       /\ \A u \in User : SF_vars(LocksAccount(w, u))
       /\ WF_vars(JobRuns(w))
-----------------------------------------------------------------------------
(* However many workers settle however many jobs of a round, a ticket gets at *)
(* most one PAYOUT_CREDIT ledger row and at most one WALLET_CREDIT row.       *)
PayoutOnce == \A t \in Ticket : payouts[t] <= 1 /\ creditRows[t] <= 1

(* A balance is the sum of its ledger rows, payouts of several transactions   *)
(* and topups between them included: no update of a balance is lost.          *)
BalanceMatchesLedger == balance = ledgerTotal

(* What the results posted so far for the round of a ticket say of it, and    *)
(* whether they agree.                                                        *)
Posted(j) == job[j] # "ABSENT"
OfRound(t) == {j \in Job : JobRound[j] = TicketRound[t] /\ Posted(j)}
SaysWon(t) == \E j \in OfRound(t) : t \in Wins[j]
SaysLost(t) == \E j \in OfRound(t) : t \notin Wins[j]
OneResult(t) == \A i, j \in OfRound(t) : i = j

HasPayout(t) == IF t \in Manual THEN payouts[t] = 1 ELSE creditRows[t] = 1

(* Where the results posted for a round agree on a ticket, it is paid if and  *)
(* only if it has WON: settlement_status and the payout rows tell one story.  *)
PaidIffWon ==
  \A t \in Ticket : ~(SaysWon(t) /\ SaysLost(t)) => (HasPayout(t) <=> ticket[t].settlement = "WON")

(* And whatever results are posted, in whatever order workers come to settle  *)
(* by them: a ticket that is WON has been paid, it is paid only after a       *)
(* posted result made it win, and it is settled by then.                      *)
WonMeansPaid ==
  \A t \in Ticket :
    /\ ticket[t].settlement = "WON" => HasPayout(t)
    /\ payouts[t] + creditRows[t] > 0 => SaysWon(t) /\ ticket[t].status = "SETTLED"

(* While a round has one result, a ticket the wallet has paid says so: no     *)
(* second look at the ticket puts its payout back to PENDING.  (With a second *)
(* result it can be put back, and stays PENDING.)                             *)
PayoutShown == \A t \in walletPaid : OneResult(t) => ticket[t].payout = "SUCCEEDED"

(* A job is SUCCEEDED only when every ticket of its round that was funded in  *)
(* time is settled: a transaction settles all of them or none.                *)
SucceededMeansSettled ==
  \A j \in Job, t \in Ticket \ LateFunded :
    job[j] = "SUCCEEDED" /\ TicketRound[t] = JobRound[j] => ticket[t].status = "SETTLED"

(* A job never waits forever: deadlocks are resolved and a failed run of the  *)
(* queue leaves the job for the next.                                         *)
JobsFinish == \A j \in Job : job[j] = "PENDING" ~> job[j] \in {"SUCCEEDED", "FAILED"}

(* What a test says of running a job again: it reports what the first run did.*)
(* A job that has SUCCEEDED stays SUCCEEDED.                                  *)
SucceededJobsStay == [][\A j \in Job : job[j] = "SUCCEEDED" => job'[j] = "SUCCEEDED"]_vars
=============================================================================
