---------------------------- MODULE TicketConfirm ----------------------------
(* The requests of the lottery API that meet in quotes, rounds and credit     *)
(* accounts: quotes, confirmations, manual tickets, topups, deductions, the   *)
(* patches of a round and its result.  A request is one transaction at READ   *)
(* COMMITTED.  It takes row locks with SELECT ... FOR UPDATE and keeps them to *)
(* its end; what it reads without a lock may have changed when it commits.    *)
EXTENDS Integers, Sequences, FiniteSets

CONSTANTS
  Client,      \* requests served at the same time
  User,        \* manual users, each with one credit account
  Round,
  Quote,       \* quotes that may be asked for, each confirmed as at most one ticket
  QuoteRound,  \* the round of each quote
  Manual,      \* the quotes in MANUAL_CREDIT mode; the others are EXTERNAL_WALLET
  QuoteUser,   \* the user of each manual quote
  Stake,       \* stake_total of each quote
  Amount,      \* amounts of topups and deductions
  NoQuote, NoUser,
  MaxChanges,  \* bound: topups and deductions together
  MaxFailures  \* bound: transactions that fail for no reason of their own

ASSUME TicketConfirmAssumption ==
  /\ QuoteRound \in [Quote -> Round]
  /\ Manual \subseteq Quote
  /\ QuoteUser \in [Manual -> User]
  /\ Stake \in [Quote -> Nat \ {0}]
  /\ Amount \subseteq Nat \ {0}
  /\ NoQuote \notin Quote /\ NoUser \notin User
  /\ MaxChanges \in Nat /\ MaxFailures \in Nat

VARIABLES
  (* committed rows *)
  round,      \* rounds.status
  userStatus, \* users_manual.status
  quote,      \* quotes.status, ABSENT before the quote is made
  expired,    \* quotes whose expires_at has passed
  tickets,    \* number of tickets of each quote
  debitRows,  \* number of WALLET_DEBIT outbox rows for each quote's ticket
  betDebits,  \* number of BET_DEBIT ledger rows for each quote's ticket
  balance,    \* credit_accounts.balance
  ledger,     \* the credit_ledger rows of each user
  (* the transaction of each request *)
  pc,         \* the statement it is about to run
  cq,         \* the quote it confirms, or NoQuote
  fresh,      \* it has made the quote itself
  account,    \* the user whose account it has locked, or NoUser
  seen,       \* the balance it read when it locked the account
  delta,      \* what it is to add to the balance
  (* bounds *)
  changes, failures

quoteVars == <<quote, expired, tickets, debitRows, betDebits>>
creditVars == <<balance, ledger>>
dbVars == <<round, userStatus, quoteVars, creditVars>>
txVars == <<pc, cq, fresh, account, seen, delta>>
vars == <<dbVars, txVars, changes, failures>>

RoundStatus == {"DRAFT", "OPEN", "CLOSED", "RESULT_POSTED", "CANCELLED"}
Deltas == Amount \union {-a : a \in Amount} \union {-Stake[q] : q \in Manual}

(* The ledger of a user is described in Accounts.                             *)
Abstract == INSTANCE Accounts WITH Delta <- Deltas

LedgerEntry == [delta : Int, before : Nat, after : Nat]

TypeOK ==
  /\ round \in [Round -> RoundStatus]
  /\ userStatus \in [User -> {"ENABLED", "DISABLED"}]
  /\ quote \in [Quote -> {"ABSENT", "CREATED", "USED"}]
  /\ expired \in SUBSET Quote
  /\ tickets \in [Quote -> Nat] /\ debitRows \in [Quote -> Nat] /\ betDebits \in [Quote -> Nat]
  /\ balance \in [User -> Nat]
  /\ ledger \in [User -> Seq(LedgerEntry)]
  /\ pc \in [Client -> {"idle", "lockQuote", "readRound", "lockAccount", "commit"}]
  /\ cq \in [Client -> Quote \union {NoQuote}]
  /\ fresh \in [Client -> BOOLEAN]
  /\ account \in [Client -> User \union {NoUser}]
  /\ seen \in [Client -> Nat] /\ delta \in [Client -> Int]
  /\ changes \in Nat /\ failures \in Nat

Init ==
  /\ round = [r \in Round |-> "OPEN"]
  /\ userStatus = [u \in User |-> "ENABLED"]
  /\ quote = [q \in Quote |-> "ABSENT"]
  /\ expired = {}
  /\ tickets = [q \in Quote |-> 0] /\ debitRows = [q \in Quote |-> 0] /\ betDebits = [q \in Quote |-> 0]
  /\ balance = [u \in User |-> 0]
  /\ ledger = [u \in User |-> <<>>]
  /\ pc = [c \in Client |-> "idle"]
  /\ cq = [c \in Client |-> NoQuote]
  /\ fresh = [c \in Client |-> FALSE]
  /\ account = [c \in Client |-> NoUser]
  /\ seen = [c \in Client |-> 0] /\ delta = [c \in Client |-> 0]
  /\ changes = 0 /\ failures = 0
-----------------------------------------------------------------------------
(* Row locks.                                                                 *)
QuoteLockedBy(c, q) == cq[c] = q /\ pc[c] \in {"readRound", "lockAccount", "commit"}
QuoteFree(q) == \A c \in Client : ~QuoteLockedBy(c, q)
(* Mutant: the account is read without FOR UPDATE.                            *)
AccountNotLocked(u) == TRUE
AccountFree(u) == \A c \in Client : account[c] # u

(* The transaction is over, and its locks are free.                           *)
EndRequest(c) ==
  /\ pc' = [pc EXCEPT ![c] = "idle"]
  /\ cq' = [cq EXCEPT ![c] = NoQuote]
  /\ fresh' = [fresh EXCEPT ![c] = FALSE]
  /\ account' = [account EXCEPT ![c] = NoUser]
  /\ seen' = [seen EXCEPT ![c] = 0]
  /\ delta' = [delta EXCEPT ![c] = 0]
-----------------------------------------------------------------------------
(* Rounds, users and the clock.                                               *)

(* rounds.patch: any status but RESULT_POSTED, whatever the status was.       *)
PatchRound(r, s) ==
  /\ round' = [round EXCEPT ![r] = s]
  /\ UNCHANGED <<userStatus, quoteVars, creditVars, txVars, changes, failures>>

(* createResultAndSettlementJob asks nothing of the round's status.           *)
PostResult(r) ==
  /\ round' = [round EXCEPT ![r] = "RESULT_POSTED"]
  /\ UNCHANGED <<userStatus, quoteVars, creditVars, txVars, changes, failures>>

UpdateUserStatus(u, s) ==
  /\ userStatus' = [userStatus EXCEPT ![u] = s]
  /\ UNCHANGED <<round, quoteVars, creditVars, txVars, changes, failures>>

QuoteExpires(q) ==
  /\ quote[q] = "CREATED"
  /\ expired' = expired \union {q}
  /\ UNCHANGED <<round, userStatus, quote, tickets, debitRows, betDebits, creditVars, txVars, changes, failures>>
-----------------------------------------------------------------------------
(* createQuoteRecord: nothing is locked, and the confirmation asks for the    *)
(* round again.  It does not ask for the user again.                          *)
MayQuote(q) ==
  /\ quote[q] = "ABSENT" /\ \A c \in Client : cq[c] # q
  /\ round[QuoteRound[q]] = "OPEN"
  /\ q \in Manual => userStatus[QuoteUser[q]] = "ENABLED"

CreateQuote(q) ==
  /\ MayQuote(q)
  /\ quote' = [quote EXCEPT ![q] = "CREATED"]
  /\ UNCHANGED <<round, userStatus, expired, tickets, debitRows, betDebits, creditVars, txVars, changes, failures>>

(* confirmTicket of a quote that exists.                                      *)
ConfirmTicket(c, q) ==
  /\ pc[c] = "idle" /\ quote[q] # "ABSENT"
  /\ pc' = [pc EXCEPT ![c] = "lockQuote"]
  /\ cq' = [cq EXCEPT ![c] = q]
  /\ UNCHANGED <<dbVars, fresh, account, seen, delta, changes, failures>>

(* createManualTicket makes a quote and confirms it in one transaction: until *)
(* the commit nobody else sees the quote.                                     *)
CreateManualTicket(c, q) ==
  /\ pc[c] = "idle" /\ q \in Manual /\ MayQuote(q)
  /\ pc' = [pc EXCEPT ![c] = "readRound"]
  /\ cq' = [cq EXCEPT ![c] = q]
  /\ fresh' = [fresh EXCEPT ![c] = TRUE]
  /\ UNCHANGED <<dbVars, account, seen, delta, changes, failures>>

(* confirmQuote: the quote FOR UPDATE, as it is when the lock is granted.     *)
LockQuote(c) ==
  LET q == cq[c] IN
  /\ pc[c] = "lockQuote" /\ QuoteFree(q)
  /\ \/ /\ q \notin expired /\ quote[q] = "CREATED"
        /\ pc' = [pc EXCEPT ![c] = "readRound"]
        /\ UNCHANGED <<cq, fresh, account, seen, delta>>
     \/ /\ q \in expired \/ quote[q] # "CREATED"
        /\ EndRequest(c)
  /\ UNCHANGED <<dbVars, changes, failures>>

(* ... and the round, without a lock.                                         *)
ReadRound(c) ==
  LET q == cq[c] IN
  /\ pc[c] = "readRound"
  /\ \/ /\ round[QuoteRound[q]] = "OPEN"
        /\ pc' = [pc EXCEPT ![c] = IF q \in Manual THEN "lockAccount" ELSE "commit"]
        /\ UNCHANGED <<cq, fresh, account, seen, delta>>
     \/ /\ round[QuoteRound[q]] # "OPEN"
        /\ EndRequest(c)
  /\ UNCHANGED <<dbVars, changes, failures>>

(* A locked account is about to get an entry of d.                            *)
Lock(c, u, d) ==
  /\ account' = [account EXCEPT ![c] = u]
  /\ seen' = [seen EXCEPT ![c] = balance[u]]
  /\ delta' = [delta EXCEPT ![c] = d]
  /\ pc' = [pc EXCEPT ![c] = "commit"]

(* Mutant: an account that is too low keeps the request waiting.              *)
LockAccountAndWait(c) ==
  LET q == cq[c] IN
  LET u == QuoteUser[q] IN
  /\ pc[c] = "lockAccount" /\ AccountFree(u)
  /\ balance[u] >= Stake[q] /\ Lock(c, u, -Stake[q]) /\ UNCHANGED <<cq, fresh>>
  /\ UNCHANGED <<dbVars, changes, failures>>

(* Mutant: the balance is not compared with the stake.                        *)
LockAccountUnchecked(c) ==
  LET u == QuoteUser[cq[c]] IN
  /\ pc[c] = "lockAccount" /\ AccountFree(u)
  /\ Lock(c, u, -Stake[cq[c]]) /\ UNCHANGED <<cq, fresh>>
  /\ UNCHANGED <<dbVars, changes, failures>>

(* confirmManualCreditTicket: the account FOR UPDATE, and its balance.        *)
LockAccount(c) ==
  LET q == cq[c] IN
  LET u == QuoteUser[q] IN
  /\ pc[c] = "lockAccount" /\ AccountFree(u)
  /\ \/ balance[u] >= Stake[q] /\ Lock(c, u, -Stake[q]) /\ UNCHANGED <<cq, fresh>>
     \/ balance[u] < Stake[q] /\ EndRequest(c)
  /\ UNCHANGED <<dbVars, changes, failures>>

(* applyLockedLedgerChange of a topup (d > 0) or a deduction (d < 0) that is  *)
(* not refused.                                                               *)
ApplyLedgerChange(c, u, d) ==
  /\ pc[c] = "idle" /\ changes < MaxChanges
  /\ AccountFree(u)
  /\ userStatus[u] = "ENABLED"
  /\ balance[u] + d >= 0
  /\ changes' = changes + 1
  /\ Lock(c, u, d)
  /\ UNCHANGED <<dbVars, cq, fresh, failures>>
-----------------------------------------------------------------------------
(* What a transaction writes, all of it visible at its commit.                *)

(* append and updateCreditAccountBalance write what was computed from the     *)
(* balance that was read.                                                     *)
PostEntry(c) ==
  \/ /\ account[c] # NoUser
     /\ ledger' = [ledger EXCEPT ![account[c]] =
                     Append(@, [delta |-> delta[c], before |-> seen[c], after |-> seen[c] + delta[c]])]
     /\ balance' = [balance EXCEPT ![account[c]] = seen[c] + delta[c]]
  \/ account[c] = NoUser /\ UNCHANGED creditVars

(* Mutant: the quote of an external ticket is not marked.                     *)
CreateTicketQuoteForgotten(c) ==
  LET q == cq[c] IN
  /\ tickets[q] = 0
  /\ tickets' = [tickets EXCEPT ![q] = @ + 1]
  /\ quote' = IF q \in Manual THEN [quote EXCEPT ![q] = "USED"] ELSE quote
  /\ betDebits' = IF q \in Manual THEN [betDebits EXCEPT ![q] = @ + 1] ELSE betDebits
  /\ debitRows' = IF q \in Manual THEN debitRows ELSE [debitRows EXCEPT ![q] = @ + 1]

(* createTicketFromQuote, the BET_DEBIT or WALLET_DEBIT row that pays for the *)
(* ticket, and the quote's new status.  tickets.quote_id is unique.           *)
CreateTicket(c) ==
  LET q == cq[c] IN
  /\ tickets[q] = 0
  /\ tickets' = [tickets EXCEPT ![q] = @ + 1]
  /\ quote' = [quote EXCEPT ![q] = "USED"]
  /\ betDebits' = IF q \in Manual THEN [betDebits EXCEPT ![q] = @ + 1] ELSE betDebits
  /\ debitRows' = IF q \in Manual THEN debitRows ELSE [debitRows EXCEPT ![q] = @ + 1]

Commit(c) ==
  /\ pc[c] = "commit"
  /\ PostEntry(c)
  /\ \/ cq[c] # NoQuote /\ CreateTicket(c)
     \/ cq[c] = NoQuote /\ UNCHANGED <<tickets, quote, betDebits, debitRows>>
  /\ EndRequest(c)
  /\ UNCHANGED <<round, userStatus, expired, changes, failures>>

(* The transaction's time is up, the connection is lost or the process dies:  *)
(* nothing it has written remains.                                            *)
RollBack(c) ==
  /\ pc[c] # "idle" /\ failures < MaxFailures
  /\ failures' = failures + 1
  /\ EndRequest(c)
  /\ UNCHANGED <<dbVars, changes>>

RequestRuns(c) == LockQuote(c) \/ ReadRound(c) \/ LockAccount(c) \/ Commit(c)

Next ==
  \/ \E r \in Round : PostResult(r) \/ \E s \in RoundStatus \ {"RESULT_POSTED"} : PatchRound(r, s)
  \/ \E u \in User, s \in {"ENABLED", "DISABLED"} : UpdateUserStatus(u, s)
  \/ \E q \in Quote : QuoteExpires(q) \/ CreateQuote(q)
  \/ \E c \in Client :
       \/ \E q \in Quote : ConfirmTicket(c, q) \/ CreateManualTicket(c, q)
       \/ \E u \in User, a \in Amount : ApplyLedgerChange(c, u, a) \/ ApplyLedgerChange(c, u, -a)
       \/ RequestRuns(c)
       \/ RollBack(c)

Spec == Init /\ [][Next]_vars

(* A request goes on when it can, and gets a lock that is free again and      *)
(* again: PostgreSQL wakes those who wait in their order.                     *)
FairSpec ==
  /\ Spec
  /\ \A c \in Client :
       WF_vars(ReadRound(c) \/ Commit(c)) /\ SF_vars(LockQuote(c)) /\ SF_vars(LockAccount(c))
-----------------------------------------------------------------------------
(* However requests for it race, expire and fail, a quote is USED exactly     *)
(* when it has a ticket, it has one at most, and each ticket has been paid    *)
(* for once, in the way of its mode.                                          *)
TicketPerQuote ==
  \A q \in Quote :
    /\ tickets[q] = IF quote[q] = "USED" THEN 1 ELSE 0
    /\ betDebits[q] = IF q \in Manual THEN tickets[q] ELSE 0
    /\ debitRows[q] = IF q \in Manual THEN 0 ELSE tickets[q]

(* The accounts behave as Accounts says: though each request computes the new *)
(* balance from one it read earlier, the entries form a chain and no balance  *)
(* falls below zero.                                                          *)
ImplementsAccounts == Abstract!Spec

(* Every request is answered in the end: no two of them wait for each other.  *)
RequestsEnd == \A c \in Client : pc[c] # "idle" ~> pc[c] = "idle"

(* A ticket appears only while its round is open, as the test of a round      *)
(* closed after the quote has it.                                             *)
TicketsWhileOpen ==
  [][\A q \in Quote : tickets'[q] # tickets[q] => round[QuoteRound[q]] = "OPEN"]_vars
=============================================================================
