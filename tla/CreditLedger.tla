----------------------------- MODULE CreditLedger -----------------------------
(* The amounts of one manual credit account: how numbers with fractions of a  *)
(* cent become the cents of balances, ledger rows, stakes and payouts.        *)
(*                                                                            *)
(* The program computes with floating-point numbers and toFixed(2); the       *)
(* database rounds what it is given to NUMERIC(14, 2).  Each handler is one   *)
(* step here: TicketConfirm and Settlement show that the account's row lock   *)
(* makes it one.                                                              *)
EXTENDS Rules, Functions

CONSTANTS
  Ticket,
  Slip,       \* the bets a customer may ask for: sequences of items
  Odds,       \* odds of each bet type, in quarters
  Change,     \* amounts of topups and deductions, in quarters of a cent
  Posted,     \* the results that may be posted
  MaxCents,   \* the largest NUMERIC(14, 2)
  MaxChanges  \* bound: topups and deductions

(* Amounts that are not whole cents are counted in quarters of a cent, fine   *)
(* enough for amounts below, at and above the half.                           *)
PartsPerCent == 4

Item == [bet_type : betTypeCodes, selection : Number, stake : Nat \ {0}]

ASSUME CreditLedgerAssumption ==
  /\ Slip \subseteq Seq(Item)
  /\ Odds \in [betTypeCodes -> Nat \ {0}]
  /\ Change \subseteq Nat \ {0}
  /\ Posted \subseteq Result6d
  /\ MaxCents \in Nat /\ MaxChanges \in Nat

VARIABLES
  balance,     \* credit_accounts.balance, in cents
  ledgerTotal, \* the sum of amount_delta over the account's ledger rows, in cents
  ticket,      \* quotes and tickets
  result,      \* the round's result, <<>> before it is posted
  changes,     \* topups and deductions so far
  halves       \* those of them that asked for half a cent

vars == <<balance, ledgerTotal, ticket, result, changes, halves>>

Cents == 0..MaxCents

TicketRecord ==
  [status : {"ABSENT", "QUOTED", "CONFIRMED", "SETTLED"},
   items : Slip \union {<<>>}, stakes : Seq(Cents), potentials : Seq(Cents),
   stake_total : Cents, actual_payout_total : Cents]

NoTicket == [status |-> "ABSENT", items |-> <<>>, stakes |-> <<>>, potentials |-> <<>>,
             stake_total |-> 0, actual_payout_total |-> 0]

TypeOK ==
  /\ balance \in Cents
  /\ ledgerTotal \in Int
  /\ ticket \in [Ticket -> TicketRecord]
  /\ result \in Posted \union {<<>>}
  /\ changes \in 0..MaxChanges /\ halves \in 0..changes

Init ==
  /\ balance = 0 /\ ledgerTotal = 0
  /\ ticket = [t \in Ticket |-> NoTicket]
  /\ result = <<>>
  /\ changes = 0 /\ halves = 0
-----------------------------------------------------------------------------
(* toFixed(2): c is a cent nearest to x parts.  Halfway between two cents the *)
(* nearest binary fraction decides, and it may lie on either side.  The error *)
(* of a floating-point sum, at most 0.02 cents for any NUMERIC(14, 2), matters*)
(* only that close to a half and to no other amount in quarters of a cent.    *)
(* Mutant: fractions are cut off.                                             *)
CutTo2(c, x) == PartsPerCent * c <= x /\ x < PartsPerCent * (c + 1)

toFixed2(c, x) == PartsPerCent * c - 2 <= x /\ x <= PartsPerCent * c + 2

(* The database rounds a Decimal with more places half away from zero.        *)
Numeric2(x) == IF x >= 0 THEN (x + 2) \div PartsPerCent ELSE -((2 - x) \div PartsPerCent)

IsHalfCent(x) == x % PartsPerCent = 2

(* applyLockedLedgerChange.                                                   *)
applyLockedLedgerChange(delta) ==
  /\ changes < MaxChanges
  /\ \E balanceAfter \in Cents :
       /\ toFixed2(balanceAfter, PartsPerCent * balance + delta)
       /\ balance' = balanceAfter
  /\ ledgerTotal' = ledgerTotal + Numeric2(delta)
  /\ changes' = changes + 1
  /\ halves' = halves + (IF IsHalfCent(delta) THEN 1 ELSE 0)
  /\ UNCHANGED <<ticket, result>>

topup(amount) == applyLockedLedgerChange(amount)

deduct(amount) == applyLockedLedgerChange(-amount)
-----------------------------------------------------------------------------
(* createQuote: normalizeItems checks each selection and prices each item;    *)
(* the stake of an item may come to nothing, the stake of a quote not         *)
(* (the CHECK on quotes.stake_total).                                         *)
Quote(t, items) ==
  /\ ticket[t] = NoTicket
  /\ result = <<>>
  /\ \A i \in DOMAIN items : validateStraightSelectionLength(items[i].bet_type, items[i].selection)
  /\ \E stakes \in [DOMAIN items -> Cents] :
       /\ \A i \in DOMAIN items : toFixed2(stakes[i], items[i].stake)
       /\ SumFunction(stakes) \in Cents \ {0}
       /\ \E potentials \in [DOMAIN items -> Cents] :
            /\ \A i \in DOMAIN items : toFixed2(potentials[i], stakes[i] * Odds[items[i].bet_type])
            /\ ticket' = [ticket EXCEPT ![t] =
                 [NoTicket EXCEPT !.status = "QUOTED", !.items = items, !.stakes = stakes,
                                  !.potentials = potentials, !.stake_total = SumFunction(stakes)]]
  /\ UNCHANGED <<balance, ledgerTotal, result, changes, halves>>

(* Mutant: the balance is not compared with the stake.                        *)
NotCompared(t) == TRUE

CoversStake(t) == balance >= ticket[t].stake_total

(* confirmManualCreditTicket; ticket_items takes no stake of zero.            *)
Confirm(t) ==
  /\ ticket[t].status = "QUOTED"
  /\ result = <<>>
  /\ \A i \in DOMAIN ticket[t].stakes : ticket[t].stakes[i] > 0
  /\ CoversStake(t)
  /\ balance' = balance - ticket[t].stake_total
  /\ ledgerTotal' = ledgerTotal - ticket[t].stake_total
  /\ ticket' = [ticket EXCEPT ![t].status = "CONFIRMED"]
  /\ UNCHANGED <<result, changes, halves>>

(* The round is open before its result is posted and not after it.            *)
PostResult(r) ==
  /\ result = <<>>
  /\ result' = r
  /\ UNCHANGED <<balance, ledgerTotal, ticket, changes, halves>>

(* settleTicket: the items that win are added up.                             *)
payoutTotal(tk, r) ==
  SumFunction([i \in DOMAIN tk.items |->
    IF WorkerMatches(tk.items[i].bet_type, tk.items[i].selection, r) THEN tk.potentials[i] ELSE 0])

(* creditManualPayout pays them in one ledger row.                            *)
Settle(t) ==
  LET payout == payoutTotal(ticket[t], result) IN
  /\ ticket[t].status = "CONFIRMED" /\ result # <<>>
  /\ payout \in Cents /\ balance + payout \in Cents
  /\ balance' = balance + payout
  /\ ledgerTotal' = ledgerTotal + payout
  /\ ticket' = [ticket EXCEPT ![t].status = "SETTLED", ![t].actual_payout_total = payout]
  /\ UNCHANGED <<result, changes, halves>>

Next ==
  \/ \E amount \in Change : topup(amount) \/ deduct(amount)
  \/ \E t \in Ticket, items \in Slip : Quote(t, items)
  \/ \E t \in Ticket : Confirm(t) \/ Settle(t)
  \/ \E r \in Posted : PostResult(r)

Spec == Init /\ [][Next]_vars
-----------------------------------------------------------------------------
(* Only amounts of exactly half a cent make balance and ledger drift apart,   *)
(* each by a cent at most, whatever bets and payouts come between them.       *)
DriftBounded == balance - ledgerTotal <= halves /\ ledgerTotal - balance <= halves

PromisedForWins(tk, r) ==
  SumFunction([i \in DOMAIN tk.items |->
    IF StraightBetWins(tk.items[i].bet_type, tk.items[i].selection, r) THEN tk.potentials[i] ELSE 0])

(* A settled ticket got what it was promised for the items that win by the    *)
(* digits of the result, and nothing for the others.                          *)
PaidByTheRules ==
  \A t \in Ticket :
    ticket[t].status = "SETTLED" => ticket[t].actual_payout_total = PromisedForWins(ticket[t], result)

(* docs/manual-backoffice.md:9: "Manual credit balance is derived             *)
(* operationally through locked account updates plus immutable ledger rows."  *)
LedgerExplainsBalance == balance = ledgerTotal
=============================================================================
