-------------------------- MODULE CreditLedgerProofs --------------------------
(* Theorems about Rules and CreditLedger: the three copies of the rule say    *)
(* the same, and what fractions of a cent can do to an account.               *)
EXTENDS CreditLedger, SequenceTheorems, TLAPS

LEMMA DigitsOfCodes == \A code \in betTypeCodes : betTypeDigits[code] \in 1..6
  BY DEF betTypeCodes, betTypeDigits

(* Comparing with a slice is comparing digit by digit from the end.           *)
LEMMA TailDigits ==
  ASSUME NEW r \in Result6d, NEW number \in Number, NEW n \in 1..6, Len(number) = n
  PROVE  number = Tail6d(r, n) <=> \A i \in 1..n : number[i] = r[6 - n + i]
  <1>1. r \in Seq(Digit) /\ Len(r) = 6 /\ number \in Seq(Digit)
    BY DEF Result6d, Number
  <1>2. Tail6d(r, n) = SubSeq(r, 7 - n, 6)
    <2>1. Tail6d(r, n) = SubSeq(r, Len(r) - n + 1, Len(r))
      BY DEF Tail6d
    <2>2. Len(r) - n + 1 = 7 - n
      BY <1>1
    <2>3. Tail6d(r, n) = SubSeq(r, Len(r) - n + 1, 6)
      BY <1>1, <2>1
    <2> QED
      BY <2>2, <2>3, Zenon
  <1>3. /\ SubSeq(r, 7 - n, 6) \in Seq(Digit)
        /\ Len(SubSeq(r, 7 - n, 6)) = n
        /\ \A i \in 1..n : SubSeq(r, 7 - n, 6)[i] = r[6 - n + i]
    <2>1. 7 - n \in Int /\ 7 - n <= 6 /\ 6 - (7 - n) + 1 = n
      OBVIOUS
    <2>2. ASSUME NEW i \in (7 - n)..6 PROVE r[i] \in Digit
      <3>1. i \in 1..Len(r)
        BY <1>1
      <3> QED
        BY <1>1, <3>1, ElementOfSeq
    <2> DEFINE tail == SubSeq(r, 7 - n, 6)
    <2>3. /\ tail \in Seq(Digit)
          /\ Len(tail) = IF 7 - n <= 6 THEN 6 - (7 - n) + 1 ELSE 0
          /\ \A i \in 1..(6 - (7 - n) + 1) : tail[i] = r[7 - n + i - 1]
      BY <2>1, <2>2, SubSeqProperties
    <2>4. Len(tail) = n
      BY <2>1, <2>3
    <2>5. ASSUME NEW i \in 1..n PROVE tail[i] = r[6 - n + i]
      <3>1. 7 - n + i - 1 = 6 - n + i
        OBVIOUS
      <3>2. tail[i] = r[7 - n + i - 1]
        BY <2>1, <2>3
      <3> HIDE DEF tail
      <3> QED
        BY <3>1, <3>2
    <2> QED
      BY <2>3, <2>4, <2>5
  <1>4. ASSUME \A i \in 1..n : number[i] = r[6 - n + i] PROVE number = SubSeq(r, 7 - n, 6)
    <2> DEFINE tail == SubSeq(r, 7 - n, 6)
    <2>1. tail \in Seq(Digit) /\ Len(tail) = Len(number) /\ \A i \in 1..Len(number) : number[i] = tail[i]
      BY <1>3, <1>4
    <2> HIDE DEF tail
    <2>2. number = tail
      BY <1>1, <2>1, SeqEqual
    <2> QED
      BY <2>2 DEF tail
  <1> QED
    BY <1>2, <1>3, <1>4

(* slice(-6) of six digits is all of them.                                    *)
LEMMA WholeResult == \A r \in Result6d : Tail6d(r, 6) = r
  <1> SUFFICES ASSUME NEW r \in Result6d PROVE Tail6d(r, 6) = r
    OBVIOUS
  <1>1. r \in Number /\ Len(r) = 6
    BY DEF Result6d
  <1>2. \A i \in 1..6 : r[i] = r[6 - 6 + i]
    OBVIOUS
  <1> QED
    BY <1>1, <1>2, TailDigits

(* matchStraightBet, the plugins and the settlement worker's copy decide      *)
(* alike for every bet and result, and as the digits of the result say.       *)
THEOREM RulesAgree ==
  ASSUME NEW code \in betTypeCodes, NEW number \in Number, NEW r \in Result6d
  PROVE  /\ matchStraightBet(code, number, r) <=> StraightBetWins(code, number, r)
         /\ WorkerMatches(code, number, r) <=> StraightBetWins(code, number, r)
         /\ PluginValidates(code, number) /\ PluginMatches(code, number, deriveOutcomes(r))
              <=> StraightBetWins(code, number, r)
  <1> DEFINE n == betTypeDigits[code]
  <1>1. n \in 1..6
    BY DigitsOfCodes
  <1>2. deriveOutcomes(r)[n] = Tail6d(r, n)
    BY <1>1, WholeResult DEF deriveOutcomes
  <1>3. Len(number) = n => (number = Tail6d(r, n) <=> \A i \in 1..n : number[i] = r[6 - n + i])
    BY <1>1, TailDigits
  <1> QED
    BY <1>2, <1>3
    DEF matchStraightBet, validateStraightSelectionLength, WorkerMatches,
        PluginValidates, PluginMatches, StraightBetWins
-----------------------------------------------------------------------------
(* A change that is no half cent is rounded alike by the program and by the   *)
(* database; one that is differs by a cent at most.                           *)
LEMMA RoundingDrift ==
  ASSUME NEW before \in Int, NEW after \in Int, NEW delta \in Int,
         toFixed2(after, PartsPerCent * before + delta)
  PROVE  LET d == (after - before) - Numeric2(delta) IN
         /\ Numeric2(delta) \in Int
         /\ -1 <= d /\ d <= 1
         /\ ~IsHalfCent(delta) => d = 0
  BY DEF toFixed2, Numeric2, IsHalfCent, PartsPerCent

LEMMA DriftStep == TypeOK /\ DriftBounded /\ [Next]_vars => DriftBounded'
  <1> SUFFICES ASSUME TypeOK, DriftBounded, [Next]_vars PROVE DriftBounded'
    OBVIOUS
  <1>1. ASSUME NEW delta \in Int, applyLockedLedgerChange(delta) PROVE DriftBounded'
    <2>1. /\ balance \in Int /\ balance' \in Int /\ ledgerTotal \in Int /\ halves \in Int
          /\ toFixed2(balance', PartsPerCent * balance + delta)
          /\ ledgerTotal' = ledgerTotal + Numeric2(delta)
          /\ halves' = halves + (IF IsHalfCent(delta) THEN 1 ELSE 0)
      BY <1>1 DEF TypeOK, applyLockedLedgerChange, Cents
    <2>2. LET d == (balance' - balance) - Numeric2(delta) IN
          /\ Numeric2(delta) \in Int
          /\ -1 <= d /\ d <= 1
          /\ ~IsHalfCent(delta) => d = 0
      BY <2>1, RoundingDrift
    <2> QED
      BY <2>1, <2>2 DEF DriftBounded
  <1>2. ASSUME NEW amount \in Change, topup(amount) \/ deduct(amount) PROVE DriftBounded'
    <2>1. amount \in Int /\ -amount \in Int
      BY CreditLedgerAssumption
    <2> QED
      BY <1>1, <1>2, <2>1 DEF topup, deduct
  <1>3. ASSUME NEW t \in Ticket, Confirm(t) PROVE DriftBounded'
    <2>1. ticket[t].stake_total \in Int
      BY DEF TypeOK, TicketRecord, Cents
    <2> QED
      BY <1>3, <2>1 DEF TypeOK, DriftBounded, Confirm, Cents
  <1>4. ASSUME NEW t \in Ticket, Settle(t) PROVE DriftBounded'
    <2> PICK payout \in Cents : balance' = balance + payout /\ ledgerTotal' = ledgerTotal + payout
      BY <1>4 DEF Settle
    <2> QED
      BY <1>4 DEF TypeOK, DriftBounded, Settle, Cents
  <1>5. ASSUME NEW t \in Ticket, NEW items \in Slip, Quote(t, items) PROVE DriftBounded'
    BY <1>5 DEF DriftBounded, Quote
  <1>6. ASSUME NEW r \in Posted, PostResult(r) PROVE DriftBounded'
    BY <1>6 DEF DriftBounded, PostResult
  <1>7. CASE UNCHANGED vars
    BY <1>7 DEF DriftBounded, vars
  <1> QED
    BY <1>2, <1>3, <1>4, <1>5, <1>6, <1>7 DEF Next
-----------------------------------------------------------------------------
(* What Settle adds up is what the digits of the result say.                  *)
LEMMA PayoutIsPromised ==
  ASSUME NEW tk \in TicketRecord, NEW r \in Posted
  PROVE  payoutTotal(tk, r) = PromisedForWins(tk, r)
  <1>1. ASSUME NEW i \in DOMAIN tk.items
        PROVE  WorkerMatches(tk.items[i].bet_type, tk.items[i].selection, r)
                 <=> StraightBetWins(tk.items[i].bet_type, tk.items[i].selection, r)
    <2>1. tk.items \in Seq(Item) /\ r \in Result6d
      BY CreditLedgerAssumption DEF TicketRecord
    <2>2. tk.items[i] \in Item
      BY <2>1
    <2>3. tk.items[i].bet_type \in betTypeCodes /\ tk.items[i].selection \in Number
      BY <2>2 DEF Item
    <2> QED
      BY <2>1, <2>3, RulesAgree
  <1> DEFINE f == [i \in DOMAIN tk.items |->
                     IF WorkerMatches(tk.items[i].bet_type, tk.items[i].selection, r) THEN tk.potentials[i] ELSE 0]
             g == [i \in DOMAIN tk.items |->
                     IF StraightBetWins(tk.items[i].bet_type, tk.items[i].selection, r) THEN tk.potentials[i] ELSE 0]
  <1>2. f = g
    BY <1>1
  <1>3. payoutTotal(tk, r) = SumFunction(f) /\ PromisedForWins(tk, r) = SumFunction(g)
    BY DEF payoutTotal, PromisedForWins
  <1> HIDE DEF f, g
  <1> QED
    BY <1>2, <1>3

(* A quote keeps the type of its record: its stakes and potentials are        *)
(* sequences as long as its items.                                            *)
LEMMA QuotedType ==
  ASSUME NEW items \in Slip, NEW stakes \in [DOMAIN items -> Cents],
         NEW potentials \in [DOMAIN items -> Cents], NEW total \in Cents
  PROVE  [NoTicket EXCEPT !.status = "QUOTED", !.items = items, !.stakes = stakes,
                          !.potentials = potentials, !.stake_total = total] \in TicketRecord
  <1>1. items \in Seq(Item)
    BY CreditLedgerAssumption
  <1>2. Len(items) \in Nat /\ DOMAIN items = 1..Len(items)
    BY <1>1
  <1>3. stakes \in Seq(Cents) /\ potentials \in Seq(Cents)
    BY <1>2, SeqDef
  <1>4. 0 \in Cents
    BY CreditLedgerAssumption DEF Cents
  <1> QED
    BY <1>3, <1>4 DEF NoTicket, TicketRecord

LEMMA TypeInit == Init => TypeOK
  <1> SUFFICES ASSUME Init PROVE TypeOK
    OBVIOUS
  <1>1. 0 \in Cents /\ 0 \in 0..MaxChanges
    BY CreditLedgerAssumption DEF Cents
  <1>2. NoTicket \in TicketRecord
    BY <1>1 DEF NoTicket, TicketRecord
  <1> QED
    BY <1>1, <1>2 DEF Init, TypeOK

LEMMA TypeStep == TypeOK /\ [Next]_vars => TypeOK'
  <1> SUFFICES ASSUME TypeOK, [Next]_vars PROVE TypeOK'
    OBVIOUS
  <1>1. ASSUME NEW delta \in Int, applyLockedLedgerChange(delta) PROVE TypeOK'
    <2>1. Numeric2(delta) \in Int
      BY DEF Numeric2, PartsPerCent
    <2>2. changes' \in 0..MaxChanges /\ halves' \in 0..changes'
      BY <1>1, CreditLedgerAssumption DEF TypeOK, applyLockedLedgerChange
    <2> QED
      BY <1>1, <2>1, <2>2 DEF TypeOK, applyLockedLedgerChange
  <1>2. ASSUME NEW amount \in Change, topup(amount) \/ deduct(amount) PROVE TypeOK'
    <2>1. amount \in Int /\ -amount \in Int
      BY CreditLedgerAssumption
    <2> QED
      BY <1>1, <1>2, <2>1 DEF topup, deduct
  <1>3. ASSUME NEW t \in Ticket, Confirm(t) PROVE TypeOK'
    <2>1. ticket[t].stake_total \in Cents /\ balance \in Cents
      BY DEF TypeOK, TicketRecord
    <2>2. balance' \in Cents /\ ledgerTotal' \in Int
      BY <1>3, <2>1, CreditLedgerAssumption DEF TypeOK, Confirm, CoversStake, Cents
    <2>3. [ticket[t] EXCEPT !.status = "CONFIRMED"] \in TicketRecord
      BY DEF TypeOK, TicketRecord
    <2> QED
      BY <1>3, <2>2, <2>3 DEF TypeOK, Confirm
  <1>4. ASSUME NEW t \in Ticket, Settle(t) PROVE TypeOK'
    <2> PICK payout \in Cents :
          /\ balance' = balance + payout /\ balance' \in Cents /\ ledgerTotal' = ledgerTotal + payout
          /\ ticket' = [ticket EXCEPT ![t].status = "SETTLED", ![t].actual_payout_total = payout]
      BY <1>4 DEF Settle
    <2>1. [ticket[t] EXCEPT !.status = "SETTLED", !.actual_payout_total = payout] \in TicketRecord
      BY DEF TypeOK, TicketRecord
    <2>2. ledgerTotal' \in Int
      BY DEF TypeOK, Cents
    <2> QED
      BY <1>4, <2>1, <2>2 DEF TypeOK, Settle
  <1>5. ASSUME NEW t \in Ticket, NEW items \in Slip, Quote(t, items) PROVE TypeOK'
    <2> PICK stakes \in [DOMAIN items -> Cents], potentials \in [DOMAIN items -> Cents] :
          /\ SumFunction(stakes) \in Cents
          /\ ticket' = [ticket EXCEPT ![t] =
               [NoTicket EXCEPT !.status = "QUOTED", !.items = items, !.stakes = stakes,
                                !.potentials = potentials, !.stake_total = SumFunction(stakes)]]
      BY <1>5 DEF Quote
    <2> QED
      BY <1>5, QuotedType DEF TypeOK, Quote
  <1>6. ASSUME NEW r \in Posted, PostResult(r) PROVE TypeOK'
    BY <1>6 DEF TypeOK, PostResult
  <1>7. CASE UNCHANGED vars
    BY <1>7 DEF TypeOK, vars
  <1> QED
    BY <1>2, <1>3, <1>4, <1>5, <1>6, <1>7 DEF Next

(* Every variable keeps its type; in particular no balance falls below zero,  *)
(* however amounts are rounded.                                               *)
THEOREM TypeCorrect == Spec => []TypeOK
  BY TypeInit, TypeStep, PTL DEF Spec

LEMMA DriftInit == Init => DriftBounded
  BY DEF Init, DriftBounded

(* Balance and ledger differ by no more cents than half-cent amounts were     *)
(* topped up or deducted; without any they agree.  (Amounts are in quarters of*)
(* a cent: see toFixed2.)                                                     *)
THEOREM DriftStaysBounded == Spec => []DriftBounded
  BY TypeInit, TypeStep, DriftInit, DriftStep, PTL DEF Spec

NoHalves == halves = 0

LEMMA NoHalvesStep ==
  ASSUME \A amount \in Change : ~IsHalfCent(amount), NoHalves, [Next]_vars
  PROVE  NoHalves'
  <1>1. ASSUME NEW delta \in Int, ~IsHalfCent(delta), applyLockedLedgerChange(delta) PROVE NoHalves'
    BY <1>1 DEF NoHalves, applyLockedLedgerChange
  <1>2. ASSUME NEW amount \in Change, topup(amount) \/ deduct(amount) PROVE NoHalves'
    <2>1. amount \in Nat /\ ~IsHalfCent(amount)
      BY CreditLedgerAssumption
    <2>2. -amount \in Int /\ ~IsHalfCent(-amount)
      BY <2>1 DEF IsHalfCent, PartsPerCent
    <2> QED
      BY <1>1, <1>2, <2>1, <2>2 DEF topup, deduct
  <1>3. ASSUME \/ \E t \in Ticket, items \in Slip : Quote(t, items)
               \/ \E t \in Ticket : Confirm(t) \/ Settle(t)
               \/ \E r \in Posted : PostResult(r)
               \/ UNCHANGED vars
        PROVE  NoHalves'
    BY <1>3 DEF NoHalves, Quote, Confirm, Settle, PostResult, vars
  <1> QED
    BY <1>2, <1>3 DEF Next

(* What docs/manual-backoffice.md:9 says of the balance is so as long as no   *)
(* amount is exactly half a cent: of amounts in quarters of a cent, the half  *)
(* cents of run ledger_half are the only ones that break it.                  *)
THEOREM LedgerExplainsWithoutHalves ==
  ASSUME \A amount \in Change : ~IsHalfCent(amount)
  PROVE  Spec => []LedgerExplainsBalance
  <1>1. Init => NoHalves
    BY DEF Init, NoHalves
  <1>2. NoHalves /\ [Next]_vars => NoHalves'
    BY NoHalvesStep
  <1>3. TypeOK /\ DriftBounded /\ NoHalves => LedgerExplainsBalance
    BY DEF TypeOK, DriftBounded, NoHalves, LedgerExplainsBalance, Cents
  <1> QED
    BY TypeCorrect, DriftStaysBounded, <1>1, <1>2, <1>3, PTL DEF Spec
-----------------------------------------------------------------------------
(* Nothing is settled before the result is posted.                            *)
SettledByResult ==
  \A t \in Ticket : ticket[t].status = "SETTLED" =>
    result # <<>> /\ ticket[t].actual_payout_total = PromisedForWins(ticket[t], result)

LEMMA SettledInit == Init => SettledByResult
  BY DEF Init, SettledByResult, NoTicket

LEMMA SettledStep == TypeOK /\ SettledByResult /\ [Next]_vars => SettledByResult'
  <1> SUFFICES ASSUME TypeOK, SettledByResult, [Next]_vars,
                      NEW s \in Ticket, ticket'[s].status = "SETTLED"
               PROVE  result' # <<>> /\ ticket'[s].actual_payout_total = PromisedForWins(ticket'[s], result')
    BY DEF SettledByResult
  <1>1. ASSUME ticket'[s] = ticket[s], result' = result
        PROVE  result' # <<>> /\ ticket'[s].actual_payout_total = PromisedForWins(ticket'[s], result')
    BY <1>1 DEF SettledByResult
  <1>2. ASSUME NEW amount \in Change, topup(amount) \/ deduct(amount)
        PROVE  ticket'[s] = ticket[s] /\ result' = result
    BY <1>2 DEF topup, deduct, applyLockedLedgerChange
  <1>3. ASSUME NEW t \in Ticket, Confirm(t)
        PROVE  ticket'[s] = ticket[s] /\ result' = result
    BY <1>3 DEF Confirm, TypeOK, TicketRecord
  <1>4. ASSUME NEW t \in Ticket, NEW items \in Slip, Quote(t, items)
        PROVE  ticket'[s] = ticket[s] /\ result' = result
    BY <1>4 DEF Quote, TypeOK, NoTicket
  <1>5. ASSUME NEW r \in Posted, PostResult(r)
        PROVE  FALSE
    BY <1>5 DEF PostResult, SettledByResult
  <1>6. ASSUME NEW t \in Ticket, Settle(t)
        PROVE  result' # <<>> /\ ticket'[s].actual_payout_total = PromisedForWins(ticket'[s], result')
    <2>1. CASE s # t
      BY <1>1, <1>6, <2>1 DEF Settle, TypeOK
    <2>2. CASE s = t
      <3> DEFINE tk == ticket[t]
      <3>1. /\ tk \in TicketRecord /\ result \in Posted /\ result' = result /\ result # <<>>
            /\ ticket'[t] = [tk EXCEPT !.status = "SETTLED", !.actual_payout_total = payoutTotal(tk, result)]
        BY <1>6 DEF Settle, TypeOK
      <3>2. /\ ticket'[t].items = tk.items /\ ticket'[t].potentials = tk.potentials
            /\ ticket'[t].actual_payout_total = payoutTotal(tk, result)
        BY <3>1 DEF TicketRecord
      <3>3. payoutTotal(tk, result) = PromisedForWins(tk, result)
        BY <3>1, PayoutIsPromised
      <3>4. PromisedForWins(ticket'[t], result) = PromisedForWins(tk, result)
        BY <3>2 DEF PromisedForWins
      <3> QED
        BY <2>2, <3>1, <3>2, <3>3, <3>4
    <2> QED
      BY <2>1, <2>2
  <1>7. CASE UNCHANGED vars
    BY <1>1, <1>7 DEF vars
  <1> QED
    BY <1>1, <1>2, <1>3, <1>4, <1>5, <1>6, <1>7 DEF Next

(* A settled ticket got what it was promised for exactly the items that win   *)
(* by the digits of the result.                                               *)
THEOREM PayoutsFollowTheRules == Spec => []PaidByTheRules
  <1>1. Spec => []SettledByResult
    BY TypeInit, TypeStep, SettledInit, SettledStep, PTL DEF Spec
  <1>2. SettledByResult => PaidByTheRules
    BY DEF SettledByResult, PaidByTheRules
  <1> QED
    BY <1>1, <1>2, PTL
=============================================================================
