------------------------- MODULE TicketConfirmProofs -------------------------
(* Theorems about TicketConfirm, for any number of requests, users, rounds    *)
(* and quotes, and any amounts.                                               *)
EXTENDS TicketConfirm, SequenceTheorems, TLAPS

-----------------------------------------------------------------------------
(* What a request holds at each of its statements.                            *)

TxType ==
  /\ pc \in [Client -> {"idle", "lockQuote", "readRound", "lockAccount", "commit"}]
  /\ cq \in [Client -> Quote \union {NoQuote}]
  /\ fresh \in [Client -> BOOLEAN]
  /\ account \in [Client -> User \union {NoUser}]
  /\ seen \in [Client -> Nat] /\ delta \in [Client -> Int]

HoldsWhatItNeeds ==
  \A c \in Client :
    /\ pc[c] \in {"lockQuote", "readRound", "lockAccount"} => cq[c] \in Quote
    /\ pc[c] = "lockAccount" => cq[c] \in Manual
    /\ pc[c] = "idle" => cq[c] = NoQuote
    /\ account[c] # NoUser => pc[c] = "commit"

(* The balance a request has read is the balance until it commits.            *)
SeenIsBalance ==
  \A c \in Client : account[c] # NoUser =>
    seen[c] = balance[account[c]] /\ delta[c] \in Deltas /\ seen[c] + delta[c] >= 0

AccountsApart ==
  \A c, d \in Client : account[c] # NoUser /\ account[c] = account[d] => c = d

TypeInv == TypeOK /\ HoldsWhatItNeeds /\ SeenIsBalance /\ AccountsApart

LEMMA DeltasAreInts == Deltas \subseteq Int
<1>1. \A q \in Manual : Stake[q] \in Nat
  BY TicketConfirmAssumption
<1>2. \A a \in Amount : a \in Nat
  BY TicketConfirmAssumption
<1>3. QED
  BY <1>1, <1>2 DEF Deltas

(* A request that is over holds nothing.                                      *)
LEMMA RequestEnded ==
  ASSUME TypeOK, NEW c \in Client, EndRequest(c)
  PROVE  /\ TxType'
         /\ pc'[c] = "idle" /\ cq'[c] = NoQuote /\ account'[c] = NoUser
         /\ \A d \in Client \ {c} :
              /\ pc'[d] = pc[d] /\ cq'[d] = cq[d] /\ fresh'[d] = fresh[d]
              /\ account'[d] = account[d] /\ seen'[d] = seen[d] /\ delta'[d] = delta[d]
BY DEF TypeOK, TxType, EndRequest

-----------------------------------------------------------------------------
(* As far as transactions and accounts go there are five kinds of steps:      *)
(* nothing happens to them, a request ends without writing, it goes on to its *)
(* next statement, it locks an account, or it commits.                        *)

Elsewhere == UNCHANGED <<txVars, creditVars>>

Ended(c) == EndRequest(c) /\ UNCHANGED creditVars

GoesOn(c, s, q) ==
  /\ account[c] = NoUser
  /\ pc' = [pc EXCEPT ![c] = s]
  /\ cq' = [cq EXCEPT ![c] = q]
  /\ fresh' \in [Client -> BOOLEAN]
  /\ UNCHANGED <<account, seen, delta, creditVars>>

Locks(c, u, d) ==
  /\ account[c] = NoUser /\ AccountFree(u) /\ balance[u] + d >= 0
  /\ Lock(c, u, d)
  /\ UNCHANGED <<cq, fresh, creditVars>>

Commits(c) == pc[c] = "commit" /\ PostEntry(c) /\ EndRequest(c)

RequestStep ==
  \/ Elsewhere
  \/ \E c \in Client : Ended(c) \/ Commits(c)
  \/ \E c \in Client, q \in Quote : GoesOn(c, "lockQuote", q) \/ GoesOn(c, "readRound", q) \/ GoesOn(c, "commit", q)
  \/ \E c \in Client, q \in Manual : GoesOn(c, "lockAccount", q)
  \/ \E c \in Client, u \in User, d \in Deltas : Locks(c, u, d)

LEMMA StepsAreRequestSteps == TypeInv /\ [Next]_vars => RequestStep
<1> SUFFICES ASSUME TypeInv, [Next]_vars PROVE RequestStep
  OBVIOUS
<1>0. TypeOK /\ HoldsWhatItNeeds
  BY DEF TypeInv
<1>1. ASSUME NEW c \in Client, NEW q \in Quote, ConfirmTicket(c, q) PROVE GoesOn(c, "lockQuote", q)
  BY <1>0, <1>1 DEF ConfirmTicket, GoesOn, TypeOK, HoldsWhatItNeeds, dbVars
<1>2. ASSUME NEW c \in Client, NEW q \in Quote, CreateManualTicket(c, q) PROVE GoesOn(c, "readRound", q)
  BY <1>0, <1>2 DEF CreateManualTicket, GoesOn, TypeOK, HoldsWhatItNeeds, dbVars
<1>3. ASSUME NEW c \in Client, LockQuote(c) PROVE Ended(c) \/ \E q \in Quote : GoesOn(c, "readRound", q)
  <2>1. cq[c] \in Quote /\ account[c] = NoUser /\ cq = [cq EXCEPT ![c] = cq[c]]
    BY <1>0, <1>3 DEF LockQuote, HoldsWhatItNeeds, TypeOK
  <2>2. Ended(c) \/ GoesOn(c, "readRound", cq[c])
    BY <1>0, <1>3, <2>1 DEF LockQuote, Ended, GoesOn, TypeOK, dbVars
  <2>3. QED
    BY <2>1, <2>2
<1>4. ASSUME NEW c \in Client, ReadRound(c)
      PROVE  \/ Ended(c)
             \/ \E q \in Quote : GoesOn(c, "commit", q)
             \/ \E q \in Manual : GoesOn(c, "lockAccount", q)
  <2>1. cq[c] \in Quote /\ account[c] = NoUser /\ cq = [cq EXCEPT ![c] = cq[c]]
    BY <1>0, <1>4 DEF ReadRound, HoldsWhatItNeeds, TypeOK
  <2>2. CASE cq[c] \in Manual
    <3>1. Ended(c) \/ GoesOn(c, "lockAccount", cq[c])
      BY <1>0, <1>4, <2>1, <2>2 DEF ReadRound, Ended, GoesOn, TypeOK, dbVars
    <3>2. QED
      BY <2>2, <3>1
  <2>3. CASE cq[c] \notin Manual
    <3>1. Ended(c) \/ GoesOn(c, "commit", cq[c])
      BY <1>0, <1>4, <2>1, <2>3 DEF ReadRound, Ended, GoesOn, TypeOK, dbVars
    <3>2. QED
      BY <2>1, <3>1
  <2>4. QED
    BY <2>2, <2>3
<1>5. ASSUME NEW c \in Client, LockAccount(c)
      PROVE  Ended(c) \/ \E u \in User, d \in Deltas : Locks(c, u, d)
  <2>1. cq[c] \in Manual /\ account[c] = NoUser
    BY <1>0, <1>5 DEF LockAccount, HoldsWhatItNeeds
  <2>2. QuoteUser[cq[c]] \in User /\ Stake[cq[c]] \in Nat /\ -Stake[cq[c]] \in Deltas
    BY <2>1, TicketConfirmAssumption DEF Deltas
  <2>3. balance[QuoteUser[cq[c]]] \in Nat
    BY <1>0, <2>2 DEF TypeOK
  <2>4. CASE balance[QuoteUser[cq[c]]] >= Stake[cq[c]]
    <3>1. Locks(c, QuoteUser[cq[c]], -Stake[cq[c]])
      BY <1>5, <2>1, <2>2, <2>3, <2>4 DEF LockAccount, Locks, dbVars
    <3>2. QED
      BY <2>2, <3>1
  <2>5. CASE ~(balance[QuoteUser[cq[c]]] >= Stake[cq[c]])
    BY <1>5, <2>5 DEF LockAccount, Ended, dbVars
  <2>6. QED
    BY <2>4, <2>5
<1>6. ASSUME NEW c \in Client, NEW u \in User, NEW a \in Amount,
             ApplyLedgerChange(c, u, a) \/ ApplyLedgerChange(c, u, -a)
      PROVE  \E d \in Deltas : Locks(c, u, d)
  <2>1. a \in Deltas /\ -a \in Deltas
    BY DEF Deltas
  <2>2. account[c] = NoUser
    BY <1>0, <1>6 DEF ApplyLedgerChange, HoldsWhatItNeeds
  <2>3. Locks(c, u, a) \/ Locks(c, u, -a)
    BY <1>6, <2>2 DEF ApplyLedgerChange, Locks, dbVars
  <2>4. QED
    BY <2>1, <2>3
<1>7. ASSUME NEW c \in Client, Commit(c) PROVE Commits(c)
  BY <1>7 DEF Commit, Commits
<1>8. ASSUME NEW c \in Client, RollBack(c) PROVE Ended(c)
  BY <1>8 DEF RollBack, Ended, dbVars
<1>9. ASSUME \/ \E r \in Round : PostResult(r) \/ \E s \in RoundStatus \ {"RESULT_POSTED"} : PatchRound(r, s)
             \/ \E u \in User, s \in {"ENABLED", "DISABLED"} : UpdateUserStatus(u, s)
             \/ \E q \in Quote : QuoteExpires(q) \/ CreateQuote(q)
             \/ UNCHANGED vars
      PROVE  Elsewhere
  BY <1>9 DEF PostResult, PatchRound, UpdateUserStatus, QuoteExpires, CreateQuote, vars, dbVars, Elsewhere
<1>10. QED
  BY <1>1, <1>2, <1>3, <1>4, <1>5, <1>6, <1>7, <1>8, <1>9 DEF Next, RequestRuns, RequestStep
-----------------------------------------------------------------------------
CreditType == balance \in [User -> Nat] /\ ledger \in [User -> Seq(LedgerEntry)]

TxInv == TxType /\ CreditType /\ HoldsWhatItNeeds /\ SeenIsBalance /\ AccountsApart

(* What a request that has locked an account writes is what Accounts allows.  *)
LEMMA PostedEntry ==
  ASSUME TypeInv, NEW c \in Client, PostEntry(c), account[c] # NoUser
  PROVE  /\ account[c] \in User /\ delta[c] \in Deltas
         /\ Abstract!Post(account[c], delta[c])
         /\ balance' = [balance EXCEPT ![account[c]] = seen[c] + delta[c]]
         /\ seen[c] + delta[c] \in Nat
         /\ CreditType'
<1>1. /\ account[c] \in User /\ delta[c] \in Deltas /\ delta[c] \in Int /\ seen[c] \in Nat
      /\ seen[c] = balance[account[c]] /\ seen[c] + delta[c] >= 0
  BY DeltasAreInts DEF TypeInv, TypeOK, SeenIsBalance
<1>2. seen[c] + delta[c] \in Nat
  BY <1>1
<1>3. /\ ledger' = [ledger EXCEPT ![account[c]] =
                      Append(@, [delta |-> delta[c], before |-> seen[c], after |-> seen[c] + delta[c]])]
      /\ balance' = [balance EXCEPT ![account[c]] = seen[c] + delta[c]]
  BY DEF PostEntry
<1>4. Abstract!Post(account[c], delta[c])
  BY <1>1, <1>3 DEF Abstract!Post, Abstract!Entry, TypeInv, TypeOK
<1>5. [delta |-> delta[c], before |-> seen[c], after |-> seen[c] + delta[c]] \in LedgerEntry
  BY <1>1, <1>2 DEF LedgerEntry
<1>6. ledger[account[c]] \in Seq(LedgerEntry)
  BY <1>1 DEF TypeInv, TypeOK
<1>7. Append(ledger[account[c]], [delta |-> delta[c], before |-> seen[c], after |-> seen[c] + delta[c]])
        \in Seq(LedgerEntry)
  BY <1>5, <1>6, AppendProperties
<1>8. CreditType'
  BY <1>2, <1>3, <1>7 DEF CreditType, TypeInv, TypeOK
<1>9. QED
  BY <1>1, <1>2, <1>3, <1>4, <1>8

LEMMA TxInvStep == TypeInv /\ RequestStep => TxInv'
<1> SUFFICES ASSUME TypeInv, RequestStep PROVE TxInv'
  OBVIOUS
<1>0. TypeOK /\ TxType /\ CreditType /\ HoldsWhatItNeeds /\ SeenIsBalance /\ AccountsApart
  BY DEF TypeInv, TypeOK, TxType, CreditType
<1>1. CASE Elsewhere
  BY <1>0, <1>1 DEF Elsewhere, txVars, creditVars, TxInv, TxType, CreditType, HoldsWhatItNeeds, SeenIsBalance, AccountsApart
<1>2. ASSUME NEW c \in Client, Ended(c) PROVE TxInv'
  <2>1. /\ TxType' /\ pc'[c] = "idle" /\ cq'[c] = NoQuote /\ account'[c] = NoUser
        /\ \A d \in Client \ {c} :
             /\ pc'[d] = pc[d] /\ cq'[d] = cq[d]
             /\ account'[d] = account[d] /\ seen'[d] = seen[d] /\ delta'[d] = delta[d]
        /\ UNCHANGED <<balance, ledger>>
    BY <1>0, <1>2, RequestEnded DEF Ended, creditVars
  <2>2. HoldsWhatItNeeds' /\ CreditType'
    BY <1>0, <2>1 DEF HoldsWhatItNeeds, CreditType
  <2>3. SeenIsBalance' /\ AccountsApart'
    BY <1>0, <2>1 DEF SeenIsBalance, AccountsApart
  <2>4. QED
    BY <2>1, <2>2, <2>3 DEF TxInv
<1>3. ASSUME NEW c \in Client, Commits(c) PROVE TxInv'
  <2>1. /\ TxType' /\ pc'[c] = "idle" /\ cq'[c] = NoQuote /\ account'[c] = NoUser
        /\ \A d \in Client \ {c} :
             /\ pc'[d] = pc[d] /\ cq'[d] = cq[d]
             /\ account'[d] = account[d] /\ seen'[d] = seen[d] /\ delta'[d] = delta[d]
    BY <1>0, <1>3, RequestEnded DEF Commits
  <2>2. HoldsWhatItNeeds' /\ AccountsApart'
    BY <1>0, <2>1 DEF HoldsWhatItNeeds, AccountsApart
  <2>3. CASE account[c] = NoUser
    <3>1. UNCHANGED <<balance, ledger>>
      BY <1>3, <2>3 DEF Commits, PostEntry, creditVars
    <3>2. QED
      BY <1>0, <2>1, <2>2, <3>1 DEF TxInv, CreditType, SeenIsBalance
  <2>4. CASE account[c] # NoUser
    <3>1. CreditType' /\ balance' = [balance EXCEPT ![account[c]] = seen[c] + delta[c]]
      BY <1>3, <2>4, PostedEntry DEF Commits
    <3>2. \A d \in Client \ {c} : account[d] # NoUser => account[d] # account[c] /\ account[d] \in User
      BY <1>0, <2>4 DEF AccountsApart, TxType
    <3>3. \A d \in Client \ {c} : account[d] # NoUser => balance'[account[d]] = balance[account[d]]
      BY <1>0, <3>1, <3>2 DEF CreditType
    <3>4. SeenIsBalance'
      BY <1>0, <2>1, <3>3 DEF SeenIsBalance
    <3>5. QED
      BY <2>1, <2>2, <3>1, <3>4 DEF TxInv
  <2>5. QED
    BY <2>3, <2>4
<1>4. ASSUME NEW c \in Client, NEW q \in Quote, NEW s \in {"lockQuote", "readRound", "lockAccount", "commit"},
             GoesOn(c, s, q), s = "lockAccount" => q \in Manual
      PROVE  TxInv'
  <2>1. /\ account[c] = NoUser /\ UNCHANGED <<account, seen, delta, balance, ledger>>
        /\ pc' = [pc EXCEPT ![c] = s] /\ cq' = [cq EXCEPT ![c] = q] /\ fresh' \in [Client -> BOOLEAN]
    BY <1>4 DEF GoesOn, creditVars
  <2>2. TxType' /\ CreditType' /\ SeenIsBalance' /\ AccountsApart'
    BY <1>0, <2>1 DEF TxType, CreditType, SeenIsBalance, AccountsApart
  <2>3. HoldsWhatItNeeds'
    BY <1>0, <1>4, <2>1 DEF HoldsWhatItNeeds, TxType
  <2>4. QED
    BY <2>2, <2>3 DEF TxInv
<1>5. ASSUME NEW c \in Client, NEW u \in User, NEW d \in Deltas, Locks(c, u, d) PROVE TxInv'
  <2>1. /\ account[c] = NoUser /\ \A e \in Client : account[e] # u
        /\ balance[u] + d >= 0 /\ balance[u] \in Nat /\ d \in Int /\ u # NoUser
        /\ account' = [account EXCEPT ![c] = u] /\ seen' = [seen EXCEPT ![c] = balance[u]]
        /\ delta' = [delta EXCEPT ![c] = d] /\ pc' = [pc EXCEPT ![c] = "commit"]
        /\ UNCHANGED <<cq, fresh, balance, ledger>>
    BY <1>0, <1>5, DeltasAreInts, TicketConfirmAssumption DEF Locks, Lock, AccountFree, CreditType, creditVars
  <2>2. TxType' /\ CreditType'
    BY <1>0, <2>1 DEF TxType, CreditType
  <2>3. HoldsWhatItNeeds'
    BY <1>0, <2>1 DEF HoldsWhatItNeeds, TxType
  <2>4. SeenIsBalance'
    BY <1>0, <1>5, <2>1 DEF SeenIsBalance, TxType
  <2>5. AccountsApart'
    BY <1>0, <2>1 DEF AccountsApart, TxType
  <2>6. QED
    BY <2>2, <2>3, <2>4, <2>5 DEF TxInv
<1>6. Manual \subseteq Quote
  BY TicketConfirmAssumption
<1>7. QED
  BY <1>1, <1>2, <1>3, <1>4, <1>5, <1>6 DEF RequestStep

(* The other tables keep their types.                                         *)
RowsType ==
  /\ round \in [Round -> RoundStatus]
  /\ userStatus \in [User -> {"ENABLED", "DISABLED"}]
  /\ quote \in [Quote -> {"ABSENT", "CREATED", "USED"}]
  /\ expired \in SUBSET Quote
  /\ tickets \in [Quote -> Nat] /\ debitRows \in [Quote -> Nat] /\ betDebits \in [Quote -> Nat]
  /\ changes \in Nat /\ failures \in Nat

(* A commit that makes a ticket changes the rows of its quote, and no others. *)
LEMMA TicketCreated ==
  ASSUME TypeOK, NEW c \in Client, cq[c] \in Quote, CreateTicket(c)
  PROVE  /\ tickets[cq[c]] = 0 /\ tickets'[cq[c]] = 1 /\ quote'[cq[c]] = "USED"
         /\ cq[c] \in Manual =>
              betDebits'[cq[c]] = betDebits[cq[c]] + 1 /\ debitRows'[cq[c]] = debitRows[cq[c]]
         /\ cq[c] \notin Manual =>
              betDebits'[cq[c]] = betDebits[cq[c]] /\ debitRows'[cq[c]] = debitRows[cq[c]] + 1
         /\ \A q \in Quote \ {cq[c]} :
              /\ tickets'[q] = tickets[q] /\ quote'[q] = quote[q]
              /\ betDebits'[q] = betDebits[q] /\ debitRows'[q] = debitRows[q]
         /\ tickets' \in [Quote -> Nat] /\ quote' \in [Quote -> {"ABSENT", "CREATED", "USED"}]
         /\ betDebits' \in [Quote -> Nat] /\ debitRows' \in [Quote -> Nat]
<1>1. /\ tickets[cq[c]] = 0
      /\ tickets' = [tickets EXCEPT ![cq[c]] = @ + 1] /\ quote' = [quote EXCEPT ![cq[c]] = "USED"]
  BY DEF CreateTicket
<1>2. CASE cq[c] \in Manual
  <2>1. betDebits' = [betDebits EXCEPT ![cq[c]] = @ + 1] /\ debitRows' = debitRows
    BY <1>2 DEF CreateTicket
  <2>2. QED
    BY <1>1, <1>2, <2>1 DEF TypeOK
<1>3. CASE cq[c] \notin Manual
  <2>1. debitRows' = [debitRows EXCEPT ![cq[c]] = @ + 1] /\ betDebits' = betDebits
    BY <1>3 DEF CreateTicket
  <2>2. QED
    BY <1>1, <1>3, <2>1 DEF TypeOK
<1>4. QED
  BY <1>2, <1>3

LEMMA RowsTypeStep == TypeInv /\ [Next]_vars => RowsType'
<1> SUFFICES ASSUME TypeInv, [Next]_vars PROVE RowsType'
  OBVIOUS
<1>0. TypeOK /\ RowsType /\ HoldsWhatItNeeds
  BY DEF TypeInv, TypeOK, RowsType
<1>1. ASSUME NEW r \in Round, PostResult(r) \/ \E s \in RoundStatus \ {"RESULT_POSTED"} : PatchRound(r, s)
      PROVE  RowsType'
  <2>1. "RESULT_POSTED" \in RoundStatus
    BY DEF RoundStatus
  <2>2. (\E s \in RoundStatus : round' = [round EXCEPT ![r] = s])
        /\ UNCHANGED <<userStatus, quoteVars, changes, failures>>
    BY <1>1, <2>1 DEF PostResult, PatchRound
  <2>3. QED
    BY <1>0, <2>2 DEF RowsType, quoteVars
<1>2. ASSUME NEW u \in User, NEW s \in {"ENABLED", "DISABLED"}, UpdateUserStatus(u, s) PROVE RowsType'
  BY <1>0, <1>2 DEF UpdateUserStatus, RowsType, quoteVars
<1>3. ASSUME NEW q \in Quote, QuoteExpires(q) \/ CreateQuote(q) PROVE RowsType'
  BY <1>0, <1>3 DEF QuoteExpires, CreateQuote, RowsType
<1>4. ASSUME NEW c \in Client, Commit(c) PROVE RowsType'
  <2>1. UNCHANGED <<round, userStatus, expired, changes, failures>>
    BY <1>4 DEF Commit
  <2>2. CASE cq[c] = NoQuote
    <3>1. UNCHANGED <<tickets, quote, betDebits, debitRows>>
      BY <1>4, <2>2 DEF Commit
    <3>2. QED
      BY <1>0, <2>1, <3>1 DEF RowsType
  <2>3. CASE cq[c] # NoQuote
    <3>1. cq[c] \in Quote /\ CreateTicket(c)
      BY <1>0, <1>4, <2>3 DEF Commit, TypeOK
    <3>2. QED
      BY <1>0, <2>1, <3>1, TicketCreated DEF RowsType
  <2>4. QED
    BY <2>2, <2>3
<1>5. ASSUME NEW c \in Client,
             \/ \E q \in Quote : ConfirmTicket(c, q) \/ CreateManualTicket(c, q)
             \/ \E u \in User, a \in Amount : ApplyLedgerChange(c, u, a) \/ ApplyLedgerChange(c, u, -a)
             \/ LockQuote(c) \/ ReadRound(c) \/ LockAccount(c) \/ RollBack(c)
      PROVE  RowsType'
  <2>1. UNCHANGED dbVars /\ changes' \in Nat /\ failures' \in Nat
    BY <1>0, <1>5 DEF RowsType, ConfirmTicket, CreateManualTicket, ApplyLedgerChange, LockQuote, ReadRound,
       LockAccount, RollBack
  <2>2. QED
    BY <1>0, <2>1 DEF RowsType, dbVars, quoteVars
<1>6. CASE UNCHANGED vars
  BY <1>0, <1>6 DEF vars, dbVars, quoteVars, RowsType
<1>7. QED
  BY <1>1, <1>2, <1>3, <1>4, <1>5, <1>6 DEF Next, RequestRuns

LEMMA TypeInvInit == Init => TypeInv
<1> SUFFICES ASSUME Init PROVE TypeInv
  OBVIOUS
<1>1. TypeOK
  BY DEF Init, TypeOK, RoundStatus
<1>2. HoldsWhatItNeeds /\ SeenIsBalance /\ AccountsApart
  BY DEF Init, HoldsWhatItNeeds, SeenIsBalance, AccountsApart
<1>3. QED
  BY <1>1, <1>2 DEF TypeInv

LEMMA TypeInvStep == TypeInv /\ [Next]_vars => TypeInv' /\ RequestStep
<1>1. TypeInv /\ [Next]_vars => TxInv' /\ RowsType' /\ RequestStep
  BY StepsAreRequestSteps, TxInvStep, RowsTypeStep
<1>2. TxInv' /\ RowsType' => TypeInv'
  BY DEF TxInv, TxType, CreditType, RowsType, TypeInv, TypeOK
<1>3. QED
  BY <1>1, <1>2

(* Every variable keeps its type, and with it no balance falls below zero     *)
(* (confirmManualCreditTicket, applyLockedLedgerChange).                      *)
THEOREM TypeCorrect == Spec => []TypeOK
<1>1. TypeInv => TypeOK
  BY DEF TypeInv
<1>2. QED
  BY TypeInvInit, TypeInvStep, <1>1, PTL DEF Spec
-----------------------------------------------------------------------------
(* Each request is a step of Accounts when it commits and none before:        *)
(* balances computed from what was read earlier are the right ones.           *)
THEOREM KeepsAccounts == Spec => ImplementsAccounts
<1>1. Init => Abstract!Init
  BY DEF Init, Abstract!Init
<1>2. TypeInv /\ RequestStep => [Abstract!Next]_<<balance, ledger>>
  <2> SUFFICES ASSUME TypeInv, RequestStep PROVE [Abstract!Next]_<<balance, ledger>>
    OBVIOUS
  <2>1. ASSUME NEW c \in Client, Commits(c) PROVE [Abstract!Next]_<<balance, ledger>>
    <3>1. CASE account[c] = NoUser
      BY <2>1, <3>1 DEF Commits, PostEntry, creditVars
    <3>2. CASE account[c] # NoUser
      BY <2>1, <3>2, PostedEntry DEF Commits, Abstract!Next
    <3>3. QED
      BY <3>1, <3>2
  <2>2. \/ \E c \in Client : Commits(c)
        \/ UNCHANGED <<balance, ledger>>
    BY DEF RequestStep, Elsewhere, Ended, GoesOn, Locks, creditVars
  <2>3. QED
    BY <2>1, <2>2
<1>3. QED
  BY TypeInvInit, TypeInvStep, <1>1, <1>2, PTL DEF Spec, ImplementsAccounts, Abstract!Spec
-----------------------------------------------------------------------------
(* Quotes.  A request that has passed the lock of a quote is the only one,    *)
(* and the quote has no ticket.                                               *)

QuotesApart ==
  \A c, d \in Client, q \in Quote : QuoteLockedBy(c, q) /\ QuoteLockedBy(d, q) => c = d

QuotesUnused == \A c \in Client, q \in Quote : QuoteLockedBy(c, q) => quote[q] # "USED"

QuoteInv == QuotesApart /\ QuotesUnused /\ TicketPerQuote

LEMMA QuoteInvInit == Init => QuoteInv
BY DEF Init, QuoteInv, QuotesApart, QuotesUnused, TicketPerQuote, QuoteLockedBy

LEMMA QuoteInvStep == TypeInv /\ QuoteInv /\ [Next]_vars => QuoteInv'
<1> SUFFICES ASSUME TypeInv, QuoteInv, [Next]_vars PROVE QuoteInv'
  OBVIOUS
<1>0. TypeOK /\ HoldsWhatItNeeds /\ QuotesApart /\ QuotesUnused /\ TicketPerQuote
  BY DEF TypeInv, QuoteInv
(* Steps that take no lock of a quote and write no row of one.                *)
<1>a. ASSUME UNCHANGED <<quote, tickets, betDebits, debitRows>>,
             \A c \in Client, q \in Quote : QuoteLockedBy(c, q)' => QuoteLockedBy(c, q)
      PROVE  QuoteInv'
  <2>1. TicketPerQuote'
    BY <1>0, <1>a DEF TicketPerQuote
  <2>2. QuotesApart' /\ QuotesUnused'
    BY <1>0, <1>a DEF QuotesApart, QuotesUnused
  <2>3. QED
    BY <2>1, <2>2 DEF QuoteInv
<1>b. ASSUME NEW c \in Client, EndRequest(c)
      PROVE  \A d \in Client, q \in Quote : QuoteLockedBy(d, q)' => d # c /\ QuoteLockedBy(d, q)
  BY <1>0, <1>b, RequestEnded DEF QuoteLockedBy
(* Steps that take the lock of one, free and not used.                        *)
<1>c. ASSUME UNCHANGED <<quote, tickets, betDebits, debitRows>>, NEW c \in Client, NEW q \in Quote,
             \A d \in Client : ~QuoteLockedBy(d, q), quote[q] # "USED",
             pc' = [pc EXCEPT ![c] = "readRound"], cq' = [cq EXCEPT ![c] = q]
      PROVE  QuoteInv'
  <2>1. \A d \in Client, p \in Quote : QuoteLockedBy(d, p)' => QuoteLockedBy(d, p) \/ (d = c /\ p = q)
    BY <1>0, <1>c DEF QuoteLockedBy, TypeOK
  <2>2. TicketPerQuote'
    BY <1>0, <1>c DEF TicketPerQuote
  <2>3. QuotesApart'
    BY <1>0, <1>c, <2>1 DEF QuotesApart
  <2>4. QuotesUnused'
    BY <1>0, <1>c, <2>1 DEF QuotesUnused
  <2>5. QED
    BY <2>2, <2>3, <2>4 DEF QuoteInv
<1>1. ASSUME \/ \E r \in Round : PostResult(r) \/ \E s \in RoundStatus \ {"RESULT_POSTED"} : PatchRound(r, s)
             \/ \E u \in User, s \in {"ENABLED", "DISABLED"} : UpdateUserStatus(u, s)
             \/ \E q \in Quote : QuoteExpires(q)
             \/ UNCHANGED vars
      PROVE  QuoteInv'
  <2>1. UNCHANGED <<quote, tickets, betDebits, debitRows, pc, cq>>
    BY <1>1 DEF PostResult, PatchRound, UpdateUserStatus, QuoteExpires, vars, dbVars, quoteVars, txVars
  <2>2. QED
    BY <1>a, <2>1 DEF QuoteLockedBy
<1>2. ASSUME NEW q \in Quote, CreateQuote(q) PROVE QuoteInv'
  <2>1. /\ quote[q] = "ABSENT" /\ quote' = [quote EXCEPT ![q] = "CREATED"]
        /\ UNCHANGED <<tickets, betDebits, debitRows, pc, cq>>
    BY <1>2 DEF CreateQuote, MayQuote, txVars
  <2>2. \A p \in Quote : (quote'[p] = "USED") <=> (quote[p] = "USED")
    BY <1>0, <2>1 DEF TypeOK
  <2>3. TicketPerQuote'
    BY <1>0, <2>1, <2>2 DEF TicketPerQuote
  <2>4. QuotesApart' /\ QuotesUnused'
    BY <1>0, <2>1, <2>2 DEF QuotesApart, QuotesUnused, QuoteLockedBy
  <2>5. QED
    BY <2>3, <2>4 DEF QuoteInv
<1>3. ASSUME NEW c \in Client, NEW q \in Quote, ConfirmTicket(c, q) PROVE QuoteInv'
  <2>1. /\ UNCHANGED <<quote, tickets, betDebits, debitRows>>
        /\ pc' = [pc EXCEPT ![c] = "lockQuote"] /\ cq' = [cq EXCEPT ![c] = q]
    BY <1>3 DEF ConfirmTicket, dbVars, quoteVars
  <2>2. \A d \in Client, p \in Quote : QuoteLockedBy(d, p)' => QuoteLockedBy(d, p)
    BY <1>0, <2>1 DEF QuoteLockedBy, TypeOK
  <2>3. QED
    BY <1>a, <2>1, <2>2
<1>4. ASSUME NEW c \in Client, NEW q \in Quote, CreateManualTicket(c, q) PROVE QuoteInv'
  <2>1. /\ UNCHANGED <<quote, tickets, betDebits, debitRows>>
        /\ quote[q] = "ABSENT" /\ \A d \in Client : ~QuoteLockedBy(d, q)
        /\ pc' = [pc EXCEPT ![c] = "readRound"] /\ cq' = [cq EXCEPT ![c] = q]
    BY <1>4 DEF CreateManualTicket, MayQuote, QuoteLockedBy, dbVars, quoteVars
  <2>2. QED
    BY <1>c, <2>1
<1>5. ASSUME NEW c \in Client, LockQuote(c) PROVE QuoteInv'
  <2>1. UNCHANGED <<quote, tickets, betDebits, debitRows>>
    BY <1>5 DEF LockQuote, dbVars, quoteVars
  <2>2. CASE EndRequest(c)
    BY <1>a, <1>b, <2>1, <2>2
  <2>3. CASE ~EndRequest(c)
    <3>1. /\ cq[c] \in Quote /\ \A d \in Client : ~QuoteLockedBy(d, cq[c])
          /\ quote[cq[c]] # "USED"
          /\ pc' = [pc EXCEPT ![c] = "readRound"] /\ cq' = [cq EXCEPT ![c] = cq[c]]
      BY <1>0, <1>5, <2>3 DEF LockQuote, QuoteFree, HoldsWhatItNeeds, TypeOK
    <3>2. QED
      BY <1>c, <2>1, <3>1
  <2>4. QED
    BY <2>2, <2>3
<1>6. ASSUME NEW c \in Client,
             \/ ReadRound(c) \/ LockAccount(c)
             \/ \E u \in User, a \in Amount : ApplyLedgerChange(c, u, a) \/ ApplyLedgerChange(c, u, -a)
      PROVE  QuoteInv'
  <2>1. UNCHANGED <<quote, tickets, betDebits, debitRows>>
    BY <1>6 DEF ReadRound, LockAccount, ApplyLedgerChange, dbVars, quoteVars
  <2>2. \/ EndRequest(c)
        \/ /\ UNCHANGED cq
           /\ \E s \in {"lockAccount", "commit"} : pc' = [pc EXCEPT ![c] = s]
           /\ pc[c] \in {"readRound", "lockAccount"} \/ cq[c] = NoQuote
    BY <1>0, <1>6 DEF ReadRound, LockAccount, ApplyLedgerChange, Lock, HoldsWhatItNeeds
  <2>3. \A d \in Client, p \in Quote : QuoteLockedBy(d, p)' => QuoteLockedBy(d, p)
    BY <1>0, <1>b, <2>2, TicketConfirmAssumption DEF QuoteLockedBy, TypeOK
  <2>4. QED
    BY <1>a, <2>1, <2>3
<1>7. ASSUME NEW c \in Client, RollBack(c) PROVE QuoteInv'
  <2>1. UNCHANGED <<quote, tickets, betDebits, debitRows>> /\ EndRequest(c)
    BY <1>7 DEF RollBack, dbVars, quoteVars
  <2>2. QED
    BY <1>a, <1>b, <2>1
<1>8. ASSUME NEW c \in Client, Commit(c) PROVE QuoteInv'
  <2>1. EndRequest(c) /\ pc[c] = "commit"
    BY <1>8 DEF Commit
  <2>2. CASE cq[c] = NoQuote
    <3>1. UNCHANGED <<quote, tickets, betDebits, debitRows>>
      BY <1>8, <2>2 DEF Commit
    <3>2. QED
      BY <1>a, <1>b, <2>1, <3>1
  <2>3. CASE cq[c] # NoQuote
    <3>1. cq[c] \in Quote /\ CreateTicket(c)
      BY <1>0, <1>8, <2>3 DEF Commit, TypeOK
    <3>2. QuoteLockedBy(c, cq[c])
      BY <2>1 DEF QuoteLockedBy
    <3>3. \A d \in Client, q \in Quote : QuoteLockedBy(d, q)' => QuoteLockedBy(d, q) /\ q # cq[c]
      BY <1>0, <1>b, <2>1, <3>1, <3>2 DEF QuotesApart
    <3>4. quote[cq[c]] # "USED"
      BY <1>0, <3>1, <3>2 DEF QuotesUnused
    <3>5. QuotesApart' /\ QuotesUnused'
      BY <1>0, <3>1, <3>3, TicketCreated DEF QuotesApart, QuotesUnused
    <3>6. TicketPerQuote'
      BY <1>0, <3>1, <3>4, TicketCreated DEF TicketPerQuote
    <3>7. QED
      BY <3>5, <3>6 DEF QuoteInv
  <2>4. QED
    BY <2>2, <2>3
<1>9. QED
  BY <1>1, <1>2, <1>3, <1>4, <1>5, <1>6, <1>7, <1>8 DEF Next, RequestRuns

(* A quote is confirmed once, by whichever of the requests for it comes       *)
(* first, and its ticket is paid for once (confirmQuote).                     *)
THEOREM TicketsArePaidOnce == Spec => []TicketPerQuote
<1>1. TypeInv /\ QuoteInv /\ [Next]_vars => (TypeInv /\ QuoteInv)'
  BY TypeInvStep, QuoteInvStep
<1>2. TypeInv /\ QuoteInv => TicketPerQuote
  BY DEF QuoteInv
<1>3. QED
  BY TypeInvInit, QuoteInvInit, <1>1, <1>2, PTL DEF Spec
-----------------------------------------------------------------------------
(* What is proved of Accounts holds of these accounts.                        *)
Kept == INSTANCE AccountsProofs WITH Delta <- Deltas

(* The ledger explains every balance, though each request writes a balance it *)
(* computed from one it read earlier: a user's entries follow one another     *)
(* from zero, each from where the one before ended, and the balance is where  *)
(* the last one ended (creditLedger.append, updateCreditAccountBalance).      *)
THEOREM LedgersExplainBalances == Spec => []Abstract!LedgerIsChain
<1>1. Deltas \subseteq Int => (Kept!Spec => []Kept!LedgerIsChain)
  BY Kept!LedgersAreChains
<1>2. Abstract!Init => Kept!Init
  BY DEF Abstract!Init, Kept!Init
<1>3. [Abstract!Next]_<<balance, ledger>> => [Kept!Next]_<<balance, ledger>>
  BY DEF Abstract!Next, Abstract!Post, Abstract!Entry, Kept!Next, Kept!Post, Kept!Entry
<1>4. Kept!LedgerIsChain => Abstract!LedgerIsChain
  BY DEF Kept!LedgerIsChain, Kept!Chained, Abstract!LedgerIsChain, Abstract!Chained
<1>5. QED
  BY <1>1, <1>2, <1>3, <1>4, DeltasAreInts, KeepsAccounts, PTL DEF ImplementsAccounts, Abstract!Spec, Kept!Spec
-----------------------------------------------------------------------------
(* Locks.  A request waits for another one when that one holds the quote or   *)
(* the account it is about to lock.                                           *)
WaitsFor(c, d) ==
  \/ pc[c] = "lockQuote" /\ QuoteLockedBy(d, cq[c])
  \/ pc[c] = "lockAccount" /\ account[d] = QuoteUser[cq[c]]

(* Whoever is waited for goes on, or waits for one that does: quotes are      *)
(* locked before accounts, and a request that has its account waits for none. *)
WaitsEnd ==
  \A b, c, d \in Client : WaitsFor(b, c) /\ WaitsFor(c, d) => \A e \in Client : ~WaitsFor(d, e)

(* No request that has come to its commit is refused there: no quote has a    *)
(* ticket yet (the unique index on tickets.quote_id) and no balance falls     *)
(* below zero.                                                                *)
CommitsAccepted ==
  \A c \in Client : pc[c] = "commit" =>
    /\ cq[c] # NoQuote => tickets[cq[c]] = 0
    /\ account[c] # NoUser => balance[account[c]] + delta[c] >= 0

LEMMA WaitersApart == TypeInv => WaitsEnd
<1> SUFFICES ASSUME TypeInv, NEW b \in Client, NEW c \in Client, NEW d \in Client, NEW e \in Client,
                    WaitsFor(b, c), WaitsFor(c, d), WaitsFor(d, e)
             PROVE  FALSE
  BY DEF WaitsEnd
<1>0. HoldsWhatItNeeds /\ TypeOK
  BY DEF TypeInv
(* Who waits for a quote holds nothing.                                       *)
<1>1. pc[c] = "lockAccount" /\ pc[d] = "lockAccount"
  BY <1>0, TicketConfirmAssumption DEF WaitsFor, QuoteLockedBy, HoldsWhatItNeeds, TypeOK
(* Who waits for an account has locked none.                                  *)
<1>2. account[d] \in User
  BY <1>0, <1>1, TicketConfirmAssumption DEF WaitsFor, HoldsWhatItNeeds
<1>3. pc[d] = "commit"
  BY <1>0, <1>2, TicketConfirmAssumption DEF HoldsWhatItNeeds
<1>4. QED
  BY <1>1, <1>3

LEMMA CommitsUnopposed == TypeInv /\ QuoteInv => CommitsAccepted
<1> SUFFICES ASSUME TypeInv, QuoteInv, NEW c \in Client, pc[c] = "commit"
             PROVE  /\ cq[c] # NoQuote => tickets[cq[c]] = 0
                    /\ account[c] # NoUser => balance[account[c]] + delta[c] >= 0
  BY DEF CommitsAccepted
<1>1. ASSUME cq[c] # NoQuote PROVE tickets[cq[c]] = 0
  <2>1. cq[c] \in Quote /\ QuoteLockedBy(c, cq[c])
    BY <1>1 DEF TypeInv, TypeOK, QuoteLockedBy
  <2>2. QED
    BY <2>1 DEF QuoteInv, QuotesUnused, TicketPerQuote
<1>2. ASSUME account[c] # NoUser PROVE balance[account[c]] + delta[c] >= 0
  BY <1>2 DEF TypeInv, SeenIsBalance
<1>3. QED
  BY <1>1, <1>2

(* No two requests ever wait for each other, nor any number of them in a      *)
(* circle, and one that comes to its commit is not refused there: what is     *)
(* left of RequestsEnd is that the scheduler lets every request go on.        *)
THEOREM RequestsNeverBlock == Spec => [](WaitsEnd /\ CommitsAccepted)
<1>1. TypeInv /\ QuoteInv /\ [Next]_vars => (TypeInv /\ QuoteInv)'
  BY TypeInvStep, QuoteInvStep
<1>2. TypeInv /\ QuoteInv => WaitsEnd /\ CommitsAccepted
  BY WaitersApart, CommitsUnopposed
<1>3. QED
  BY TypeInvInit, QuoteInvInit, <1>1, <1>2, PTL DEF Spec
=============================================================================
