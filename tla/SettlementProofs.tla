-------------------------- MODULE SettlementProofs --------------------------
(* Theorems about Settlement, for any workers, users, tickets and jobs, and   *)
(* any number of failures and topups.                                         *)
EXTENDS Settlement, TLAPS

-----------------------------------------------------------------------------
(* The next ticket of a worker is one ticket.                                 *)
LEMMA NextIsUnique ==
  ASSUME TypeOK, NEW w \in Worker, NEW s \in Ticket, NEW t \in Ticket,
         IsNext(w, s), IsNext(w, t)
  PROVE  s = t
BY SettlementAssumption DEF TypeOK, IsNext

(* A transaction that has ended holds nothing, and the others what they held. *)
LEMMA EndedTransaction ==
  ASSUME TypeOK, NEW w \in Worker, EndTransaction(w)
  PROVE  /\ todo' \in [Worker -> SUBSET Ticket] /\ touched' \in [Worker -> SUBSET Ticket]
         /\ accounts' \in [Worker -> SUBSET User]
         /\ bal' \in [Worker -> [User -> Nat]] /\ credited' \in [Worker -> [User -> Nat]]
         /\ paid' \in [Worker -> SUBSET Ticket] /\ enqueued' \in [Worker -> SUBSET Ticket]
         /\ todo'[w] = {} /\ touched'[w] = {} /\ accounts'[w] = {}
         /\ credited'[w] = Zero /\ paid'[w] = {} /\ enqueued'[w] = {}
         /\ \A v \in Worker \ {w} :
              /\ todo'[v] = todo[v] /\ touched'[v] = touched[v] /\ accounts'[v] = accounts[v]
              /\ bal'[v] = bal[v] /\ credited'[v] = credited[v]
              /\ paid'[v] = paid[v] /\ enqueued'[v] = enqueued[v]
<1>1. Zero \in [User -> Nat]
  BY DEF Zero
<1>2. QED
  BY <1>1 DEF TypeOK, EndTransaction

LEMMA IdleType ==
  ASSUME TypeOK, NEW w \in Worker, GoIdle(w)
  PROVE  /\ pc' \in [Worker -> {"idle", "lockJob", "load", "settle", "pay", "catch"}]
         /\ byId' \in [Worker -> BOOLEAN]
         /\ jw' \in [Worker -> Job \union {NoJob}]
         /\ pc'[w] = "idle"
         /\ \A v \in Worker \ {w} : pc'[v] = pc[v] /\ jw'[v] = jw[v]
BY DEF TypeOK, GoIdle, NoJob

(* So does one that is rolled back.                                           *)
LEMMA RolledBack ==
  ASSUME TypeOK, NEW w \in Worker, RollBack(w)
  PROVE  /\ EndTransaction(w)
         /\ pc' \in [Worker -> {"idle", "lockJob", "load", "settle", "pay", "catch"}]
         /\ byId' \in [Worker -> BOOLEAN]
         /\ jw' \in [Worker -> Job \union {NoJob}]
         /\ pc'[w] \in {"idle", "catch"}
         /\ \A v \in Worker \ {w} : pc'[v] = pc[v] /\ jw'[v] = jw[v]
         /\ UNCHANGED dbVars
<1>1. CASE byId[w] /\ pc' = [pc EXCEPT ![w] = "catch"] /\ UNCHANGED <<byId, jw>>
  BY <1>1 DEF RollBack, TypeOK
<1>2. CASE ~byId[w] /\ GoIdle(w)
  BY <1>2, IdleType DEF RollBack
<1>3. QED
  BY <1>1, <1>2 DEF RollBack

LEMMA SettledTicketType ==
  ASSUME NEW w \in Worker, NEW t \in Ticket
  PROVE  SettledTicket(w, t) \in TicketRecord /\ SettledTicket(w, t).status = "SETTLED"
BY DEF SettledTicket, TicketRecord

(* What updating the items of a ticket does: the ticket needs a payout of     *)
(* credit, a payout by the wallet, or none.                                   *)
LEMMA ItemsUpdated ==
  ASSUME TypeOK, NEW w \in Worker, NEW t \in Ticket, UpdateItems(w, t)
  PROVE  /\ pc[w] = "settle" /\ IsNext(w, t) /\ ItemsFree(w, t)
         /\ UNCHANGED <<job, ticket, balance, ledgerTotal, payouts, creditRows, walletPaid, byId, jw,
                        accounts, bal, credited, paid, failures, topups>>
         /\ pc' \in [Worker -> {"idle", "lockJob", "load", "settle", "pay", "catch"}]
         /\ todo' \in [Worker -> SUBSET Ticket] /\ touched' \in [Worker -> SUBSET Ticket]
         /\ enqueued' \in [Worker -> SUBSET Ticket]
         /\ touched'[w] = touched[w] \union {t}
         /\ \A v \in Worker \ {w} :
              pc'[v] = pc[v] /\ todo'[v] = todo[v] /\ touched'[v] = touched[v] /\ enqueued'[v] = enqueued[v]
         /\ \/ /\ NeedsManualPayout(w, t)
               /\ pc'[w] = "pay" /\ todo'[w] = todo[w] /\ enqueued'[w] = enqueued[w]
            \/ /\ ~NeedsManualPayout(w, t) /\ NeedsWalletPayout(w, t)
               /\ pc'[w] = "settle" /\ todo'[w] = todo[w] \ {t} /\ enqueued'[w] = enqueued[w] \union {t}
            \/ /\ ~NeedsManualPayout(w, t) /\ ~NeedsWalletPayout(w, t)
               /\ pc'[w] = "settle" /\ todo'[w] = todo[w] \ {t} /\ enqueued'[w] = enqueued[w]
<1>1. CASE NeedsManualPayout(w, t)
  <2>1. /\ pc[w] = "settle" /\ IsNext(w, t) /\ ItemsFree(w, t)
        /\ touched' = [touched EXCEPT ![w] = @ \union {t}]
        /\ pc' = [pc EXCEPT ![w] = "pay"]
        /\ UNCHANGED <<todo, enqueued>>
        /\ UNCHANGED <<dbVars, byId, jw, accounts, bal, credited, paid, failures, topups>>
    BY <1>1 DEF UpdateItems
  <2>2. QED
    BY <1>1, <2>1 DEF TypeOK, dbVars
<1>2. CASE ~NeedsManualPayout(w, t) /\ NeedsWalletPayout(w, t)
  <2>1. /\ pc[w] = "settle" /\ IsNext(w, t) /\ ItemsFree(w, t)
        /\ touched' = [touched EXCEPT ![w] = @ \union {t}]
        /\ todo' = [todo EXCEPT ![w] = @ \ {t}]
        /\ enqueued' = [enqueued EXCEPT ![w] = @ \union {t}]
        /\ UNCHANGED pc
        /\ UNCHANGED <<dbVars, byId, jw, accounts, bal, credited, paid, failures, topups>>
    BY <1>2 DEF UpdateItems
  <2>2. QED
    BY <1>2, <2>1 DEF TypeOK, dbVars
<1>3. CASE ~NeedsManualPayout(w, t) /\ ~NeedsWalletPayout(w, t)
  <2>1. /\ pc[w] = "settle" /\ IsNext(w, t) /\ ItemsFree(w, t)
        /\ touched' = [touched EXCEPT ![w] = @ \union {t}]
        /\ todo' = [todo EXCEPT ![w] = @ \ {t}]
        /\ UNCHANGED <<pc, enqueued>>
        /\ UNCHANGED <<dbVars, byId, jw, accounts, bal, credited, paid, failures, topups>>
    BY <1>3 DEF UpdateItems
  <2>2. QED
    BY <1>3, <2>1 DEF TypeOK, dbVars
<1>4. QED
  BY <1>1, <1>2, <1>3

(* What paying a ticket does to the transaction that pays it.                 *)
LEMMA PayoutCredited ==
  ASSUME TypeOK, NEW w \in Worker, NEW t \in Ticket, CreditManualPayout(w, t)
  PROVE  /\ pc[w] = "pay" /\ IsNext(w, t) /\ AccountFree(w, Owner[t])
         /\ Owner[t] \in User /\ Payout[t] \in Nat
         /\ UNCHANGED <<job, ticket, balance, ledgerTotal, payouts, creditRows, walletPaid, byId, jw,
                        touched, enqueued, failures, topups>>
         /\ pc' \in [Worker -> {"idle", "lockJob", "load", "settle", "pay", "catch"}]
         /\ todo' \in [Worker -> SUBSET Ticket] /\ paid' \in [Worker -> SUBSET Ticket]
         /\ accounts' \in [Worker -> SUBSET User]
         /\ bal' \in [Worker -> [User -> Nat]] /\ credited' \in [Worker -> [User -> Nat]]
         /\ pc'[w] = "settle" /\ todo'[w] = todo[w] \ {t} /\ paid'[w] = paid[w] \union {t}
         /\ accounts'[w] = accounts[w] \union {Owner[t]}
         /\ bal'[w] = [bal[w] EXCEPT ![Owner[t]] = BalanceSeen(w, Owner[t]) + Payout[t]]
         /\ credited'[w] = [credited[w] EXCEPT ![Owner[t]] = @ + Payout[t]]
         /\ \A v \in Worker \ {w} :
              /\ pc'[v] = pc[v] /\ todo'[v] = todo[v] /\ paid'[v] = paid[v]
              /\ accounts'[v] = accounts[v] /\ bal'[v] = bal[v] /\ credited'[v] = credited[v]
<1>1. Owner[t] \in User /\ Payout[t] \in Nat
  BY SettlementAssumption
<1>2. BalanceSeen(w, Owner[t]) + Payout[t] \in Nat /\ credited[w][Owner[t]] + Payout[t] \in Nat
  BY <1>1 DEF BalanceSeen, TypeOK
<1>3. bal' \in [Worker -> [User -> Nat]] /\ credited' \in [Worker -> [User -> Nat]]
  BY <1>1, <1>2 DEF CreditManualPayout, TypeOK
<1>4. QED
  BY <1>1, <1>3 DEF CreditManualPayout, TypeOK, dbVars

(* What a commit publishes.                                                   *)
LEMMA Committed ==
  ASSUME TypeOK, NEW w \in Worker, Commit(w)
  PROVE  /\ pc[w] = "settle" /\ todo[w] = {}
         /\ EndTransaction(w) /\ GoIdle(w) /\ UNCHANGED <<walletPaid, failures, topups>>
         /\ job' = [job EXCEPT ![jw[w]] = "SUCCEEDED"]
         /\ \A t \in touched[w] : ticket'[t] = SettledTicket(w, t)
         /\ \A t \in Ticket \ touched[w] : ticket'[t] = ticket[t]
         /\ \A u \in accounts[w] : balance'[u] = bal[w][u]
         /\ \A u \in User \ accounts[w] : balance'[u] = balance[u]
         /\ \A u \in User : ledgerTotal'[u] = ledgerTotal[u] + credited[w][u]
         /\ \A t \in paid[w] : payouts'[t] = payouts[t] + 1
         /\ \A t \in Ticket \ paid[w] : payouts'[t] = payouts[t]
         /\ \A t \in enqueued[w] : creditRows'[t] = creditRows[t] + 1
         /\ \A t \in Ticket \ enqueued[w] : creditRows'[t] = creditRows[t]
         /\ ticket' \in [Ticket -> TicketRecord]
         /\ balance' \in [User -> Nat] /\ ledgerTotal' \in [User -> Nat]
         /\ payouts' \in [Ticket -> Nat] /\ creditRows' \in [Ticket -> Nat]
         /\ job' \in [Job -> {"ABSENT", "PENDING", "SUCCEEDED", "FAILED"}]
<1>1. \A t \in Ticket : SettledTicket(w, t) \in TicketRecord
  BY SettledTicketType
<1>2. ticket' \in [Ticket -> TicketRecord]
  BY <1>1 DEF Commit, TypeOK
<1>3. \A t \in touched[w] : ticket'[t] = SettledTicket(w, t)
  BY DEF Commit, TypeOK
<1>4. \A t \in Ticket \ touched[w] : ticket'[t] = ticket[t]
  BY DEF Commit, TypeOK
<1>5. job' \in [Job -> {"ABSENT", "PENDING", "SUCCEEDED", "FAILED"}]
  BY DEF Commit, TypeOK
<1>6. /\ balance' \in [User -> Nat] /\ ledgerTotal' \in [User -> Nat]
      /\ \A u \in accounts[w] : balance'[u] = bal[w][u]
      /\ \A u \in User \ accounts[w] : balance'[u] = balance[u]
      /\ \A u \in User : ledgerTotal'[u] = ledgerTotal[u] + credited[w][u]
  BY DEF Commit, TypeOK
<1>7. /\ payouts' \in [Ticket -> Nat]
      /\ \A t \in paid[w] : payouts'[t] = payouts[t] + 1
      /\ \A t \in Ticket \ paid[w] : payouts'[t] = payouts[t]
  BY DEF Commit, TypeOK
<1>8. /\ creditRows' \in [Ticket -> Nat]
      /\ \A t \in enqueued[w] : creditRows'[t] = creditRows[t] + 1
      /\ \A t \in Ticket \ enqueued[w] : creditRows'[t] = creditRows[t]
  BY DEF Commit, TypeOK
<1>9. QED
  BY <1>2, <1>3, <1>4, <1>5, <1>6, <1>7, <1>8 DEF Commit
-----------------------------------------------------------------------------
LEMMA TypeInit == Init => TypeOK
BY SettlementAssumption DEF Init, TypeOK, TicketRecord, Zero, NoJob

LEMMA TypeStep == TypeOK /\ [Next]_vars => TypeOK'
<1> SUFFICES ASSUME TypeOK, [Next]_vars PROVE TypeOK'
  OBVIOUS
<1> USE SettlementAssumption
<1>1. ASSUME NEW j \in Job, PostResult(j) PROVE TypeOK'
  BY <1>1 DEF PostResult, TypeOK, txVars
<1>2. ASSUME NEW t \in Ticket, DebitSucceeds(t) PROVE TypeOK'
  <2> ticket[t] \in TicketRecord
    BY DEF TypeOK
  <2>1. [ticket[t] EXCEPT !.status = "CONFIRMED"] \in TicketRecord
    BY DEF TicketRecord
  <2>2. QED
    BY <1>2, <2>1 DEF DebitSucceeds, TypeOK, txVars
<1>2a. ASSUME NEW t \in Ticket, CreditSucceeds(t) PROVE TypeOK'
  <2> ticket[t] \in TicketRecord
    BY DEF TypeOK
  <2>1. [ticket[t] EXCEPT !.payout = "SUCCEEDED"] \in TicketRecord
    BY DEF TicketRecord
  <2>2. QED
    BY <1>2a, <2>1 DEF CreditSucceeds, TypeOK, txVars
<1>3. ASSUME NEW u \in User, Topup(u) PROVE TypeOK'
  BY <1>3 DEF Topup, TypeOK, txVars
<1>4. ASSUME NEW w \in Worker, NEW j \in Job, CallById(w, j) PROVE TypeOK'
  BY <1>4 DEF CallById, TypeOK, dbVars, txVars
<1>5. ASSUME NEW w \in Worker, NEW j \in Job, ClaimQueued(w, j) PROVE TypeOK'
  BY <1>5 DEF ClaimQueued, TypeOK, dbVars, txVars
<1>6. ASSUME NEW w \in Worker, ClaimById(w) PROVE TypeOK'
  <2>1. CASE job[jw[w]] = "PENDING" /\ pc' = [pc EXCEPT ![w] = "load"] /\ UNCHANGED <<byId, jw>>
    BY <1>6, <2>1 DEF ClaimById, TypeOK, dbVars, txVars
  <2>2. CASE GoIdle(w)
    BY <1>6, <2>2, IdleType DEF ClaimById, TypeOK, dbVars, txVars
  <2>3. QED
    BY <1>6, <2>1, <2>2 DEF ClaimById
<1>7. ASSUME NEW w \in Worker, LoadEligibleTickets(w) PROVE TypeOK'
  BY <1>7 DEF LoadEligibleTickets, TypeOK, dbVars
<1>8. ASSUME NEW w \in Worker, NEW t \in Ticket, UpdateItems(w, t) PROVE TypeOK'
  BY <1>8, ItemsUpdated DEF TypeOK
<1>9. ASSUME NEW w \in Worker, NEW t \in Ticket, CreditManualPayout(w, t) PROVE TypeOK'
  BY <1>9, PayoutCredited DEF TypeOK
<1>10. ASSUME NEW w \in Worker, Commit(w) PROVE TypeOK'
  BY <1>10, Committed, EndedTransaction, IdleType DEF TypeOK
<1>11. ASSUME NEW w \in Worker, DeadlockVictim(w) PROVE TypeOK'
  BY <1>11, RolledBack, EndedTransaction DEF DeadlockVictim, TypeOK, dbVars
<1>12. ASSUME NEW w \in Worker, TransactionFails(w) PROVE TypeOK'
  <2>1. RollBack(w) /\ failures' = failures + 1 /\ UNCHANGED topups
    BY <1>12 DEF TransactionFails
  <2>2. failures' \in Nat /\ topups' \in Nat
    BY <2>1 DEF TypeOK
  <2>3. EndTransaction(w) /\ UNCHANGED dbVars
    BY <2>1 DEF RollBack
  <2>4. QED
    BY <2>1, <2>2, <2>3, RolledBack, EndedTransaction DEF TypeOK, dbVars
<1>13. ASSUME NEW w \in Worker, MarkFailed(w) PROVE TypeOK'
  BY <1>13, IdleType DEF MarkFailed, TypeOK, txVars
<1>14. ASSUME NEW w \in Worker, Crash(w) PROVE TypeOK'
  BY <1>14, EndedTransaction, IdleType DEF Crash, TypeOK, dbVars
<1>15. CASE UNCHANGED vars
  BY <1>15 DEF vars, dbVars, txVars, TypeOK
<1>16. QED
  BY <1>1, <1>2, <1>2a, <1>3, <1>4, <1>5, <1>6, <1>7, <1>8, <1>9, <1>10, <1>11, <1>12, <1>13, <1>14, <1>15
  DEF Next, JobRuns

(* Every variable keeps its type: what a transaction of the settlement worker *)
(* commits are values of the enums it writes them to.                         *)
THEOREM SettlementTypeCorrect == Spec => []TypeOK
BY TypeInit, TypeStep, PTL DEF Spec
-----------------------------------------------------------------------------
(* What the invariants below care about in a step: it ends a transaction      *)
(* without a commit, it reads, updates, pays or commits, or it is another     *)
(* step, which writes nothing a transaction has in hand.                      *)

EndedStep(w) ==
  /\ EndTransaction(w)
  /\ UNCHANGED dbVars
  /\ pc'[w] \in {"idle", "catch"}
  /\ \A v \in Worker \ {w} : pc'[v] = pc[v] /\ jw'[v] = jw[v]

OtherStep ==
  /\ UNCHANGED <<txVars, payouts, creditRows>>
  /\ \A w \in Worker :
       pc[w] \in {"settle", "pay"} \/ pc'[w] \in {"settle", "pay"} => pc'[w] = pc[w] /\ jw'[w] = jw[w]
  /\ \A w \in Worker : pc'[w] = "load" => jw'[w] \in Job
  /\ \A j \in Job : (job'[j] = "SUCCEEDED" => job[j] = "SUCCEEDED") /\ (Posted(j) => Posted(j)')
  /\ \A t \in Ticket :
       /\ ticket'[t].settlement = ticket[t].settlement
       /\ \/ ticket'[t].status = ticket[t].status
          \/ ticket[t].status = "PENDING_FUNDING" /\ ticket'[t].status = "CONFIRMED"
       /\ \/ ticket'[t].payout = ticket[t].payout
          \/ creditRows[t] > 0 /\ ticket'[t].payout = "SUCCEEDED"
  /\ \A t \in walletPaid' :
       \/ t \in walletPaid /\ ticket'[t].payout = ticket[t].payout
       \/ creditRows[t] > 0 /\ ticket'[t].payout = "SUCCEEDED"
  /\ \A u \in User :
       \/ balance'[u] = balance[u] /\ ledgerTotal'[u] = ledgerTotal[u]
       \/ /\ \A w \in Worker : u \notin accounts[w]
          /\ balance'[u] = balance[u] + 1 /\ ledgerTotal'[u] = ledgerTotal[u] + 1

SettlementStep ==
  \/ OtherStep
  \/ \E w \in Worker : EndedStep(w) \/ LoadEligibleTickets(w) \/ Commit(w)
  \/ \E w \in Worker, t \in Ticket : UpdateItems(w, t) \/ CreditManualPayout(w, t)

(* A worker that settles has a job.                                           *)
HasJob == \A w \in Worker : pc[w] \in {"lockJob", "load", "settle", "pay", "catch"} => jw[w] \in Job

(* Every step is one of these.                                                *)
LEMMA StepsAreSettlementSteps == TypeOK /\ HasJob /\ [Next]_vars => SettlementStep
<1> SUFFICES ASSUME TypeOK, HasJob, [Next]_vars PROVE SettlementStep
  OBVIOUS
<1> ticket \in [Ticket -> TicketRecord] /\ walletPaid \subseteq Ticket
  BY DEF TypeOK
<1>1. ASSUME NEW j \in Job, PostResult(j) PROVE OtherStep
  BY <1>1 DEF PostResult, OtherStep, Posted, TypeOK, HasJob
<1>2. ASSUME NEW t \in Ticket, DebitSucceeds(t) PROVE OtherStep
  <2>1. \A s \in Ticket : ticket'[s] = IF s = t THEN [ticket[t] EXCEPT !.status = "CONFIRMED"] ELSE ticket[s]
    BY <1>2 DEF DebitSucceeds
  <2>2. ticket[t].status = "PENDING_FUNDING"
    BY <1>2 DEF DebitSucceeds
  <2>3. UNCHANGED <<job, balance, ledgerTotal, payouts, creditRows, walletPaid, pc, jw, txVars>>
    BY <1>2 DEF DebitSucceeds
  <2>4. /\ ticket'[t].settlement = ticket[t].settlement /\ ticket'[t].status = "CONFIRMED"
        /\ ticket'[t].payout = ticket[t].payout
    BY <2>1 DEF TicketRecord
  <2>5. \A s \in Ticket \ {t} : ticket'[s] = ticket[s]
    BY <2>1
  <2>6. QED
    BY <2>2, <2>3, <2>4, <2>5 DEF OtherStep, Posted, HasJob
<1>2a. ASSUME NEW t \in Ticket, CreditSucceeds(t) PROVE OtherStep
  <2>1. \A s \in Ticket : ticket'[s] = IF s = t THEN [ticket[t] EXCEPT !.payout = "SUCCEEDED"] ELSE ticket[s]
    BY <1>2a DEF CreditSucceeds
  <2>2. creditRows[t] > 0 /\ walletPaid' = walletPaid \union {t}
    BY <1>2a DEF CreditSucceeds
  <2>3. UNCHANGED <<job, balance, ledgerTotal, payouts, creditRows, pc, jw, txVars>>
    BY <1>2a DEF CreditSucceeds
  <2>4. /\ ticket'[t].settlement = ticket[t].settlement /\ ticket'[t].status = ticket[t].status
        /\ ticket'[t].payout = "SUCCEEDED"
    BY <2>1 DEF TicketRecord
  <2>5. \A s \in Ticket \ {t} : ticket'[s] = ticket[s]
    BY <2>1
  <2>6. QED
    BY <2>2, <2>3, <2>4, <2>5 DEF OtherStep, Posted, HasJob
<1>3. ASSUME NEW u \in User, Topup(u) PROVE OtherStep
  BY <1>3 DEF Topup, OtherStep, Posted, TypeOK, HasJob
<1>4. ASSUME NEW w \in Worker, NEW j \in Job, CallById(w, j) PROVE OtherStep
  BY <1>4 DEF CallById, OtherStep, Posted, TypeOK, HasJob, dbVars
<1>5. ASSUME NEW w \in Worker, NEW j \in Job, ClaimQueued(w, j) PROVE OtherStep
  BY <1>5 DEF ClaimQueued, OtherStep, Posted, TypeOK, HasJob, dbVars
<1>6. ASSUME NEW w \in Worker, ClaimById(w) PROVE OtherStep
  <2>1. CASE job[jw[w]] = "PENDING" /\ pc' = [pc EXCEPT ![w] = "load"] /\ UNCHANGED <<byId, jw>>
    BY <1>6, <2>1 DEF ClaimById, OtherStep, Posted, TypeOK, HasJob, dbVars
  <2>2. CASE GoIdle(w)
    BY <1>6, <2>2, IdleType DEF ClaimById, OtherStep, Posted, HasJob, dbVars
  <2>3. QED
    BY <1>6, <2>1, <2>2 DEF ClaimById
<1>7. ASSUME NEW w \in Worker, MarkFailed(w) PROVE OtherStep
  BY <1>7, IdleType DEF MarkFailed, OtherStep, Posted, TypeOK, HasJob
<1>8. ASSUME NEW w \in Worker, DeadlockVictim(w) PROVE EndedStep(w)
  BY <1>8, RolledBack DEF DeadlockVictim, EndedStep
<1>9. ASSUME NEW w \in Worker, TransactionFails(w) PROVE EndedStep(w)
  BY <1>9, RolledBack DEF TransactionFails, EndedStep
<1>10. ASSUME NEW w \in Worker, Crash(w) PROVE EndedStep(w)
  BY <1>10, IdleType DEF Crash, EndedStep
<1>11. CASE UNCHANGED vars
  BY <1>11 DEF vars, dbVars, OtherStep, Posted, HasJob, SettlementStep
<1>12. QED
  BY <1>1, <1>2, <1>2a, <1>3, <1>4, <1>5, <1>6, <1>7, <1>8, <1>9, <1>10, <1>11
  DEF Next, JobRuns, SettlementStep

(* A worker takes its job with it until it is idle again.                     *)
LEMMA HasJobStep == TypeOK /\ HasJob /\ [Next]_vars => HasJob'
<1> SUFFICES ASSUME TypeOK, HasJob, [Next]_vars PROVE HasJob'
  OBVIOUS
<1>1. ASSUME NEW w \in Worker, NEW j \in Job, CallById(w, j) \/ ClaimQueued(w, j) PROVE HasJob'
  BY <1>1 DEF CallById, ClaimQueued, TypeOK, HasJob
<1>2. ASSUME NEW w \in Worker, ClaimById(w) PROVE HasJob'
  <2>1. CASE pc' = [pc EXCEPT ![w] = "load"] /\ UNCHANGED <<byId, jw>>
    BY <1>2, <2>1 DEF ClaimById, TypeOK, HasJob
  <2>2. CASE GoIdle(w)
    BY <2>2, IdleType DEF HasJob
  <2>3. QED
    BY <1>2, <2>1, <2>2 DEF ClaimById
<1>3. ASSUME NEW w \in Worker, LoadEligibleTickets(w) PROVE HasJob'
  BY <1>3 DEF LoadEligibleTickets, TypeOK, HasJob
<1>4. ASSUME NEW w \in Worker, NEW t \in Ticket, UpdateItems(w, t) PROVE HasJob'
  BY <1>4, ItemsUpdated DEF HasJob
<1>5. ASSUME NEW w \in Worker, NEW t \in Ticket, CreditManualPayout(w, t) PROVE HasJob'
  BY <1>5, PayoutCredited DEF HasJob
<1>6. ASSUME NEW w \in Worker, GoIdle(w) PROVE HasJob'
  BY <1>6, IdleType DEF HasJob
<1>7. ASSUME NEW w \in Worker, pc[w] \in {"lockJob", "load", "settle", "pay"}, RollBack(w) PROVE HasJob'
  <2>1. CASE pc' = [pc EXCEPT ![w] = "catch"] /\ UNCHANGED <<byId, jw>>
    BY <1>7, <2>1 DEF TypeOK, HasJob
  <2>2. CASE GoIdle(w)
    BY <2>2, <1>6
  <2>3. QED
    BY <1>7, <2>1, <2>2 DEF RollBack
<1>8. ASSUME NEW w \in Worker, DeadlockVictim(w) PROVE pc[w] \in {"settle", "pay"}
  BY <1>8 DEF DeadlockVictim, Deadlocked, WaitsFor
<1>9. ASSUME UNCHANGED <<pc, jw>> PROVE HasJob'
  BY <1>9 DEF HasJob
<1>10. QED
  BY <1>1, <1>2, <1>3, <1>4, <1>5, <1>6, <1>7, <1>8, <1>9
  DEF Next, JobRuns, Commit, DeadlockVictim, TransactionFails, MarkFailed, Crash,
      PostResult, DebitSucceeds, CreditSucceeds, Topup, vars
TypeInv == TypeOK /\ HasJob

LEMMA TypeInvInit == Init => TypeInv
BY TypeInit DEF Init, TypeInv, HasJob

LEMMA TypeInvStep == TypeInv /\ [Next]_vars => TypeInv' /\ SettlementStep
BY TypeStep, HasJobStep, StepsAreSettlementSteps DEF TypeInv
-----------------------------------------------------------------------------
(* Payouts.  What a worker pays or enqueues it has locked by updating the     *)
(* items, and when it looked the ticket had not been paid: nobody else can    *)
(* have paid it since.                                                        *)

TouchedApart ==
  \A v, w \in Worker, t \in Ticket : t \in touched[v] /\ t \in touched[w] => v = w

PaymentsPending ==
  \A w \in Worker, t \in Ticket :
    /\ t \in paid[w] => t \in touched[w] /\ payouts[t] = 0
    /\ t \in enqueued[w] => t \in touched[w] /\ creditRows[t] = 0
    /\ pc[w] = "pay" /\ IsNext(w, t) => t \in touched[w] /\ payouts[t] = 0

PayoutInv == TouchedApart /\ PaymentsPending /\ PayoutOnce

LEMMA PayoutInvInit == Init => PayoutInv
BY DEF Init, PayoutInv, TouchedApart, PaymentsPending, PayoutOnce

LEMMA PayoutInvStep == TypeOK /\ TypeOK' /\ PayoutInv /\ SettlementStep => PayoutInv'
<1> SUFFICES ASSUME TypeOK, TypeOK', PayoutInv, SettlementStep PROVE PayoutInv'
  OBVIOUS
<1>1. CASE OtherStep
  BY <1>1 DEF OtherStep, txVars, PayoutInv, TouchedApart, PaymentsPending, PayoutOnce, IsNext
<1>2. ASSUME NEW w \in Worker, EndedStep(w) PROVE PayoutInv'
  <2>1. /\ UNCHANGED <<payouts, creditRows>>
        /\ touched'[w] = {} /\ paid'[w] = {} /\ enqueued'[w] = {} /\ pc'[w] # "pay"
        /\ \A v \in Worker \ {w} :
             /\ pc'[v] = pc[v] /\ todo'[v] = todo[v] /\ touched'[v] = touched[v]
             /\ paid'[v] = paid[v] /\ enqueued'[v] = enqueued[v]
    BY <1>2, EndedTransaction DEF EndedStep, dbVars
  <2>2. QED
    BY <2>1 DEF PayoutInv, TouchedApart, PaymentsPending, PayoutOnce, IsNext
<1>3. ASSUME NEW w \in Worker, LoadEligibleTickets(w) PROVE PayoutInv'
  <2>1. /\ UNCHANGED <<touched, paid, enqueued, payouts, creditRows>>
        /\ pc'[w] = "settle"
        /\ \A v \in Worker \ {w} : pc'[v] = pc[v] /\ todo'[v] = todo[v]
    BY <1>3 DEF LoadEligibleTickets, dbVars, TypeOK
  <2>2. QED
    BY <2>1 DEF PayoutInv, TouchedApart, PaymentsPending, PayoutOnce, IsNext
<1>4. ASSUME NEW w \in Worker, NEW t \in Ticket, UpdateItems(w, t) PROVE PayoutInv'
  <2>1. TouchedApart'
    BY <1>4, ItemsUpdated DEF ItemsFree, PayoutInv, TouchedApart
  <2>2. PayoutOnce'
    BY <1>4, ItemsUpdated DEF PayoutInv, PayoutOnce
  <2>3. /\ NeedsManualPayout(w, t) => payouts[t] = 0
        /\ NeedsWalletPayout(w, t) => creditRows[t] = 0
    BY DEF NeedsManualPayout, NeedsWalletPayout, payoutLedgerExists, existingOutbox, TypeOK
  <2>4. ASSUME NEW s \in Ticket, pc'[w] = "pay", IsNext(w, s)' PROVE s = t /\ payouts[t] = 0
    <3>1. pc[w] = "settle" /\ IsNext(w, t)
      BY <1>4, ItemsUpdated
    <3>2. todo'[w] = todo[w] /\ NeedsManualPayout(w, t)
      BY <1>4, <2>4, <3>1, ItemsUpdated
    <3>3. IsNext(w, s)
      BY <2>4, <3>2 DEF IsNext
    <3>4. QED
      BY <2>3, <3>1, <3>2, <3>3, NextIsUnique
  <2>5. PaymentsPending'
    <3> SUFFICES ASSUME NEW v \in Worker, NEW s \in Ticket
        PROVE  /\ s \in paid'[v] => s \in touched'[v] /\ payouts'[s] = 0
               /\ s \in enqueued'[v] => s \in touched'[v] /\ creditRows'[s] = 0
               /\ pc'[v] = "pay" /\ IsNext(v, s)' => s \in touched'[v] /\ payouts'[s] = 0
      BY DEF PaymentsPending
    <3>1. UNCHANGED <<paid, payouts, creditRows>>
      BY <1>4, ItemsUpdated
    <3>2. CASE v = w
      <4>1. touched'[w] = touched[w] \union {t}
        BY <1>4, ItemsUpdated
      <4>2. s \in enqueued'[w] => s \in enqueued[w] \/ (s = t /\ NeedsWalletPayout(w, t))
        BY <1>4, ItemsUpdated
      <4>3. QED
        BY <2>3, <2>4, <3>1, <3>2, <4>1, <4>2 DEF PayoutInv, PaymentsPending
    <3>3. CASE v # w
      <4>1. pc'[v] = pc[v] /\ todo'[v] = todo[v] /\ touched'[v] = touched[v] /\ enqueued'[v] = enqueued[v]
        BY <1>4, <3>3, ItemsUpdated
      <4>2. QED
        BY <3>1, <4>1 DEF PayoutInv, PaymentsPending, IsNext
    <3>4. QED
      BY <3>2, <3>3
  <2>6. QED
    BY <2>1, <2>2, <2>5 DEF PayoutInv
<1>5. ASSUME NEW w \in Worker, NEW t \in Ticket, CreditManualPayout(w, t) PROVE PayoutInv'
  <2>1. /\ UNCHANGED <<touched, enqueued, payouts, creditRows>>
        /\ pc[w] = "pay" /\ IsNext(w, t) /\ pc'[w] = "settle" /\ paid'[w] = paid[w] \union {t}
        /\ \A v \in Worker \ {w} : pc'[v] = pc[v] /\ todo'[v] = todo[v] /\ paid'[v] = paid[v]
    BY <1>5, PayoutCredited
  <2>2. t \in touched[w] /\ payouts[t] = 0
    BY <2>1 DEF PayoutInv, PaymentsPending
  <2>3. QED
    BY <2>1, <2>2 DEF PayoutInv, TouchedApart, PaymentsPending, PayoutOnce, IsNext
<1>6. ASSUME NEW w \in Worker, Commit(w) PROVE PayoutInv'
  <2>1. /\ \A t \in paid[w] : payouts'[t] = payouts[t] + 1
        /\ \A t \in Ticket \ paid[w] : payouts'[t] = payouts[t]
        /\ \A t \in enqueued[w] : creditRows'[t] = creditRows[t] + 1
        /\ \A t \in Ticket \ enqueued[w] : creditRows'[t] = creditRows[t]
    BY <1>6, Committed
  <2>2. EndTransaction(w) /\ GoIdle(w)
    BY <1>6, Committed
  <2>3. PayoutOnce'
    <3> SUFFICES ASSUME NEW t \in Ticket PROVE payouts'[t] <= 1 /\ creditRows'[t] <= 1
      BY DEF PayoutOnce
    <3> payouts[t] \in Nat /\ creditRows[t] \in Nat /\ payouts[t] <= 1 /\ creditRows[t] <= 1
      BY DEF TypeOK, PayoutInv, PayoutOnce
    <3>1. payouts'[t] <= 1
      BY <2>1 DEF PayoutInv, PaymentsPending
    <3>2. creditRows'[t] <= 1
      BY <2>1 DEF PayoutInv, PaymentsPending
    <3>3. QED
      BY <3>1, <3>2
  <2>4. TouchedApart'
    BY <2>2, EndedTransaction DEF PayoutInv, TouchedApart
  <2>5. PaymentsPending'
    <3> SUFFICES ASSUME NEW v \in Worker, NEW s \in Ticket
        PROVE  /\ s \in paid'[v] => s \in touched'[v] /\ payouts'[s] = 0
               /\ s \in enqueued'[v] => s \in touched'[v] /\ creditRows'[s] = 0
               /\ pc'[v] = "pay" /\ IsNext(v, s)' => s \in touched'[v] /\ payouts'[s] = 0
      BY DEF PaymentsPending
    <3>1. CASE v = w
      BY <2>2, <3>1, EndedTransaction, IdleType
    <3>2. CASE v # w
      <4>1. /\ pc'[v] = pc[v] /\ todo'[v] = todo[v] /\ touched'[v] = touched[v]
            /\ paid'[v] = paid[v] /\ enqueued'[v] = enqueued[v]
        BY <2>2, <3>2, EndedTransaction, IdleType
      <4>2. ASSUME s \in touched[v] PROVE payouts'[s] = payouts[s] /\ creditRows'[s] = creditRows[s]
        <5>1. s \notin touched[w]
          BY <3>2, <4>2 DEF PayoutInv, TouchedApart
        <5>2. s \notin paid[w] /\ s \notin enqueued[w]
          BY <5>1 DEF PayoutInv, PaymentsPending
        <5>3. QED
          BY <2>1, <5>2
      <4>3. QED
        BY <4>1, <4>2 DEF PayoutInv, PaymentsPending, IsNext
    <3>3. QED
      BY <3>1, <3>2
  <2>6. QED
    BY <2>3, <2>4, <2>5 DEF PayoutInv
<1>7. QED
  BY <1>1, <1>2, <1>3, <1>4, <1>5, <1>6 DEF SettlementStep

(* A ticket is paid at most once, and gets at most one credit row, by however *)
(* many workers and jobs: the second look for a payout happens under the lock *)
(* of its items (settleTicket).                                               *)
THEOREM PayoutsHappenOnce == Spec => []PayoutOnce
<1>1. Init => TypeInv /\ PayoutInv
  BY TypeInvInit, PayoutInvInit
<1>2. TypeInv /\ PayoutInv /\ [Next]_vars => (TypeInv /\ PayoutInv)'
  BY TypeInvStep, PayoutInvStep DEF TypeInv
<1>3. TypeInv /\ PayoutInv => PayoutOnce
  BY DEF PayoutInv
<1>4. QED
  BY <1>1, <1>2, <1>3, PTL DEF Spec
-----------------------------------------------------------------------------
(* Balances.  While a worker holds an account, the balance it has computed is *)
(* the committed one and the ledger rows it has inserted.                     *)

AccountsApart ==
  \A v, w \in Worker, u \in User : u \in accounts[v] /\ u \in accounts[w] => v = w

BalanceInHand ==
  \A w \in Worker, u \in User :
    /\ u \in accounts[w] => bal[w][u] = balance[u] + credited[w][u]
    /\ u \notin accounts[w] => credited[w][u] = 0

BalanceInv == AccountsApart /\ BalanceInHand /\ BalanceMatchesLedger

LEMMA BalanceInvInit == Init => BalanceInv
BY DEF Init, Zero, BalanceInv, AccountsApart, BalanceInHand, BalanceMatchesLedger

LEMMA BalanceInvStep == TypeOK /\ TypeOK' /\ BalanceInv /\ SettlementStep => BalanceInv'
<1> SUFFICES ASSUME TypeOK, TypeOK', BalanceInv, SettlementStep PROVE BalanceInv'
  OBVIOUS
<1>1. CASE OtherStep
  <2>1. UNCHANGED <<accounts, bal, credited>>
    BY <1>1 DEF OtherStep, txVars
  <2>2. \A u \in User :
          \/ balance'[u] = balance[u] /\ ledgerTotal'[u] = ledgerTotal[u]
          \/ /\ \A w \in Worker : u \notin accounts[w]
             /\ balance'[u] = balance[u] + 1 /\ ledgerTotal'[u] = ledgerTotal[u] + 1
    BY <1>1 DEF OtherStep
  <2>3. BalanceMatchesLedger'
    <3>1. \A u \in User : balance'[u] = ledgerTotal'[u]
      BY <2>2 DEF BalanceInv, BalanceMatchesLedger
    <3>2. balance' \in [User -> Nat] /\ ledgerTotal' \in [User -> Nat]
      BY DEF TypeOK
    <3>3. QED
      BY <3>1, <3>2 DEF BalanceMatchesLedger
  <2>4. BalanceInHand'
    BY <2>1, <2>2 DEF BalanceInv, BalanceInHand
  <2>5. QED
    BY <2>1, <2>3, <2>4 DEF BalanceInv, AccountsApart
<1>2. ASSUME NEW w \in Worker, EndedStep(w) PROVE BalanceInv'
  <2>1. /\ UNCHANGED <<balance, ledgerTotal>>
        /\ accounts'[w] = {} /\ credited'[w] = Zero
        /\ \A v \in Worker \ {w} :
             accounts'[v] = accounts[v] /\ bal'[v] = bal[v] /\ credited'[v] = credited[v]
    BY <1>2, EndedTransaction DEF EndedStep, dbVars
  <2>2. QED
    BY <2>1 DEF Zero, BalanceInv, AccountsApart, BalanceInHand, BalanceMatchesLedger
<1>3. ASSUME NEW w \in Worker, LoadEligibleTickets(w) PROVE BalanceInv'
  BY <1>3 DEF LoadEligibleTickets, dbVars, BalanceInv, AccountsApart, BalanceInHand, BalanceMatchesLedger
<1>4. ASSUME NEW w \in Worker, NEW t \in Ticket, UpdateItems(w, t) PROVE BalanceInv'
  BY <1>4, ItemsUpdated DEF BalanceInv, AccountsApart, BalanceInHand, BalanceMatchesLedger
<1>5. ASSUME NEW w \in Worker, NEW t \in Ticket, CreditManualPayout(w, t) PROVE BalanceInv'
  <2> DEFINE u == Owner[t]
  <2>1. /\ u \in User /\ Payout[t] \in Nat /\ AccountFree(w, u)
        /\ UNCHANGED <<balance, ledgerTotal>>
        /\ accounts'[w] = accounts[w] \union {u}
        /\ bal'[w] = [bal[w] EXCEPT ![u] = BalanceSeen(w, u) + Payout[t]]
        /\ credited'[w] = [credited[w] EXCEPT ![u] = @ + Payout[t]]
        /\ \A v \in Worker \ {w} :
             accounts'[v] = accounts[v] /\ bal'[v] = bal[v] /\ credited'[v] = credited[v]
    BY <1>5, PayoutCredited
  <2>2. AccountsApart'
    BY <2>1 DEF AccountFree, BalanceInv, AccountsApart
  <2>3. BalanceMatchesLedger'
    BY <2>1 DEF BalanceInv, BalanceMatchesLedger
  <2>4. BalanceSeen(w, u) = balance[u] + credited[w][u]
    BY <2>1 DEF BalanceSeen, BalanceInv, BalanceInHand, TypeOK
  <2>5. bal'[w][u] = balance'[u] + credited'[w][u]
    <3> balance[u] \in Nat /\ credited[w][u] \in Nat /\ bal[w] \in [User -> Nat] /\ credited[w] \in [User -> Nat]
      BY <2>1 DEF TypeOK
    <3> HIDE DEF u
    <3>1. QED
      BY <2>1, <2>4
  <2>6. \A x \in User \ {u} : bal'[w][x] = bal[w][x] /\ credited'[w][x] = credited[w][x]
    <3> bal[w] \in [User -> Nat] /\ credited[w] \in [User -> Nat]
      BY DEF TypeOK
    <3> HIDE DEF u
    <3>1. QED
      BY <2>1
  <2>7. BalanceInHand'
    <3> HIDE DEF u
    <3> SUFFICES ASSUME NEW v \in Worker, NEW x \in User
        PROVE  /\ x \in accounts'[v] => bal'[v][x] = balance'[x] + credited'[v][x]
               /\ x \notin accounts'[v] => credited'[v][x] = 0
      BY DEF BalanceInHand
    <3>1. CASE v = w /\ x = u
      BY <2>1, <2>5, <3>1
    <3>2. CASE v = w /\ x # u
      <4>1. balance' = balance /\ (x \in accounts'[w] <=> x \in accounts[w])
        BY <2>1, <3>2
      <4>2. bal'[w][x] = bal[w][x] /\ credited'[w][x] = credited[w][x]
        BY <2>6, <3>2
      <4>3. QED
        BY <3>2, <4>1, <4>2 DEF BalanceInv, BalanceInHand
    <3>3. CASE v # w
      BY <2>1, <3>3 DEF BalanceInv, BalanceInHand
    <3>4. QED
      BY <3>1, <3>2, <3>3
  <2>8. QED
    BY <2>2, <2>3, <2>7 DEF BalanceInv
<1>6. ASSUME NEW w \in Worker, Commit(w) PROVE BalanceInv'
  <2>1. /\ \A u \in accounts[w] : balance'[u] = bal[w][u]
        /\ \A u \in User \ accounts[w] : balance'[u] = balance[u]
        /\ \A u \in User : ledgerTotal'[u] = ledgerTotal[u] + credited[w][u]
    BY <1>6, Committed
  <2>2. /\ accounts'[w] = {} /\ credited'[w] = Zero
        /\ \A v \in Worker \ {w} :
             accounts'[v] = accounts[v] /\ bal'[v] = bal[v] /\ credited'[v] = credited[v]
    BY <1>6, Committed, EndedTransaction
  <2>3. BalanceMatchesLedger'
    <3>1. ASSUME NEW u \in User PROVE balance'[u] = ledgerTotal'[u]
      <4>1. balance[u] = ledgerTotal[u] /\ balance[u] \in Nat /\ credited[w][u] \in Nat
        BY DEF TypeOK, BalanceInv, BalanceMatchesLedger
      <4>2. QED
        BY <2>1, <4>1 DEF BalanceInv, BalanceInHand
    <3>2. balance' \in [User -> Nat] /\ ledgerTotal' \in [User -> Nat]
      BY DEF TypeOK
    <3>3. QED
      BY <3>1, <3>2 DEF BalanceMatchesLedger
  <2>4. AccountsApart'
    BY <2>2 DEF BalanceInv, AccountsApart
  <2>5. BalanceInHand'
    <3> SUFFICES ASSUME NEW v \in Worker, NEW x \in User
        PROVE  /\ x \in accounts'[v] => bal'[v][x] = balance'[x] + credited'[v][x]
               /\ x \notin accounts'[v] => credited'[v][x] = 0
      BY DEF BalanceInHand
    <3>1. CASE v = w
      BY <2>2, <3>1 DEF Zero
    <3>2. CASE v # w
      <4>1. x \in accounts[v] => balance'[x] = balance[x]
        BY <2>1, <3>2 DEF BalanceInv, AccountsApart
      <4>2. QED
        BY <2>2, <3>2, <4>1 DEF BalanceInv, BalanceInHand
    <3>3. QED
      BY <3>1, <3>2
  <2>6. QED
    BY <2>3, <2>4, <2>5 DEF BalanceInv
<1>7. QED
  BY <1>1, <1>2, <1>3, <1>4, <1>5, <1>6 DEF SettlementStep

(* No update of a balance is lost: every account holds the sum of its ledger  *)
(* rows, because every writer reads the balance under the lock of the account *)
(* (creditManualPayout, applyLockedLedgerChange).                             *)
THEOREM BalancesMatchLedger == Spec => []BalanceMatchesLedger
<1>1. Init => TypeInv /\ BalanceInv
  BY TypeInvInit, BalanceInvInit
<1>2. TypeInv /\ BalanceInv /\ [Next]_vars => (TypeInv /\ BalanceInv)'
  BY TypeInvStep, BalanceInvStep DEF TypeInv
<1>3. TypeInv /\ BalanceInv => BalanceMatchesLedger
  BY DEF BalanceInv
<1>4. QED
  BY <1>1, <1>2, <1>3, PTL DEF Spec
-----------------------------------------------------------------------------
(* Completeness.  Between reading its tickets and its commit, a worker has    *)
(* every ticket of the round that is not settled on its list or behind it.    *)

FundedInTime ==
  \A t \in Ticket \ LateFunded :
    \/ ticket[t].status = "CONFIRMED" /\ ticket[t].settlement = "PENDING"
    \/ ticket[t].status = "SETTLED"

RoundInHand ==
  \A w \in Worker, t \in Ticket \ LateFunded :
    pc[w] \in {"settle", "pay"} /\ TicketRound[t] = JobRound[jw[w]] =>
      ticket[t].status = "SETTLED" \/ t \in todo[w] \/ t \in touched[w]

PayTouched == \A w \in Worker, t \in Ticket : pc[w] = "pay" /\ IsNext(w, t) => t \in touched[w]

CompleteInv == FundedInTime /\ RoundInHand /\ PayTouched /\ SucceededMeansSettled

LEMMA CompleteInvInit == Init => CompleteInv
BY DEF Init, CompleteInv, FundedInTime, RoundInHand, PayTouched, SucceededMeansSettled

LEMMA CompleteInvStep ==
  TypeInv /\ TypeInv' /\ CompleteInv /\ PayoutInv' /\ SettlementStep => CompleteInv'
<1> SUFFICES ASSUME TypeInv, TypeInv', CompleteInv, PayoutInv', SettlementStep PROVE CompleteInv'
  OBVIOUS
<1> USE DEF TypeInv
<1>a. PayTouched'
  BY DEF PayoutInv, PaymentsPending, PayTouched
<1>1. CASE OtherStep
  <2>1. \A t \in Ticket \ LateFunded :
          ticket'[t].status = ticket[t].status /\ ticket'[t].settlement = ticket[t].settlement
    BY <1>1 DEF OtherStep, CompleteInv, FundedInTime
  <2>2. /\ UNCHANGED <<todo, touched>>
        /\ \A w \in Worker : pc'[w] \in {"settle", "pay"} => pc'[w] = pc[w] /\ jw'[w] = jw[w]
        /\ \A j \in Job : job'[j] = "SUCCEEDED" => job[j] = "SUCCEEDED"
    BY <1>1 DEF OtherStep, txVars
  <2>3. QED
    BY <1>a, <2>1, <2>2 DEF CompleteInv, FundedInTime, RoundInHand, SucceededMeansSettled
<1>2. ASSUME NEW w \in Worker, EndedStep(w) PROVE CompleteInv'
  <2>1. /\ UNCHANGED <<job, ticket>>
        /\ pc'[w] \notin {"settle", "pay"}
        /\ \A v \in Worker \ {w} :
             pc'[v] = pc[v] /\ jw'[v] = jw[v] /\ todo'[v] = todo[v] /\ touched'[v] = touched[v]
    BY <1>2, EndedTransaction DEF EndedStep, dbVars
  <2>2. QED
    BY <1>a, <2>1 DEF CompleteInv, FundedInTime, RoundInHand, SucceededMeansSettled
<1>3. ASSUME NEW w \in Worker, LoadEligibleTickets(w) PROVE CompleteInv'
  <2>1. /\ UNCHANGED <<job, ticket, jw, touched>>
        /\ todo'[w] = {t \in Ticket : TicketRound[t] = JobRound[jw[w]] /\ isEligibleTicket(t)}
        /\ \A v \in Worker \ {w} : pc'[v] = pc[v] /\ todo'[v] = todo[v]
    BY <1>3 DEF LoadEligibleTickets, dbVars, TypeOK
  <2>2. ASSUME NEW t \in Ticket \ LateFunded, TicketRound[t] = JobRound[jw[w]]
        PROVE  ticket[t].status = "SETTLED" \/ t \in todo'[w]
    BY <2>1, <2>2 DEF isEligibleTicket, CompleteInv, FundedInTime
  <2>3. RoundInHand'
    BY <2>1, <2>2 DEF CompleteInv, RoundInHand
  <2>4. QED
    BY <1>a, <2>1, <2>3 DEF CompleteInv, FundedInTime, SucceededMeansSettled
<1>4. ASSUME NEW w \in Worker, NEW t \in Ticket, UpdateItems(w, t) PROVE CompleteInv'
  <2>1. /\ UNCHANGED <<job, ticket, jw>>
        /\ pc[w] = "settle" /\ touched'[w] = touched[w] \union {t}
        /\ todo'[w] = todo[w] \/ todo'[w] = todo[w] \ {t}
        /\ \A v \in Worker \ {w} : pc'[v] = pc[v] /\ todo'[v] = todo[v] /\ touched'[v] = touched[v]
    BY <1>4, ItemsUpdated
  <2>2. RoundInHand'
    BY <2>1 DEF CompleteInv, RoundInHand
  <2>3. QED
    BY <1>a, <2>1, <2>2 DEF CompleteInv, FundedInTime, SucceededMeansSettled
<1>5. ASSUME NEW w \in Worker, NEW t \in Ticket, CreditManualPayout(w, t) PROVE CompleteInv'
  <2>1. /\ UNCHANGED <<job, ticket, jw, touched>>
        /\ pc[w] = "pay" /\ IsNext(w, t) /\ todo'[w] = todo[w] \ {t}
        /\ \A v \in Worker \ {w} : pc'[v] = pc[v] /\ todo'[v] = todo[v]
    BY <1>5, PayoutCredited
  <2>2. t \in touched[w]
    BY <2>1 DEF CompleteInv, PayTouched
  <2>3. RoundInHand'
    BY <2>1, <2>2 DEF CompleteInv, RoundInHand
  <2>4. QED
    BY <1>a, <2>1, <2>3 DEF CompleteInv, FundedInTime, SucceededMeansSettled
<1>6. ASSUME NEW w \in Worker, Commit(w) PROVE CompleteInv'
  <2>1. /\ pc[w] = "settle" /\ todo[w] = {} /\ jw[w] \in Job
        /\ job' = [job EXCEPT ![jw[w]] = "SUCCEEDED"]
    BY <1>6, Committed DEF HasJob
  <2>2. \A t \in Ticket : ticket'[t] = ticket[t] \/ ticket'[t].status = "SETTLED"
    BY <1>6, Committed, SettledTicketType
  <2>3. \A t \in touched[w] : t \in Ticket /\ ticket'[t].status = "SETTLED"
    BY <1>6, Committed, SettledTicketType DEF TypeOK
  <2>4. /\ pc'[w] = "idle"
        /\ \A v \in Worker \ {w} :
             pc'[v] = pc[v] /\ jw'[v] = jw[v] /\ todo'[v] = todo[v] /\ touched'[v] = touched[v]
    BY <1>6, Committed, EndedTransaction, IdleType
  <2>5. FundedInTime'
    BY <2>2 DEF CompleteInv, FundedInTime
  <2>6. RoundInHand'
    BY <2>2, <2>4 DEF CompleteInv, RoundInHand
  <2>7. SucceededMeansSettled'
    <3> SUFFICES ASSUME NEW j \in Job, NEW t \in Ticket \ LateFunded,
                        job'[j] = "SUCCEEDED", TicketRound[t] = JobRound[j]
                 PROVE  ticket'[t].status = "SETTLED"
      BY DEF SucceededMeansSettled
    <3>1. CASE j = jw[w]
      BY <2>1, <2>2, <2>3, <3>1 DEF CompleteInv, RoundInHand
    <3>2. CASE j # jw[w]
      <4>1. job[j] = "SUCCEEDED"
        BY <2>1, <3>2 DEF TypeOK
      <4>2. QED
        BY <2>2, <4>1 DEF CompleteInv, SucceededMeansSettled
    <3>3. QED
      BY <3>1, <3>2
  <2>8. QED
    BY <1>a, <2>5, <2>6, <2>7 DEF CompleteInv
<1>7. QED
  BY <1>1, <1>2, <1>3, <1>4, <1>5, <1>6 DEF SettlementStep

(* A SUCCEEDED job has left no ticket of its round behind that was funded     *)
(* when it could be: not one it failed half-way through, nor one another      *)
(* worker had in hand (settleSettlementJob).                                  *)
THEOREM SucceededJobsSettled == Spec => []SucceededMeansSettled
<1>1. Init => TypeInv /\ PayoutInv /\ CompleteInv
  BY TypeInvInit, PayoutInvInit, CompleteInvInit
<1>2. TypeInv /\ PayoutInv /\ CompleteInv /\ [Next]_vars => (TypeInv /\ PayoutInv /\ CompleteInv)'
  BY TypeInvStep, PayoutInvStep, CompleteInvStep DEF TypeInv
<1>3. TypeInv /\ PayoutInv /\ CompleteInv => SucceededMeansSettled
  BY DEF CompleteInv
<1>4. QED
  BY <1>1, <1>2, <1>3, PTL DEF Spec
-----------------------------------------------------------------------------
(* Jobs.  A worker works on a job that has been posted, and two workers never *)
(* settle one job at a time: the row is locked.                               *)

JobsPosted == \A w \in Worker : pc[w] # "idle" => Posted(jw[w])

JobsApart == \A v, w \in Worker, j \in Job : JobLockedBy(v, j) /\ JobLockedBy(w, j) => v = w

JobInv == JobsPosted /\ JobsApart

LEMMA JobInvInit == Init => JobInv
BY DEF Init, JobInv, JobsPosted, JobsApart, JobLockedBy

(* A result is not taken back.                                                *)
LEMMA PostedStays == TypeInv /\ [Next]_vars => \A j \in Job : Posted(j) => Posted(j)'
<1> SUFFICES ASSUME TypeInv, [Next]_vars, NEW j \in Job, Posted(j) PROVE Posted(j)'
  OBVIOUS
<1>1. SettlementStep
  BY TypeInvStep
<1>2. CASE OtherStep
  BY <1>2 DEF OtherStep
<1>3. ASSUME NEW w \in Worker, EndedStep(w) \/ LoadEligibleTickets(w) PROVE Posted(j)'
  BY <1>3 DEF EndedStep, LoadEligibleTickets, dbVars, Posted
<1>4. ASSUME NEW w \in Worker, NEW t \in Ticket, UpdateItems(w, t) \/ CreditManualPayout(w, t) PROVE Posted(j)'
  BY <1>4 DEF UpdateItems, CreditManualPayout, dbVars, Posted
<1>5. ASSUME NEW w \in Worker, Commit(w) PROVE Posted(j)'
  BY <1>5 DEF Commit, TypeInv, TypeOK, Posted
<1>6. QED
  BY <1>1, <1>2, <1>3, <1>4, <1>5 DEF SettlementStep

LEMMA JobInvStep == TypeInv /\ JobInv /\ [Next]_vars => JobInv'
<1> SUFFICES ASSUME TypeInv, JobInv, [Next]_vars PROVE JobInv'
  OBVIOUS
<1> USE DEF TypeInv
<1>p. \A j \in Job : Posted(j) => Posted(j)'
  BY PostedStays
<1>j. \A w \in Worker : pc[w] # "idle" => jw[w] \in Job
  BY DEF TypeOK, HasJob
(* It is enough that a worker keeps its job, or takes a free one, or is idle. *)
<1>k. ASSUME NEW w \in Worker,
             \A v \in Worker \ {w} : pc'[v] = pc[v] /\ jw'[v] = jw[v],
             pc'[w] # "idle" => jw'[w] \in Job /\ Posted(jw'[w]),
             \/ pc'[w] \notin {"load", "settle", "pay"}
             \/ jw'[w] = jw[w] /\ pc[w] \in {"load", "settle", "pay"}
             \/ JobFree(jw'[w])
      PROVE  JobInv'
  <2>1. JobsPosted'
    <3> SUFFICES ASSUME NEW v \in Worker, pc'[v] # "idle" PROVE Posted(jw[v])'
      BY DEF JobsPosted
    <3>1. CASE v = w
      BY <1>k, <1>p, <3>1 DEF Posted
    <3>2. CASE v # w
      BY <1>k, <1>p, <1>j, <3>2 DEF JobInv, JobsPosted, Posted
    <3>3. QED
      BY <3>1, <3>2
  <2>2. JobsApart'
    BY <1>k DEF JobInv, JobsApart, JobLockedBy, JobFree
  <2>3. QED
    BY <2>1, <2>2 DEF JobInv
<1>1. ASSUME UNCHANGED <<pc, jw>> PROVE JobInv'
  BY <1>1, <1>p, <1>j DEF JobInv, JobsPosted, JobsApart, JobLockedBy, Posted
<1>2. ASSUME NEW w \in Worker, NEW j \in Job, CallById(w, j) PROVE JobInv'
  <2>1. pc'[w] = "lockJob" /\ jw'[w] = j /\ Posted(j)
    BY <1>2 DEF CallById, TypeOK, Posted
  <2>2. \A v \in Worker \ {w} : pc'[v] = pc[v] /\ jw'[v] = jw[v]
    BY <1>2 DEF CallById, TypeOK
  <2>3. QED
    BY <1>k, <2>1, <2>2
<1>3. ASSUME NEW w \in Worker, NEW j \in Job, ClaimQueued(w, j) PROVE JobInv'
  <2>1. pc'[w] = "load" /\ jw'[w] = j /\ Posted(j) /\ JobFree(j)
    BY <1>3 DEF ClaimQueued, IsOldestQueued, TypeOK, Posted
  <2>2. \A v \in Worker \ {w} : pc'[v] = pc[v] /\ jw'[v] = jw[v]
    BY <1>3 DEF ClaimQueued, TypeOK
  <2>3. QED
    BY <1>k, <2>1, <2>2
<1>4. ASSUME NEW w \in Worker, GoIdle(w) PROVE JobInv'
  BY <1>4, <1>k, IdleType
<1>5. ASSUME NEW w \in Worker, ClaimById(w) PROVE JobInv'
  <2>1. CASE pc' = [pc EXCEPT ![w] = "load"] /\ UNCHANGED <<byId, jw>>
    <3>1. jw'[w] = jw[w] /\ JobFree(jw[w]) /\ pc[w] = "lockJob"
      BY <1>5, <2>1 DEF ClaimById
    <3>2. \A v \in Worker \ {w} : pc'[v] = pc[v] /\ jw'[v] = jw[v]
      BY <2>1 DEF TypeOK
    <3>3. QED
      BY <1>k, <1>j, <3>1, <3>2 DEF JobInv, JobsPosted
  <2>2. QED
    BY <1>4, <1>5, <2>1 DEF ClaimById
(* A worker that works keeps its job.                                         *)
<1>6. ASSUME NEW w \in Worker, pc[w] \in {"load", "settle", "pay"}, UNCHANGED jw,
             \A v \in Worker \ {w} : pc'[v] = pc[v]
      PROVE  JobInv'
  BY <1>6, <1>k, <1>j DEF JobInv, JobsPosted
<1>7. ASSUME NEW w \in Worker, LoadEligibleTickets(w) PROVE JobInv'
  BY <1>6, <1>7 DEF LoadEligibleTickets, TypeOK
<1>8. ASSUME NEW w \in Worker, NEW t \in Ticket, UpdateItems(w, t) PROVE JobInv'
  BY <1>6, <1>8, ItemsUpdated
<1>9. ASSUME NEW w \in Worker, NEW t \in Ticket, CreditManualPayout(w, t) PROVE JobInv'
  BY <1>6, <1>9, PayoutCredited
<1>10. ASSUME NEW w \in Worker, pc[w] # "idle", RollBack(w) PROVE JobInv'
  <2>1. CASE pc' = [pc EXCEPT ![w] = "catch"] /\ UNCHANGED <<byId, jw>>
    <3>1. pc'[w] = "catch" /\ jw'[w] = jw[w] /\ \A v \in Worker \ {w} : pc'[v] = pc[v] /\ jw'[v] = jw[v]
      BY <2>1 DEF TypeOK
    <3>2. QED
      BY <1>10, <1>k, <1>j, <3>1 DEF JobInv, JobsPosted
  <2>2. QED
    BY <1>4, <1>10, <2>1 DEF RollBack
<1>11. ASSUME NEW w \in Worker, DeadlockVictim(w) PROVE pc[w] # "idle"
  BY <1>11 DEF DeadlockVictim, Deadlocked, WaitsFor
<1>12. QED
  BY <1>1, <1>2, <1>3, <1>4, <1>5, <1>7, <1>8, <1>9, <1>10, <1>11
  DEF Next, JobRuns, Commit, DeadlockVictim, TransactionFails, MarkFailed, Crash,
      PostResult, DebitSucceeds, CreditSucceeds, Topup, vars
-----------------------------------------------------------------------------
(* Winners.  What a ticket says and what rows it has is due to results that   *)
(* have been posted; and a worker that is through with a ticket its result    *)
(* makes win has the payout row in hand, or saw it.                           *)

InRound ==
  \A w \in Worker, t \in Ticket : t \in todo[w] \/ t \in touched[w] =>
    pc[w] \in {"settle", "pay"} /\ TicketRound[t] = JobRound[jw[w]]

BeingPaid(w, t) == pc[w] = "pay" /\ IsNext(w, t)

PayoutInHand(w, t) == IF t \in Manual THEN t \in paid[w] ELSE t \in enqueued[w]

ResultsBehind ==
  \A t \in Ticket :
    /\ ticket[t].settlement # "PENDING" <=> ticket[t].status = "SETTLED"
    /\ ticket[t].settlement = "WON" => SaysWon(t)
    /\ ticket[t].settlement = "LOST" => SaysLost(t)
    /\ payouts[t] > 0 \/ creditRows[t] > 0 => SaysWon(t) /\ ticket[t].status = "SETTLED"

PaidWinners == \A t \in Ticket : ticket[t].settlement = "WON" => HasPayout(t)

DoneAsWon ==
  \A w \in Worker, t \in Ticket :
    /\ t \in paid[w] \/ t \in enqueued[w] \/ BeingPaid(w, t) => Won(w, t)
    /\ BeingPaid(w, t) => t \in Manual
    /\ t \in touched[w] /\ ~BeingPaid(w, t) /\ Won(w, t) => PayoutInHand(w, t) \/ HasPayout(t)

WinnerInv == InRound /\ ResultsBehind /\ PaidWinners /\ DoneAsWon

LEMMA WinnerInvInit == Init => WinnerInv
BY DEF Init, WinnerInv, InRound, ResultsBehind, PaidWinners, DoneAsWon, BeingPaid

(* What results have said they have said for good.                            *)
LEMMA ResultsStay ==
  ASSUME \A j \in Job : Posted(j) => Posted(j)', NEW t \in Ticket
  PROVE  /\ SaysWon(t) => SaysWon(t)'
         /\ SaysLost(t) => SaysLost(t)'
         /\ OneResult(t)' => OneResult(t)
BY DEF SaysWon, SaysLost, OneResult, OfRound, Posted

(* What a worker finds is what a posted result says.                          *)
LEMMA WorkerFollowsResult ==
  ASSUME HasJob, JobsPosted, InRound, NEW w \in Worker, NEW t \in Ticket,
         t \in todo[w] \/ t \in touched[w]
  PROVE  /\ pc[w] \in {"settle", "pay"} /\ jw[w] \in OfRound(t)
         /\ Won(w, t) => SaysWon(t)
         /\ ~Won(w, t) => SaysLost(t)
<1>1. pc[w] \in {"settle", "pay"} /\ jw[w] \in Job /\ JobRound[jw[w]] = TicketRound[t]
  BY DEF HasJob, InRound
<1>2. jw[w] \in OfRound(t)
  BY <1>1 DEF JobsPosted, OfRound
<1>3. QED
  BY <1>1, <1>2 DEF Won, SaysWon, SaysLost

LEMMA WinnerInvStep ==
  ASSUME TypeInv, TypeInv', PayoutInv, PayoutInv', JobInv, WinnerInv, SettlementStep,
         \A j \in Job : Posted(j) => Posted(j)'
  PROVE  WinnerInv'
<1> USE DEF TypeInv
<1>s. \A t \in Ticket : (SaysWon(t) => SaysWon(t)') /\ (SaysLost(t) => SaysLost(t)')
  BY ResultsStay
(* Only a commit touches what the tickets say and their rows.                 *)
<1>u. ASSUME UNCHANGED <<payouts, creditRows>>,
             \A t \in Ticket :
               /\ ticket'[t].settlement = ticket[t].settlement
               /\ ticket'[t].status = "SETTLED" <=> ticket[t].status = "SETTLED"
      PROVE  ResultsBehind' /\ PaidWinners' /\ \A t \in Ticket : HasPayout(t)' <=> HasPayout(t)
  BY <1>s, <1>u DEF WinnerInv, ResultsBehind, PaidWinners, HasPayout
<1>1. CASE OtherStep
  <2>1. /\ UNCHANGED <<todo, touched, paid, enqueued, payouts, creditRows>>
        /\ \A w \in Worker :
             pc[w] \in {"settle", "pay"} \/ pc'[w] \in {"settle", "pay"} => pc'[w] = pc[w] /\ jw'[w] = jw[w]
    BY <1>1 DEF OtherStep, txVars
  <2>2. \A t \in Ticket :
          /\ ticket'[t].settlement = ticket[t].settlement
          /\ ticket'[t].status = "SETTLED" <=> ticket[t].status = "SETTLED"
    BY <1>1 DEF OtherStep
  <2>3. \A w \in Worker, t \in Ticket : BeingPaid(w, t)' <=> BeingPaid(w, t)
    BY <2>1 DEF BeingPaid, IsNext
  <2>4. InRound'
    BY <2>1 DEF WinnerInv, InRound
  <2>5. ASSUME NEW w \in Worker, NEW t \in Ticket, t \in todo[w] \/ t \in touched[w]
        PROVE  Won(w, t)' <=> Won(w, t)
    BY <2>1, <2>5 DEF WinnerInv, InRound, Won
  <2>6. \A w \in Worker, t \in Ticket :
          t \in paid[w] \/ t \in enqueued[w] \/ BeingPaid(w, t) => t \in todo[w] \/ t \in touched[w]
    BY DEF PayoutInv, PaymentsPending, BeingPaid, IsNext
  <2>7. DoneAsWon'
    BY <1>u, <2>1, <2>2, <2>3, <2>5, <2>6 DEF WinnerInv, DoneAsWon, PayoutInHand
  <2>8. QED
    BY <1>u, <2>1, <2>2, <2>4, <2>7 DEF WinnerInv
<1>2. ASSUME NEW w \in Worker, EndedStep(w) PROVE WinnerInv'
  <2>1. /\ UNCHANGED <<ticket, payouts, creditRows>>
        /\ todo'[w] = {} /\ touched'[w] = {} /\ paid'[w] = {} /\ enqueued'[w] = {} /\ pc'[w] # "pay"
        /\ \A v \in Worker \ {w} :
             /\ pc'[v] = pc[v] /\ jw'[v] = jw[v] /\ todo'[v] = todo[v] /\ touched'[v] = touched[v]
             /\ paid'[v] = paid[v] /\ enqueued'[v] = enqueued[v]
    BY <1>2, EndedTransaction DEF EndedStep, dbVars
  <2>2. \A v \in Worker \ {w}, t \in Ticket : (BeingPaid(v, t)' <=> BeingPaid(v, t)) /\ (Won(v, t)' <=> Won(v, t))
    BY <2>1 DEF BeingPaid, IsNext, Won
  <2>3. \A t \in Ticket : ~BeingPaid(w, t)'
    BY <2>1 DEF BeingPaid
  <2>4. InRound'
    BY <2>1 DEF WinnerInv, InRound
  <2>5. DoneAsWon'
    BY <1>u, <2>1, <2>2, <2>3 DEF WinnerInv, DoneAsWon, PayoutInHand
  <2>6. QED
    BY <1>u, <2>1, <2>4, <2>5 DEF WinnerInv
<1>3. ASSUME NEW w \in Worker, LoadEligibleTickets(w) PROVE WinnerInv'
  <2>1. /\ UNCHANGED <<ticket, payouts, creditRows, jw, touched, paid, enqueued>>
        /\ pc[w] = "load" /\ pc'[w] = "settle"
        /\ todo'[w] = {t \in Ticket : TicketRound[t] = JobRound[jw[w]] /\ isEligibleTicket(t)}
        /\ \A v \in Worker \ {w} : pc'[v] = pc[v] /\ todo'[v] = todo[v]
    BY <1>3 DEF LoadEligibleTickets, dbVars, TypeOK
  <2>2. \A v \in Worker, t \in Ticket : (BeingPaid(v, t)' <=> BeingPaid(v, t)) /\ (Won(v, t)' <=> Won(v, t))
    BY <2>1 DEF BeingPaid, IsNext, Won
  <2>3. InRound'
    BY <2>1 DEF WinnerInv, InRound
  <2>4. DoneAsWon'
    BY <1>u, <2>1, <2>2 DEF WinnerInv, DoneAsWon, PayoutInHand
  <2>5. QED
    BY <1>u, <2>1, <2>3, <2>4 DEF WinnerInv
<1>4. ASSUME NEW w \in Worker, NEW t \in Ticket, UpdateItems(w, t) PROVE WinnerInv'
  <2>1. /\ pc[w] = "settle" /\ IsNext(w, t)
        /\ UNCHANGED <<ticket, payouts, creditRows, jw, paid>>
        /\ touched'[w] = touched[w] \union {t}
        /\ pc'[w] \in {"settle", "pay"}
        /\ todo'[w] = todo[w] \/ todo'[w] = todo[w] \ {t}
        /\ enqueued'[w] = enqueued[w] \/ enqueued'[w] = enqueued[w] \union {t}
        /\ \A v \in Worker \ {w} :
             pc'[v] = pc[v] /\ todo'[v] = todo[v] /\ touched'[v] = touched[v] /\ enqueued'[v] = enqueued[v]
    BY <1>4, ItemsUpdated
  <2>2. t \in todo[w]
    BY <2>1 DEF IsNext
  <2>3. InRound'
    BY <2>1, <2>2 DEF WinnerInv, InRound
  <2>4. \A v \in Worker \ {w}, s \in Ticket : BeingPaid(v, s)' <=> BeingPaid(v, s)
    BY <2>1 DEF BeingPaid, IsNext
  <2>5. \A s \in Ticket : ~BeingPaid(w, s)
    BY <2>1 DEF BeingPaid
  <2>6. \A v \in Worker, s \in Ticket : Won(v, s)' <=> Won(v, s)
    BY <2>1 DEF Won
  <2>7. \A s \in Ticket : HasPayout(s)' <=> HasPayout(s)
    BY <2>1 DEF HasPayout
  (* What is true of the ticket at hand; all others are as they were.         *)
  <2>8. /\ t \in enqueued'[w] \/ BeingPaid(w, t)' => Won(w, t) \/ t \in enqueued[w]
        /\ \A s \in Ticket : BeingPaid(w, s)' => s = t /\ s \in Manual
        /\ ~BeingPaid(w, t)' /\ Won(w, t) => PayoutInHand(w, t)' \/ HasPayout(t)
    <3> payouts[t] \in Nat /\ payouts[t] <= 1 /\ creditRows[t] \in Nat /\ creditRows[t] <= 1
      BY DEF TypeOK, PayoutInv, PayoutOnce
    <3>1. CASE NeedsManualPayout(w, t)
      <4>1. pc'[w] = "pay" /\ todo'[w] = todo[w] /\ enqueued'[w] = enqueued[w]
        BY <1>4, <3>1, ItemsUpdated
      <4>2. \A s \in Ticket : BeingPaid(w, s)' <=> s = t
        <5>1. \A s \in Ticket : IsNext(w, s)' <=> IsNext(w, s)
          BY <4>1 DEF IsNext
        <5>2. QED
          BY <2>1, <4>1, <5>1, NextIsUnique DEF BeingPaid
      <4>3. QED
        BY <3>1, <4>1, <4>2 DEF NeedsManualPayout
    <3>2. CASE ~NeedsManualPayout(w, t)
      <4>1. /\ pc'[w] = "settle"
            /\ NeedsWalletPayout(w, t) => enqueued'[w] = enqueued[w] \union {t}
            /\ ~NeedsWalletPayout(w, t) => enqueued'[w] = enqueued[w]
        BY <1>4, <3>2, ItemsUpdated
      <4>2. \A s \in Ticket : ~BeingPaid(w, s)'
        BY <4>1 DEF BeingPaid
      <4>3. NeedsWalletPayout(w, t) => Won(w, t) /\ t \notin Manual
        BY DEF NeedsWalletPayout
      <4>4. Won(w, t) /\ ~NeedsWalletPayout(w, t) => HasPayout(t)
        BY <3>2 DEF NeedsManualPayout, NeedsWalletPayout, payoutLedgerExists, existingOutbox, HasPayout
      <4>5. QED
        BY <4>1, <4>2, <4>3, <4>4 DEF PayoutInHand
    <3>3. QED
      BY <3>1, <3>2
  <2>9. DoneAsWon'
    <3> SUFFICES ASSUME NEW v \in Worker, NEW s \in Ticket
        PROVE  /\ s \in paid'[v] \/ s \in enqueued'[v] \/ BeingPaid(v, s)' => Won(v, s)
               /\ BeingPaid(v, s)' => s \in Manual
               /\ s \in touched'[v] /\ ~BeingPaid(v, s)' /\ Won(v, s) => PayoutInHand(v, s)' \/ HasPayout(s)
      BY <2>6, <2>7 DEF DoneAsWon
    <3>1. CASE v = w /\ s = t
      BY <2>1, <2>8, <3>1 DEF WinnerInv, DoneAsWon
    <3>2. CASE v = w /\ s # t
      <4>1. /\ s \in touched'[w] <=> s \in touched[w]
            /\ s \in enqueued'[w] <=> s \in enqueued[w]
            /\ ~BeingPaid(w, s)' /\ ~BeingPaid(w, s)
        BY <2>1, <2>5, <2>8, <3>2
      <4>2. QED
        BY <2>1, <3>2, <4>1 DEF WinnerInv, DoneAsWon, PayoutInHand
    <3>3. CASE v # w
      BY <2>1, <2>4, <3>3 DEF WinnerInv, DoneAsWon, PayoutInHand
    <3>4. QED
      BY <3>1, <3>2, <3>3
  <2>10. QED
    BY <1>u, <2>1, <2>3, <2>9 DEF WinnerInv
<1>5. ASSUME NEW w \in Worker, NEW t \in Ticket, CreditManualPayout(w, t) PROVE WinnerInv'
  <2>1. /\ pc[w] = "pay" /\ IsNext(w, t) /\ pc'[w] = "settle"
        /\ UNCHANGED <<ticket, payouts, creditRows, jw, touched, enqueued>>
        /\ todo'[w] = todo[w] \ {t} /\ paid'[w] = paid[w] \union {t}
        /\ \A v \in Worker \ {w} : pc'[v] = pc[v] /\ todo'[v] = todo[v] /\ paid'[v] = paid[v]
    BY <1>5, PayoutCredited
  <2>2. /\ \A v \in Worker \ {w}, s \in Ticket : BeingPaid(v, s)' <=> BeingPaid(v, s)
        /\ \A s \in Ticket : ~BeingPaid(w, s)'
        /\ \A s \in Ticket : BeingPaid(w, s) <=> s = t
    BY <2>1, NextIsUnique DEF BeingPaid, IsNext
  <2>3. Won(w, t) /\ t \in Manual
    BY <2>2 DEF WinnerInv, DoneAsWon
  <2>4. InRound'
    BY <2>1 DEF WinnerInv, InRound
  <2>5. \A v \in Worker, s \in Ticket : (Won(v, s)' <=> Won(v, s)) /\ (HasPayout(s)' <=> HasPayout(s))
    BY <2>1 DEF Won, HasPayout
  <2>6. DoneAsWon'
    <3> SUFFICES ASSUME NEW v \in Worker, NEW s \in Ticket
        PROVE  /\ s \in paid'[v] \/ s \in enqueued'[v] \/ BeingPaid(v, s)' => Won(v, s)
               /\ BeingPaid(v, s)' => s \in Manual
               /\ s \in touched'[v] /\ ~BeingPaid(v, s)' /\ Won(v, s) => PayoutInHand(v, s)' \/ HasPayout(s)
      BY <2>5 DEF DoneAsWon
    <3>1. CASE v = w /\ s = t
      BY <2>1, <2>2, <2>3, <3>1 DEF PayoutInHand
    <3>2. CASE v = w /\ s # t
      <4>1. ~BeingPaid(w, s) /\ ~BeingPaid(w, s)' /\ (s \in paid'[w] <=> s \in paid[w])
        BY <2>1, <2>2, <3>2
      <4>2. QED
        BY <2>1, <3>2, <4>1 DEF WinnerInv, DoneAsWon, PayoutInHand
    <3>3. CASE v # w
      BY <2>1, <2>2, <3>3 DEF WinnerInv, DoneAsWon, PayoutInHand
    <3>4. QED
      BY <3>1, <3>2, <3>3
  <2>7. QED
    BY <1>u, <2>1, <2>4, <2>6 DEF WinnerInv
<1>6. ASSUME NEW w \in Worker, Commit(w) PROVE WinnerInv'
  <2>1. /\ pc[w] = "settle" /\ pc'[w] = "idle"
        /\ todo'[w] = {} /\ touched'[w] = {} /\ paid'[w] = {} /\ enqueued'[w] = {}
        /\ \A v \in Worker \ {w} :
             /\ pc'[v] = pc[v] /\ jw'[v] = jw[v] /\ todo'[v] = todo[v] /\ touched'[v] = touched[v]
             /\ paid'[v] = paid[v] /\ enqueued'[v] = enqueued[v]
    BY <1>6, Committed, EndedTransaction, IdleType
  <2>2. /\ \A v \in Worker \ {w}, t \in Ticket : (BeingPaid(v, t)' <=> BeingPaid(v, t)) /\ (Won(v, t)' <=> Won(v, t))
        /\ \A t \in Ticket : ~BeingPaid(w, t)' /\ ~BeingPaid(w, t)
    BY <2>1 DEF BeingPaid, IsNext, Won
  (* Tickets the worker has not touched keep their status and their rows.     *)
  <2>3. ASSUME NEW t \in Ticket, t \notin touched[w]
        PROVE  ticket'[t] = ticket[t] /\ payouts'[t] = payouts[t] /\ creditRows'[t] = creditRows[t]
    <3>1. t \notin paid[w] /\ t \notin enqueued[w]
      BY <2>3 DEF PayoutInv, PaymentsPending
    <3>2. QED
      BY <1>6, <2>3, <3>1, Committed
  (* Those it has touched say what it found, and are paid if they won.        *)
  <2>4. ASSUME NEW t \in Ticket, t \in touched[w]
        PROVE  /\ ticket'[t].status = "SETTLED"
               /\ ticket'[t].settlement = IF Won(w, t) THEN "WON" ELSE "LOST"
               /\ payouts'[t] > 0 \/ creditRows'[t] > 0 => SaysWon(t)
               /\ Won(w, t) => HasPayout(t)'
    <3>1. ticket'[t] = SettledTicket(w, t)
      BY <1>6, <2>4, Committed
    <3>2. /\ ticket'[t].status = "SETTLED"
          /\ ticket'[t].settlement = IF Won(w, t) THEN "WON" ELSE "LOST"
      BY <3>1 DEF SettledTicket
    <3>3. /\ t \in paid[w] => payouts[t] = 0 /\ payouts'[t] = payouts[t] + 1
          /\ t \notin paid[w] => payouts'[t] = payouts[t]
          /\ t \in enqueued[w] => creditRows[t] = 0 /\ creditRows'[t] = creditRows[t] + 1
          /\ t \notin enqueued[w] => creditRows'[t] = creditRows[t]
      BY <1>6, Committed DEF PayoutInv, PaymentsPending
    <3>4. Won(w, t) => HasPayout(t)'
      <4>1. Won(w, t) => PayoutInHand(w, t) \/ HasPayout(t)
        BY <2>2, <2>4 DEF WinnerInv, DoneAsWon
      <4>2. QED
        BY <3>3, <4>1 DEF PayoutInHand, HasPayout
    <3>5. payouts'[t] > 0 \/ creditRows'[t] > 0 => SaysWon(t)
      <4>1. t \in paid[w] \/ t \in enqueued[w] => SaysWon(t)
        BY <2>4, WorkerFollowsResult DEF WinnerInv, DoneAsWon, JobInv
      <4>2. QED
        BY <3>3, <4>1 DEF WinnerInv, ResultsBehind
    <3>6. QED
      BY <3>2, <3>4, <3>5
  <2>5. InRound'
    BY <2>1 DEF WinnerInv, InRound
  <2>6. ResultsBehind' /\ PaidWinners'
    <3> SUFFICES ASSUME NEW t \in Ticket
        PROVE  /\ ticket'[t].settlement # "PENDING" <=> ticket'[t].status = "SETTLED"
               /\ ticket'[t].settlement = "WON" => SaysWon(t)' /\ HasPayout(t)'
               /\ ticket'[t].settlement = "LOST" => SaysLost(t)'
               /\ payouts'[t] > 0 \/ creditRows'[t] > 0 => SaysWon(t)' /\ ticket'[t].status = "SETTLED"
      BY DEF ResultsBehind, PaidWinners
    <3>1. CASE t \in touched[w]
      <4>1. (Won(w, t) => SaysWon(t)) /\ (~Won(w, t) => SaysLost(t))
        BY <3>1, WorkerFollowsResult DEF WinnerInv, JobInv
      <4>2. QED
        BY <1>s, <2>4, <3>1, <4>1
    <3>2. CASE t \notin touched[w]
      <4>1. HasPayout(t) => HasPayout(t)'
        BY <2>3, <3>2 DEF HasPayout
      <4>2. QED
        BY <1>s, <2>3, <3>2, <4>1 DEF WinnerInv, ResultsBehind, PaidWinners
    <3>3. QED
      BY <3>1, <3>2
  <2>7. DoneAsWon'
    <3> SUFFICES ASSUME NEW v \in Worker, NEW s \in Ticket
        PROVE  /\ s \in paid'[v] \/ s \in enqueued'[v] \/ BeingPaid(v, s)' => Won(v, s)'
               /\ BeingPaid(v, s)' => s \in Manual
               /\ s \in touched'[v] /\ ~BeingPaid(v, s)' /\ Won(v, s)' => PayoutInHand(v, s)' \/ HasPayout(s)'
      BY DEF DoneAsWon
    <3>1. CASE v = w
      BY <2>1, <2>2, <3>1
    <3>2. CASE v # w
      <4>1. s \in touched[v] => (HasPayout(s)' <=> HasPayout(s))
        <5>1. s \in touched[v] => s \notin touched[w]
          BY <3>2 DEF PayoutInv, TouchedApart
        <5>2. QED
          BY <2>3, <5>1 DEF HasPayout
      <4>2. QED
        BY <2>1, <2>2, <3>2, <4>1 DEF WinnerInv, DoneAsWon, PayoutInHand
    <3>3. QED
      BY <3>1, <3>2
  <2>8. QED
    BY <2>5, <2>6, <2>7 DEF WinnerInv
<1>7. QED
  BY <1>1, <1>2, <1>3, <1>4, <1>5, <1>6 DEF SettlementStep

(* The invariants that go together from here on.                              *)
PaymentInv == TypeInv /\ PayoutInv /\ JobInv /\ WinnerInv

LEMMA PaymentInvInit == Init => PaymentInv
BY TypeInvInit, PayoutInvInit, JobInvInit, WinnerInvInit DEF PaymentInv

LEMMA PaymentInvStep == PaymentInv /\ [Next]_vars => PaymentInv'
<1> SUFFICES ASSUME PaymentInv, [Next]_vars PROVE PaymentInv'
  OBVIOUS
<1>1. TypeInv' /\ SettlementStep
  BY TypeInvStep DEF PaymentInv
<1>2. PayoutInv'
  BY <1>1, PayoutInvStep DEF PaymentInv, TypeInv
<1>3. JobInv'
  BY JobInvStep DEF PaymentInv
<1>4. WinnerInv'
  BY <1>1, <1>2, PostedStays, WinnerInvStep DEF PaymentInv
<1>5. QED
  BY <1>1, <1>2, <1>3, <1>4 DEF PaymentInv

(* A WON ticket has its payout row, and a payout row is due to a posted       *)
(* result, whatever numbers are posted for a round and however often          *)
(* (settleTicket overwrites the status of a ticket, and never a payout).      *)
THEOREM WonTicketsArePaid == Spec => []WonMeansPaid
<1>1. PaymentInv => WonMeansPaid
  <2> SUFFICES ASSUME PaymentInv, NEW t \in Ticket
      PROVE  /\ ticket[t].settlement = "WON" => HasPayout(t)
             /\ payouts[t] + creditRows[t] > 0 => SaysWon(t) /\ ticket[t].status = "SETTLED"
    BY DEF WonMeansPaid
  <2>1. payouts[t] \in Nat /\ creditRows[t] \in Nat
    BY DEF PaymentInv, TypeInv, TypeOK
  <2>2. payouts[t] + creditRows[t] > 0 => payouts[t] > 0 \/ creditRows[t] > 0
    BY <2>1
  <2>3. QED
    BY <2>2 DEF PaymentInv, WinnerInv, ResultsBehind, PaidWinners
<1>2. QED
  BY <1>1, PaymentInvInit, PaymentInvStep, PTL DEF Spec

(* Where the results posted for a round agree on a ticket, it has its payout  *)
(* row exactly when it is WON (settleTicket): no winner goes unpaid because a *)
(* row of another worker was in sight, and no loser is paid.                  *)
THEOREM WinnersPaid == Spec => []PaidIffWon
<1>1. PaymentInv => PaidIffWon
  <2> SUFFICES ASSUME PaymentInv, NEW t \in Ticket, ~(SaysWon(t) /\ SaysLost(t))
      PROVE  HasPayout(t) <=> ticket[t].settlement = "WON"
    BY DEF PaidIffWon
  <2>1. ticket[t].settlement \in {"PENDING", "WON", "LOST"}
    <3>1. ticket[t] \in TicketRecord
      BY DEF PaymentInv, TypeInv, TypeOK
    <3>2. QED
      BY <3>1 DEF TicketRecord
  <2>2. HasPayout(t) => SaysWon(t) /\ ticket[t].settlement # "PENDING"
    BY DEF PaymentInv, WinnerInv, ResultsBehind, HasPayout
  <2>3. ticket[t].settlement = "LOST" => SaysLost(t)
    BY DEF PaymentInv, WinnerInv, ResultsBehind
  <2>4. ticket[t].settlement = "WON" => HasPayout(t)
    BY DEF PaymentInv, WinnerInv, PaidWinners
  <2>5. QED
    BY <2>1, <2>2, <2>3, <2>4
<1>2. QED
  BY <1>1, PaymentInvInit, PaymentInvStep, PTL DEF Spec
-----------------------------------------------------------------------------
(* What the wallet has paid.  While a round has one result, one worker at a   *)
(* time has its tickets, and none of them is settled before that worker       *)
(* commits: nobody has an old copy of a settled ticket.                       *)

PaidHasRow == \A t \in walletPaid : creditRows[t] > 0

FreshInHand ==
  \A w \in Worker, t \in Ticket :
    OneResult(t) /\ (t \in todo[w] \/ t \in touched[w]) => ticket[t].status # "SETTLED"

ShownInv == PaidHasRow /\ FreshInHand /\ PayoutShown

LEMMA ShownInvInit == Init => ShownInv
BY DEF Init, ShownInv, PaidHasRow, FreshInHand, PayoutShown

LEMMA ShownInvStep ==
  ASSUME PaymentInv, PaymentInv', ShownInv, SettlementStep, \A j \in Job : Posted(j) => Posted(j)'
  PROVE  ShownInv'
<1> USE DEF PaymentInv, TypeInv
<1>o. \A t \in Ticket : OneResult(t)' => OneResult(t)
  BY ResultsStay
<1>p. walletPaid \subseteq Ticket /\ walletPaid' \subseteq Ticket
  BY DEF TypeOK
(* A step that writes no ticket and takes no ticket from afar.                *)
<1>u. ASSUME UNCHANGED <<ticket, creditRows, walletPaid>>,
             \A w \in Worker, t \in Ticket :
               t \in todo'[w] \/ t \in touched'[w] =>
                 t \in todo[w] \/ t \in touched[w] \/ ticket[t].status # "SETTLED"
      PROVE  ShownInv'
  BY <1>o, <1>p, <1>u DEF ShownInv, PaidHasRow, FreshInHand, PayoutShown
<1>1. CASE OtherStep
  <2>1. /\ UNCHANGED <<todo, touched, creditRows>>
        /\ \A t \in Ticket : ticket'[t].status = "SETTLED" <=> ticket[t].status = "SETTLED"
        /\ \A t \in walletPaid' :
             \/ t \in walletPaid /\ ticket'[t].payout = ticket[t].payout
             \/ creditRows[t] > 0 /\ ticket'[t].payout = "SUCCEEDED"
    BY <1>1 DEF OtherStep, txVars
  <2>2. PaidHasRow' /\ FreshInHand'
    BY <1>o, <2>1 DEF ShownInv, PaidHasRow, FreshInHand
  <2>3. PayoutShown'
    BY <1>o, <1>p, <2>1 DEF ShownInv, PayoutShown
  <2>4. QED
    BY <2>2, <2>3 DEF ShownInv
<1>2. ASSUME NEW w \in Worker, EndedStep(w) PROVE ShownInv'
  <2>1. /\ UNCHANGED <<ticket, creditRows, walletPaid>>
        /\ todo'[w] = {} /\ touched'[w] = {}
        /\ \A v \in Worker \ {w} : todo'[v] = todo[v] /\ touched'[v] = touched[v]
    BY <1>2, EndedTransaction DEF EndedStep, dbVars
  <2>2. QED
    BY <1>u, <2>1
<1>3. ASSUME NEW w \in Worker, LoadEligibleTickets(w) PROVE ShownInv'
  <2>1. /\ UNCHANGED <<ticket, creditRows, walletPaid, touched>>
        /\ \A t \in todo'[w] : isEligibleTicket(t)
        /\ \A v \in Worker \ {w} : todo'[v] = todo[v]
    BY <1>3 DEF LoadEligibleTickets, dbVars, TypeOK
  <2>2. QED
    BY <1>u, <2>1 DEF isEligibleTicket
<1>4. ASSUME NEW w \in Worker, NEW t \in Ticket, UpdateItems(w, t) PROVE ShownInv'
  <2>1. /\ UNCHANGED <<ticket, creditRows, walletPaid>>
        /\ t \in todo[w] /\ touched'[w] = touched[w] \union {t}
        /\ todo'[w] = todo[w] \/ todo'[w] = todo[w] \ {t}
        /\ \A v \in Worker \ {w} : todo'[v] = todo[v] /\ touched'[v] = touched[v]
    BY <1>4, ItemsUpdated DEF IsNext
  <2>2. QED
    BY <1>u, <2>1
<1>5. ASSUME NEW w \in Worker, NEW t \in Ticket, CreditManualPayout(w, t) PROVE ShownInv'
  <2>1. /\ UNCHANGED <<ticket, creditRows, walletPaid, touched>>
        /\ todo'[w] = todo[w] \ {t} /\ \A v \in Worker \ {w} : todo'[v] = todo[v]
    BY <1>5, PayoutCredited
  <2>2. QED
    BY <1>u, <2>1
<1>6. ASSUME NEW w \in Worker, Commit(w) PROVE ShownInv'
  <2>1. /\ walletPaid' = walletPaid
        /\ \A t \in enqueued[w] : creditRows'[t] = creditRows[t] + 1
        /\ \A t \in Ticket \ enqueued[w] : creditRows'[t] = creditRows[t]
        /\ \A t \in Ticket \ touched[w] : ticket'[t] = ticket[t]
    BY <1>6, Committed
  <2>2. /\ todo'[w] = {} /\ touched'[w] = {}
        /\ \A v \in Worker \ {w} : todo'[v] = todo[v] /\ touched'[v] = touched[v]
    BY <1>6, Committed, EndedTransaction
  <2>3. PaidHasRow'
    <3> creditRows \in [Ticket -> Nat]
      BY DEF TypeOK
    <3> SUFFICES ASSUME NEW t \in Ticket, creditRows[t] > 0 PROVE creditRows'[t] > 0
      BY <1>p, <2>1 DEF ShownInv, PaidHasRow
    <3>1. QED
      BY <2>1
  (* A ticket two workers have in hand is a ticket of two results.            *)
  <2>4. ASSUME NEW v \in Worker \ {w}, NEW t \in Ticket, OneResult(t), t \in touched[w]
        PROVE  t \notin todo[v] /\ t \notin touched[v]
    <3> SUFFICES ASSUME t \in todo[v] \/ t \in touched[v] PROVE FALSE
      OBVIOUS
    <3>1. /\ pc[w] \in {"settle", "pay"} /\ jw[w] \in OfRound(t)
          /\ pc[v] \in {"settle", "pay"} /\ jw[v] \in OfRound(t)
      BY <2>4, WorkerFollowsResult DEF WinnerInv, JobInv
    <3>2. jw[v] = jw[w] /\ jw[w] \in Job
      BY <2>4, <3>1 DEF OneResult, OfRound
    <3>3. QED
      BY <3>1, <3>2 DEF JobInv, JobsApart, JobLockedBy
  <2>5. FreshInHand'
    <3> SUFFICES ASSUME NEW v \in Worker, NEW t \in Ticket, OneResult(t),
                        t \in todo'[v] \/ t \in touched'[v]
        PROVE  ticket'[t].status # "SETTLED"
      BY <1>o DEF FreshInHand
    <3>1. v # w /\ (t \in todo[v] \/ t \in touched[v])
      BY <2>2
    <3>2. t \notin touched[w]
      BY <2>4, <3>1
    <3>3. QED
      BY <2>1, <3>1, <3>2 DEF ShownInv, FreshInHand
  <2>6. PayoutShown'
    <3> SUFFICES ASSUME NEW t \in walletPaid, OneResult(t) PROVE ticket'[t].payout = "SUCCEEDED"
      BY <1>o, <1>p, <2>1 DEF PayoutShown
    <3>1. t \in Ticket /\ ticket[t].status = "SETTLED"
      BY <1>p DEF ShownInv, PaidHasRow, WinnerInv, ResultsBehind
    <3>2. t \notin touched[w]
      BY <3>1 DEF ShownInv, FreshInHand
    <3>3. QED
      BY <2>1, <3>1, <3>2 DEF ShownInv, PayoutShown
  <2>7. QED
    BY <2>3, <2>5, <2>6 DEF ShownInv
<1>7. QED
  BY <1>1, <1>2, <1>3, <1>4, <1>5, <1>6 DEF SettlementStep

(* While a round has one result, what the wallet has paid stays SUCCEEDED on  *)
(* its ticket: settleTicket, which writes PENDING without a look at the row,  *)
(* comes to a ticket only once, because the row of the job is locked.         *)
THEOREM PayoutsStayShown == Spec => []PayoutShown
<1>1. Init => PaymentInv /\ ShownInv
  BY PaymentInvInit, ShownInvInit
<1>2. PaymentInv /\ ShownInv /\ [Next]_vars => (PaymentInv /\ ShownInv)'
  <2> SUFFICES ASSUME PaymentInv, ShownInv, [Next]_vars PROVE (PaymentInv /\ ShownInv)'
    OBVIOUS
  <2>1. PaymentInv'
    BY PaymentInvStep
  <2>2. SettlementStep /\ \A j \in Job : Posted(j) => Posted(j)'
    BY TypeInvStep, PostedStays DEF PaymentInv
  <2>3. QED
    BY <2>1, <2>2, ShownInvStep
<1>3. ShownInv => PayoutShown
  BY DEF ShownInv
<1>4. QED
  BY <1>1, <1>2, <1>3, PTL DEF Spec
-----------------------------------------------------------------------------
(* The phases of TicketLifecycle, read off a ticket as the settlement worker  *)
(* sees it: of its funding it asks only whether it has succeeded.             *)
PhaseOf(tk) ==
  CASE tk.status = "PENDING_FUNDING" -> "awaitingFunds"
    [] tk.status = "CONFIRMED" -> "funded"
    [] tk.status = "SETTLED" /\ tk.settlement # "WON" -> "lost"
    [] OTHER -> IF tk.payout = "SUCCEEDED" THEN "paid" ELSE "payoutDue"

External == INSTANCE TicketLifecycle WITH Ticket <- Ticket \ Manual,
                                          phase <- [t \in Ticket \ Manual |-> PhaseOf(ticket[t])]

(* The phases that may come next.  A manual ticket is paid as it is settled.  *)
MayBecome(t, p) ==
  IF t \in Manual THEN (IF p = "funded" THEN {"lost", "paid"} ELSE {}) ELSE External!Successors(p)

SettledInOrder(t) ==
  PhaseOf(ticket'[t]) # PhaseOf(ticket[t]) => PhaseOf(ticket'[t]) \in MayBecome(t, PhaseOf(ticket[t]))

(* What a worker has in hand was funded when it read it, and a manual ticket  *)
(* that has won says that it is paid.                                         *)
FundedInHand ==
  \A w \in Worker, t \in Ticket : t \in todo[w] \/ t \in touched[w] => ticket[t].status # "PENDING_FUNDING"

ManualPaidAtOnce ==
  \A t \in Manual :
    /\ ticket[t].status # "PENDING_FUNDING"
    /\ ticket[t].settlement = "WON" => ticket[t].payout = "SUCCEEDED"

PhaseInv == FundedInHand /\ ManualPaidAtOnce

LEMMA PhaseInvInit == Init => PhaseInv
BY SettlementAssumption DEF Init, PhaseInv, FundedInHand, ManualPaidAtOnce

LEMMA SettledTicketFields ==
  ASSUME NEW w, NEW t
  PROVE  /\ SettledTicket(w, t).status = "SETTLED"
         /\ SettledTicket(w, t).settlement = IF Won(w, t) THEN "WON" ELSE "LOST"
         /\ SettledTicket(w, t).payout =
              IF ~Won(w, t) THEN "NO_WIN" ELSE IF t \in Manual THEN "SUCCEEDED" ELSE "PENDING"
BY DEF SettledTicket

LEMMA PhaseInvStep == TypeOK /\ PhaseInv /\ SettlementStep => PhaseInv'
<1> SUFFICES ASSUME TypeOK, PhaseInv, SettlementStep PROVE PhaseInv'
  OBVIOUS
<1>m. Manual \subseteq Ticket
  BY SettlementAssumption
(* A step that writes no ticket and takes none but funded ones in hand.       *)
<1>u. ASSUME UNCHANGED ticket,
             \A w \in Worker, t \in Ticket :
               t \in todo'[w] \/ t \in touched'[w] =>
                 t \in todo[w] \/ t \in touched[w] \/ ticket[t].status # "PENDING_FUNDING"
      PROVE  PhaseInv'
  BY <1>u DEF PhaseInv, FundedInHand, ManualPaidAtOnce
<1>1. CASE OtherStep
  BY <1>1, <1>m DEF OtherStep, txVars, PhaseInv, FundedInHand, ManualPaidAtOnce
<1>2. ASSUME NEW w \in Worker, EndedStep(w) PROVE PhaseInv'
  BY <1>2, <1>u, EndedTransaction DEF EndedStep, dbVars
<1>3. ASSUME NEW w \in Worker, LoadEligibleTickets(w) PROVE PhaseInv'
  <2>1. /\ UNCHANGED <<ticket, touched>>
        /\ \A t \in todo'[w] : isEligibleTicket(t)
        /\ \A v \in Worker \ {w} : todo'[v] = todo[v]
    BY <1>3 DEF LoadEligibleTickets, dbVars, TypeOK
  <2>2. QED
    BY <1>u, <2>1 DEF isEligibleTicket
<1>4. ASSUME NEW w \in Worker, NEW t \in Ticket, UpdateItems(w, t) PROVE PhaseInv'
  <2>1. /\ UNCHANGED ticket
        /\ t \in todo[w] /\ touched'[w] = touched[w] \union {t}
        /\ todo'[w] = todo[w] \/ todo'[w] = todo[w] \ {t}
        /\ \A v \in Worker \ {w} : todo'[v] = todo[v] /\ touched'[v] = touched[v]
    BY <1>4, ItemsUpdated DEF IsNext
  <2>2. QED
    BY <1>u, <2>1
<1>5. ASSUME NEW w \in Worker, NEW t \in Ticket, CreditManualPayout(w, t) PROVE PhaseInv'
  <2>1. /\ UNCHANGED <<ticket, touched>>
        /\ todo'[w] = todo[w] \ {t} /\ \A v \in Worker \ {w} : todo'[v] = todo[v]
    BY <1>5, PayoutCredited
  <2>2. QED
    BY <1>u, <2>1
<1>6. ASSUME NEW w \in Worker, Commit(w) PROVE PhaseInv'
  <2>1. \A t \in Ticket :
          IF t \in touched[w] THEN ticket'[t] = SettledTicket(w, t) ELSE ticket'[t] = ticket[t]
    BY <1>6, Committed
  <2>2. /\ todo'[w] = {} /\ touched'[w] = {}
        /\ \A v \in Worker \ {w} : todo'[v] = todo[v] /\ touched'[v] = touched[v]
    BY <1>6, Committed, EndedTransaction
  <2>3. FundedInHand' /\ ManualPaidAtOnce'
    BY <1>m, <2>1, <2>2, SettledTicketFields DEF PhaseInv, FundedInHand, ManualPaidAtOnce
  <2>4. QED
    BY <2>3 DEF PhaseInv
<1>7. QED
  BY <1>1, <1>2, <1>3, <1>4, <1>5, <1>6 DEF SettlementStep

LEMMA SettledInOrderStep ==
  ASSUME PaymentInv, ShownInv, PhaseInv, SettlementStep, NEW t \in Ticket, OneResult(t)
  PROVE  SettledInOrder(t)
<1> USE DEF PaymentInv, TypeInv
<1> DEFINE p == PhaseOf(ticket[t])
           q == PhaseOf(ticket'[t])
<1>0. /\ ticket[t] \in TicketRecord
      /\ ticket[t].settlement # "PENDING" <=> ticket[t].status = "SETTLED"
  BY DEF TypeOK, WinnerInv, ResultsBehind
<1>1. CASE OtherStep
  <2>1. ticket'[t].settlement = ticket[t].settlement
    BY <1>1 DEF OtherStep
  <2>2. CASE ticket'[t].status = ticket[t].status
    <3>1. CASE ticket'[t].payout = ticket[t].payout
      BY <2>1, <2>2, <3>1 DEF SettledInOrder, PhaseOf
    <3>2. CASE creditRows[t] > 0 /\ ticket'[t].payout = "SUCCEEDED"
      <4>1. ticket[t].status = "SETTLED" /\ SaysWon(t)
        BY <3>2 DEF WinnerInv, ResultsBehind
      <4>2. ticket[t].settlement = "WON"
        BY <1>0, <4>1 DEF TicketRecord, WinnerInv, ResultsBehind, OneResult, SaysWon, SaysLost
      <4>3. q = "paid" /\ p = (IF ticket[t].payout = "SUCCEEDED" THEN "paid" ELSE "payoutDue")
        BY <2>1, <2>2, <3>2, <4>1, <4>2 DEF PhaseOf
      <4>4. t \in Manual => p = "paid"
        BY <4>2, <4>3 DEF PhaseInv, ManualPaidAtOnce
      <4>5. QED
        BY <4>3, <4>4 DEF SettledInOrder, MayBecome, External!Successors
    <3>3. QED
      BY <1>1, <3>1, <3>2 DEF OtherStep
  <2>3. CASE ticket[t].status = "PENDING_FUNDING" /\ ticket'[t].status = "CONFIRMED"
    <3>1. p = "awaitingFunds" /\ q = "funded" /\ t \notin Manual
      BY <2>3 DEF PhaseOf, PhaseInv, ManualPaidAtOnce
    <3>2. QED
      BY <3>1 DEF SettledInOrder, MayBecome, External!Successors
  <2>4. QED
    BY <1>1, <2>2, <2>3 DEF OtherStep
<1>2. ASSUME NEW w \in Worker, Commit(w) PROVE SettledInOrder(t)
  <2>1. CASE t \in touched[w]
    <3>1. ticket'[t] = SettledTicket(w, t)
      BY <1>2, <2>1, Committed
    <3>2. ticket[t].status = "CONFIRMED"
      BY <1>0, <2>1 DEF TicketRecord, ShownInv, FreshInHand, PhaseInv, FundedInHand
    <3>3. p = "funded" /\ q = (IF ~Won(w, t) THEN "lost" ELSE IF t \in Manual THEN "paid" ELSE "payoutDue")
      BY <3>1, <3>2, SettledTicketFields DEF PhaseOf
    <3>4. QED
      BY <3>3 DEF SettledInOrder, MayBecome, External!Successors
  <2>2. CASE t \notin touched[w]
    BY <1>2, <2>2, Committed DEF SettledInOrder
  <2>3. QED
    BY <2>1, <2>2
<1>3. ASSUME UNCHANGED ticket PROVE SettledInOrder(t)
  BY <1>3 DEF SettledInOrder
<1>4. QED
  BY <1>1, <1>2, <1>3
  DEF SettlementStep, EndedStep, LoadEligibleTickets, UpdateItems, CreditManualPayout, dbVars

(* While a round has one result, the settlement worker moves tickets as       *)
(* TicketLifecycle allows, and manual ones from funded to lost or paid in one *)
(* step, though several workers settle by lists of tickets read earlier.      *)
(* WalletOutbox, which settles a ticket by one step of its own, leaves        *)
(* nothing out (settleTicket, isEligibleTicket).                              *)
THEOREM TicketsSettledInOrder ==
  Spec => [][\A t \in Ticket : OneResult(t) => SettledInOrder(t)]_vars
<1> DEFINE AllInv == PaymentInv /\ ShownInv /\ PhaseInv
           InOrder == \A t \in Ticket : OneResult(t) => SettledInOrder(t)
<1>1. Init => AllInv
  BY PaymentInvInit, ShownInvInit, PhaseInvInit
<1>2. AllInv /\ [Next]_vars => AllInv' /\ InOrder
  <2> SUFFICES ASSUME AllInv, [Next]_vars PROVE AllInv' /\ InOrder
    OBVIOUS
  <2>1. PaymentInv' /\ SettlementStep /\ \A j \in Job : Posted(j) => Posted(j)'
    BY PaymentInvStep, TypeInvStep, PostedStays DEF PaymentInv
  <2>2. TypeOK
    BY DEF PaymentInv, TypeInv
  <2>3. ShownInv' /\ PhaseInv'
    BY <2>1, <2>2, ShownInvStep, PhaseInvStep
  <2>4. InOrder
    BY <2>1, SettledInOrderStep
  <2>5. QED
    BY <2>1, <2>3, <2>4
<1>3. QED
  BY <1>1, <1>2, PTL DEF Spec
=============================================================================
