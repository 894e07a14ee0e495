------------------------- MODULE WalletOutboxProofs -------------------------
(* Theorems about WalletOutbox, for every number of tickets and workers and   *)
(* every maxRetries, batchSize, set of operator marks and number of crashes.  *)
EXTENDS WalletOutbox, FiniteSetTheorems, TLAPS

-----------------------------------------------------------------------------
(* What the helpers that write a row or a ticket return.                      *)

(* A row stays a row when it is written.                                      *)
LEMMA WrittenType ==
  ASSUME NEW row \in OutboxRecord, NEW next \in Status
  PROVE  /\ Written(row, next) \in OutboxRecord
         /\ Written(row, next).status = next
         /\ Written(row, next).retry_count = row.retry_count
         /\ [Written(row, next) EXCEPT !.waiting = FALSE] \in OutboxRecord
         /\ [Written(row, next) EXCEPT !.waiting = FALSE].status = next
         /\ [Written(row, next) EXCEPT !.waiting = FALSE].retry_count = row.retry_count
BY DEF Written, OutboxRecord, Status

(* A retry counts one more and goes back to the queue or fails.               *)
LEMMA RetriedType ==
  ASSUME NEW row \in OutboxRecord
  PROVE  /\ Retried(row) \in OutboxRecord
         /\ Retried(row).retry_count = row.retry_count + 1
         /\ row.retry_count + 1 >= MaxRetries => Retried(row).status = "FAILED"
         /\ ~(row.retry_count + 1 >= MaxRetries) => Retried(row).status = "PENDING"
<1>1. CASE row.retry_count + 1 >= MaxRetries
  <2>1. Retried(row) = [Written(row, "FAILED") EXCEPT !.retry_count = row.retry_count + 1, !.waiting = FALSE]
    BY <1>1 DEF Retried, RetryLimitReached
  <2>2. Written(row, "FAILED") \in OutboxRecord /\ Written(row, "FAILED").status = "FAILED"
    BY WrittenType DEF Status
  <2>3. row.retry_count + 1 \in Nat
    BY DEF OutboxRecord
  <2>4. QED
    BY <1>1, <2>1, <2>2, <2>3 DEF OutboxRecord
<1>2. CASE ~(row.retry_count + 1 >= MaxRetries)
  <2>1. Retried(row) = [Written(row, "PENDING") EXCEPT !.retry_count = row.retry_count + 1, !.waiting = TRUE]
    BY <1>2 DEF Retried, RetryLimitReached
  <2>2. Written(row, "PENDING") \in OutboxRecord /\ Written(row, "PENDING").status = "PENDING"
    BY WrittenType DEF Status
  <2>3. row.retry_count + 1 \in Nat
    BY DEF OutboxRecord
  <2>4. QED
    BY <1>2, <2>1, <2>2, <2>3 DEF OutboxRecord
<1>3. QED
  BY <1>1, <1>2

(* updateRelatedTicket keeps the tickets well typed.                          *)
LEMMA RelatedTicketType ==
  ASSUME ticket \in [Ticket -> TicketRecord],
         NEW r \in Row, NEW next \in Status,
         updateRelatedTicket(r, next)
  PROVE  ticket' \in [Ticket -> TicketRecord]
<1>1. r[1] \in Ticket
  BY DEF Row
<1>2. /\ DebitOnTicket(ticket[r[1]], next) \in TicketRecord
      /\ CreditOnTicket(ticket[r[1]], next) \in TicketRecord
  BY <1>1 DEF DebitOnTicket, CreditOnTicket, TicketRecord, Status
<1>3. QED
  BY <1>1, <1>2 DEF updateRelatedTicket

(* So do the two ways a worker writes a final status or a retry.              *)
LEMMA FinalStatusType ==
  ASSUME TypeOK, NEW r \in Row, NEW next \in Status, applyFinalStatus(r, next)
  PROVE  /\ ticket' \in [Ticket -> TicketRecord]
         /\ outbox' \in [Row -> OutboxRecord]
<1>1. outbox[r] \in OutboxRecord
  BY DEF TypeOK
<1>2. QED
  BY <1>1, WrittenType, RelatedTicketType DEF TypeOK, applyFinalStatus

LEMMA RetryType ==
  ASSUME TypeOK, NEW r \in Row, scheduleRetryOrFail(r)
  PROVE  /\ ticket' \in [Ticket -> TicketRecord]
         /\ outbox' \in [Row -> OutboxRecord]
<1>1. outbox[r] \in OutboxRecord
  BY DEF TypeOK
<1>2. Retried(outbox[r]).status \in Status
  BY <1>1, RetriedType, WalletOutboxAssumption DEF Status, OutboxRecord
<1>3. QED
  BY <1>1, <1>2, RetriedType, RelatedTicketType DEF TypeOK, scheduleRetryOrFail

(* The bookkeeping of a run keeps its types.                                  *)
LEMMA NextInRunType ==
  ASSUME TypeOK, NEW w \in Worker, NEW r \in Row, NextInRun(w, r)
  PROVE  /\ job' \in [Worker -> Job]
         /\ todo' \in [Worker -> SUBSET Row]
         /\ cur' \in [Worker -> Row \union {NoRow}]
         /\ ans' \in [Worker -> Answer]
BY DEF TypeOK, NextInRun, Job, Answer

LEMMA EndRunType ==
  ASSUME TypeOK, NEW w \in Worker, EndRun(w)
  PROVE  /\ job' \in [Worker -> Job]
         /\ todo' \in [Worker -> SUBSET Row]
         /\ cutoff' \in [Worker -> SUBSET Row]
         /\ cur' \in [Worker -> Row \union {NoRow}]
         /\ ans' \in [Worker -> Answer]
BY DEF TypeOK, EndRun, Job, Answer

LEMMA StartRunType ==
  ASSUME TypeOK, NEW w \in Worker, NEW kind \in Job, NEW S \in SUBSET Row, StartRun(w, kind, S)
  PROVE  /\ job' \in [Worker -> Job]
         /\ todo' \in [Worker -> SUBSET Row]
BY DEF TypeOK, StartRun

LEMMA TouchedCutoffsType ==
  ASSUME TypeOK, NEW S
  PROVE  TouchedCutoffs(S) \in [Worker -> SUBSET Row]
BY DEF TypeOK, TouchedCutoffs
-----------------------------------------------------------------------------
(* Only a run that processes or reconciles has a call in hand, and a          *)
(* reconciliation's answer is definite: UNKNOWN is left to the next run.  It  *)
(* is what keeps RETRYABLE, which is no status, out of the table.             *)
ReconcileDefinite ==
  \A w \in Worker : cur[w] # NoRow =>
    \/ job[w] = "process"
    \/ job[w] = "reconcile" /\ ans[w] \in terminalStatuses

TypeInv == TypeOK /\ ReconcileDefinite

LEMMA TypeInvInit == Init => TypeInv
BY WalletOutboxAssumption
DEF Init, TypeInv, TypeOK, ReconcileDefinite, NoTicket, Absent, TicketRecord, OutboxRecord, Status, Job, Answer

LEMMA TypeInvStep == TypeInv /\ [Next]_vars => TypeInv'
<1> SUFFICES ASSUME TypeInv, [Next]_vars PROVE TypeInv'
  OBVIOUS
<1> USE DEF TypeInv
<1> \A r \in Row : ticket \in [Ticket -> TicketRecord] /\ outbox[r] \in OutboxRecord /\ r # NoRow
  BY WalletOutboxAssumption DEF TypeOK
<1>1. ASSUME NEW t \in Ticket, ConfirmExternalWalletTicket(t) PROVE TypeInv'
  <2>1. FreshRow \in OutboxRecord
    BY DEF FreshRow, Absent, OutboxRecord, Status
  <2>2. [ticket[t] EXCEPT !.status = "PENDING_FUNDING"] \in TicketRecord
    BY DEF TypeOK, TicketRecord
  <2>3. QED
    BY <1>1, <2>1, <2>2
    DEF ConfirmExternalWalletTicket, TypeOK, ReconcileDefinite, workerVars, walletVars
<1>2. ASSUME NEW t \in Ticket, NEW won \in BOOLEAN, SettleTicket(t, won) PROVE TypeInv'
  <2>1. FreshRow \in OutboxRecord
    BY DEF FreshRow, Absent, OutboxRecord, Status
  <2>2. [ticket[t] EXCEPT !.status = "SETTLED",
                          !.settlement = IF won THEN "WON" ELSE "LOST",
                          !.payout = IF won THEN "PENDING" ELSE "NO_WIN"] \in TicketRecord
    BY DEF TypeOK, TicketRecord
  <2>3. outbox' \in [Row -> OutboxRecord]
    BY <1>2, <2>1 DEF SettleTicket, TypeOK
  <2>4. ticket' \in [Ticket -> TicketRecord]
    BY <1>2, <2>2 DEF SettleTicket, TypeOK
  <2>5. QED
    BY <1>2, <2>3, <2>4 DEF SettleTicket, TypeOK, ReconcileDefinite, workerVars, walletVars
<1>3. ASSUME NEW r \in Row, NEW next \in Status, Transition(r, next) PROVE TypeInv'
  BY <1>3, FinalStatusType, TouchedCutoffsType
  DEF Transition, TypeOK, ReconcileDefinite, walletVars
<1>4. ASSUME NEW r \in Row, BackoffElapses(r) PROVE TypeInv'
  <2>1. [outbox[r] EXCEPT !.waiting = FALSE] \in OutboxRecord
    BY DEF OutboxRecord
  <2>2. QED
    BY <1>4, <2>1 DEF BackoffElapses, TypeOK, ReconcileDefinite, workerVars, walletVars
<1>5. ASSUME NEW r \in Row, LeaseTimesOut(r) PROVE TypeInv'
  <2>1. [outbox[r] EXCEPT !.leased = FALSE] \in OutboxRecord
    BY DEF OutboxRecord
  <2>2. QED
    BY <1>5, <2>1 DEF LeaseTimesOut, TypeOK, ReconcileDefinite, workerVars, walletVars
<1>6. ASSUME NEW w \in Worker, NEW S \in SUBSET Row, claimDuePendingRows(w, S) PROVE TypeInv'
  <2>1. \A r \in Row : Written(outbox[r], "PROCESSING") \in OutboxRecord
    BY WrittenType DEF Status
  <2>2. QED
    BY <1>6, <2>1, StartRunType, TouchedCutoffsType
    DEF claimDuePendingRows, StartRun, TypeOK, ReconcileDefinite, walletVars, Job
<1>7. ASSUME NEW w \in Worker, NEW S \in SUBSET Row, SelectStale(w, S) PROVE TypeInv'
  BY <1>7, StartRunType
  DEF SelectStale, StartRun, TypeOK, ReconcileDefinite, dbVars, walletVars, Job
<1>8. ASSUME NEW w \in Worker, NEW S \in SUBSET Row, lockUnknownRows(w, S) PROVE TypeInv'
  BY <1>8, StartRunType
  DEF lockUnknownRows, StartRun, TypeOK, ReconcileDefinite, dbVars, walletVars, Job
<1>9. ASSUME NEW w \in Worker, NEW r \in Row, CallWallet(w, r) PROVE TypeInv'
  BY <1>9 DEF CallWallet, TypeOK, ReconcileDefinite, dbVars, Answer
<1>10. ASSUME NEW w \in Worker, ApplyAnswer(w) PROVE TypeInv'
  <2>1. cur[w] \in Row /\ NextInRun(w, cur[w])
    BY <1>10 DEF ApplyAnswer, TypeOK
  <2>2. ans[w] # "RETRYABLE" => ans[w] \in Status
    BY DEF TypeOK, Answer, Status
  <2>3. /\ ticket' \in [Ticket -> TicketRecord]
        /\ outbox' \in [Row -> OutboxRecord]
        /\ cutoff' \in [Worker -> SUBSET Row]
    <3>1. CASE UNCHANGED <<dbVars, cutoff>>
      BY <3>1 DEF dbVars, TypeOK
    <3>2. CASE scheduleRetryOrFail(cur[w]) /\ cutoff' = TouchedCutoffs({cur[w]})
      BY <3>2, <2>1, RetryType, TouchedCutoffsType
    <3>3. CASE ans[w] # "RETRYABLE" /\ applyFinalStatus(cur[w], ans[w]) /\ cutoff' = TouchedCutoffs({cur[w]})
      BY <3>3, <2>1, <2>2, FinalStatusType, TouchedCutoffsType
    <3>4. QED
      BY <1>10, <3>1, <3>2, <3>3 DEF ApplyAnswer
  <2>4. QED
    BY <1>10, <2>1, <2>3, NextInRunType
    DEF ApplyAnswer, NextInRun, TypeOK, ReconcileDefinite, walletVars
<1>11. ASSUME NEW w \in Worker, NEW r \in Row, RecoverRow(w, r) PROVE TypeInv'
  <2>1. /\ ticket' \in [Ticket -> TicketRecord]
        /\ outbox' \in [Row -> OutboxRecord]
        /\ cutoff' \in [Worker -> SUBSET Row]
    <3>1. CASE scheduleRetryOrFail(r) /\ cutoff' = TouchedCutoffs({r})
      BY <3>1, RetryType, TouchedCutoffsType
    <3>2. CASE cutoff' = [cutoff EXCEPT ![w] = @ \ {r}] /\ UNCHANGED dbVars
      BY <3>2 DEF dbVars, TypeOK
    <3>3. QED
      BY <1>11, <3>1, <3>2 DEF RecoverRow
  <2>2. QED
    BY <1>11, <2>1, NextInRunType
    DEF RecoverRow, NextInRun, TypeOK, ReconcileDefinite, walletVars
<1>12. ASSUME NEW w \in Worker, NEW r \in Row, ReconcileCall(w, r) PROVE TypeInv'
  BY <1>12 DEF ReconcileCall, TypeOK, ReconcileDefinite, dbVars, walletVars, Answer, terminalStatuses
<1>13. ASSUME NEW w \in Worker, NEW r \in Row, ReconcileUnknown(w, r) PROVE TypeInv'
  BY <1>13, NextInRunType DEF ReconcileUnknown, NextInRun, TypeOK, ReconcileDefinite, dbVars, walletVars
<1>14. ASSUME NEW w \in Worker, ReconcileThrows(w) PROVE TypeInv'
  BY <1>14, EndRunType DEF ReconcileThrows, EndRun, TypeOK, ReconcileDefinite, dbVars, walletVars
<1>15. ASSUME NEW w \in Worker, ReconcileApply(w) PROVE TypeInv'
  <2>1. cur[w] \in Row /\ NextInRun(w, cur[w]) /\ ans[w] \in Status
    BY <1>15 DEF ReconcileApply, TypeOK, ReconcileDefinite, terminalStatuses, Status
  <2>2. /\ ticket' \in [Ticket -> TicketRecord]
        /\ outbox' \in [Row -> OutboxRecord]
        /\ cutoff' \in [Worker -> SUBSET Row]
    <3>1. CASE applyFinalStatus(cur[w], ans[w]) /\ cutoff' = TouchedCutoffs({cur[w]})
      BY <3>1, <2>1, FinalStatusType, TouchedCutoffsType
    <3>2. CASE UNCHANGED <<dbVars, cutoff>>
      BY <3>2 DEF dbVars, TypeOK
    <3>3. QED
      BY <1>15, <3>1, <3>2 DEF ReconcileApply
  <2>3. QED
    BY <1>15, <2>1, <2>2, NextInRunType
    DEF ReconcileApply, NextInRun, TypeOK, ReconcileDefinite, walletVars
<1>16. ASSUME NEW w \in Worker, Crash(w) PROVE TypeInv'
  <2>1. crashes' \in Nat
    BY <1>16 DEF Crash, TypeOK
  <2>2. TypeOK'
    BY <1>16, <2>1, EndRunType DEF Crash, TypeOK, dbVars, walletVars
  <2>3. ReconcileDefinite'
    BY <1>16 DEF Crash, EndRun, TypeOK, ReconcileDefinite
  <2>4. QED
    BY <2>2, <2>3
<1>17. CASE UNCHANGED vars
  BY <1>17 DEF vars, TypeOK, ReconcileDefinite
<1>18. QED
  BY <1>1, <1>2, <1>3, <1>4, <1>5, <1>6, <1>7, <1>8, <1>9, <1>10, <1>11, <1>12, <1>13, <1>14, <1>15, <1>16, <1>17
  DEF Next, WorkerStep

(* TypeOK is an invariant of the outbox (the type invariant the runs check).  *)
THEOREM TypeCorrect == Spec => []TypeOK
<1>1. TypeInv => TypeOK
  BY DEF TypeInv
<1>2. QED
  BY TypeInvInit, TypeInvStep, <1>1, PTL DEF Spec
-----------------------------------------------------------------------------
(* What a step may do to the two tables, whoever takes it.                    *)

ClaimRows(S) ==
  /\ \A r \in S : outbox[r].status = "PENDING"
  /\ outbox' = [r \in Row |-> IF r \in S THEN Written(outbox[r], "PROCESSING") ELSE outbox[r]]
  /\ ticket' = ticket

FinishRow(r, next) ==
  /\ outbox[r].status \in Status \ {next}
  /\ assertAllowedTransition(outbox[r].status, next)
  /\ applyFinalStatus(r, next)

RetryRow(r) == outbox[r].status = "PROCESSING" /\ scheduleRetryOrFail(r)

SameStatuses ==
  /\ ticket' = ticket
  /\ \A r \in Row : /\ outbox'[r].status = outbox[r].status
                    /\ outbox'[r].retry_count = outbox[r].retry_count

TableStep ==
  \/ \E t \in Ticket : ConfirmExternalWalletTicket(t)
  \/ \E t \in Ticket, won \in BOOLEAN : SettleTicket(t, won)
  \/ \E S \in SUBSET Row : ClaimRows(S)
  \/ \E r \in Row, next \in Status \ {"PENDING"} : FinishRow(r, next)
  \/ \E r \in Row : RetryRow(r)
  \/ SameStatuses

(* Every step of the system is one of these six.                              *)
LEMMA StepsAreTableSteps == TypeInv /\ [Next]_vars => TableStep
<1> SUFFICES ASSUME TypeInv, [Next]_vars PROVE TableStep
  OBVIOUS
<1> USE DEF TypeInv
<1>0. UNCHANGED dbVars => TableStep
  BY DEF dbVars, TableStep, SameStatuses
<1>1. ASSUME NEW r \in Row, NEW next \in Status, Transition(r, next) PROVE TableStep
  <2>1. next # "PENDING"
    BY <1>1, WalletOutboxAssumption DEF Transition
  <2>2. FinishRow(r, next)
    BY <1>1 DEF Transition, FinishRow
  <2>3. QED
    BY <2>1, <2>2 DEF TableStep
<1>2. ASSUME NEW r \in Row, BackoffElapses(r) \/ LeaseTimesOut(r) PROVE TableStep
  <2>1. SameStatuses
    BY <1>2 DEF BackoffElapses, LeaseTimesOut, SameStatuses, TypeOK, OutboxRecord
  <2>2. QED
    BY <2>1 DEF TableStep
<1>3. ASSUME NEW w \in Worker, NEW S \in SUBSET Row, claimDuePendingRows(w, S) PROVE TableStep
  <2>1. ClaimRows(S)
    BY <1>3 DEF claimDuePendingRows, Batch, IsDue, ClaimRows
  <2>2. QED
    BY <2>1 DEF TableStep
<1>4. ASSUME NEW w \in Worker, ApplyAnswer(w) PROVE TableStep
  <2>1. cur[w] \in Row /\ ans[w] \in Answer
    BY <1>4 DEF ApplyAnswer, TypeOK
  <2>2. CASE AnswerStillCounts(cur[w]) /\ ans[w] = "RETRYABLE" /\ scheduleRetryOrFail(cur[w])
    <3>1. RetryRow(cur[w])
      BY <2>2 DEF AnswerStillCounts, RetryRow
    <3>2. QED
      BY <2>1, <3>1 DEF TableStep
  <2>3. CASE AnswerStillCounts(cur[w]) /\ ans[w] # "RETRYABLE" /\ applyFinalStatus(cur[w], ans[w])
    <3>1. ans[w] \in Status \ {"PENDING"}
      BY <2>1, <2>3 DEF Answer, Status
    <3>2. FinishRow(cur[w], ans[w])
      BY <2>1, <2>3 DEF AnswerStillCounts, FinishRow, assertAllowedTransition, terminalStatuses, Answer, Status
    <3>3. QED
      BY <2>1, <3>1, <3>2 DEF TableStep
  <2>4. QED
    BY <1>0, <1>4, <2>2, <2>3 DEF ApplyAnswer
<1>5. ASSUME NEW w \in Worker, NEW r \in Row, RecoverRow(w, r) PROVE TableStep
  <2>1. CASE StillStale(w, r) /\ scheduleRetryOrFail(r)
    BY <2>1 DEF StillStale, RetryRow, TableStep
  <2>2. QED
    BY <1>0, <1>5, <2>1 DEF RecoverRow
<1>6. ASSUME NEW w \in Worker, ReconcileApply(w) PROVE TableStep
  <2>1. cur[w] \in Row /\ ans[w] \in terminalStatuses
    BY <1>6 DEF ReconcileApply, TypeOK, ReconcileDefinite
  <2>2. CASE StillUnknown(cur[w]) /\ applyFinalStatus(cur[w], ans[w])
    <3>1. ans[w] \in Status \ {"PENDING"}
      BY <2>1 DEF terminalStatuses, Status
    <3>2. FinishRow(cur[w], ans[w])
      BY <2>1, <2>2 DEF StillUnknown, FinishRow, assertAllowedTransition, terminalStatuses, Status
    <3>3. QED
      BY <2>1, <3>1, <3>2 DEF TableStep
  <2>3. QED
    BY <1>0, <1>6, <2>2 DEF ReconcileApply
<1>7. ASSUME NEW w \in Worker, NEW S \in SUBSET Row, SelectStale(w, S) \/ lockUnknownRows(w, S) PROVE TableStep
  BY <1>0, <1>7 DEF SelectStale, lockUnknownRows
<1>8. ASSUME NEW w \in Worker, NEW r \in Row,
             CallWallet(w, r) \/ ReconcileCall(w, r) \/ ReconcileUnknown(w, r) PROVE TableStep
  BY <1>0, <1>8 DEF CallWallet, ReconcileCall, ReconcileUnknown
<1>9. ASSUME NEW w \in Worker, ReconcileThrows(w) \/ Crash(w) PROVE TableStep
  BY <1>0, <1>9 DEF ReconcileThrows, Crash
<1>10. CASE UNCHANGED vars
  BY <1>0, <1>10 DEF vars, dbVars
<1>11. ASSUME NEW t \in Ticket, NEW won \in BOOLEAN,
              ConfirmExternalWalletTicket(t) \/ SettleTicket(t, won) PROVE TableStep
  BY <1>11 DEF TableStep
<1>12. QED
  BY <1>1, <1>2, <1>3, <1>4, <1>5, <1>6, <1>7, <1>8, <1>9, <1>10, <1>11 DEF Next, WorkerStep

(* The next row and ticket under a finish or a retry, for every row.          *)
LEMMA FinishRowEffect ==
  ASSUME TypeInv, NEW r \in Row, NEW next \in Status, FinishRow(r, next)
  PROVE  /\ outbox'[r].status = next
         /\ outbox'[r].retry_count = outbox[r].retry_count
         /\ \A q \in Row \ {r} : outbox'[q] = outbox[q]
<1>1. outbox[r] \in OutboxRecord
  BY DEF TypeInv, TypeOK
<1>2. outbox' = [outbox EXCEPT ![r] = [Written(@, next) EXCEPT !.waiting = FALSE]]
  BY DEF FinishRow, applyFinalStatus
<1>3. QED
  BY <1>1, <1>2, WrittenType DEF TypeInv, TypeOK

LEMMA RetryRowEffect ==
  ASSUME TypeInv, NEW r \in Row, RetryRow(r)
  PROVE  /\ outbox'[r] = Retried(outbox[r])
         /\ outbox[r] \in OutboxRecord
         /\ \A q \in Row \ {r} : outbox'[q] = outbox[q]
BY DEF TypeInv, TypeOK, RetryRow, scheduleRetryOrFail
-----------------------------------------------------------------------------
LEMMA RetryBoundInit == Init => RetryBound
BY WalletOutboxAssumption DEF Init, RetryBound, Absent

LEMMA RetryBoundStep == TypeInv /\ RetryBound /\ TableStep => RetryBound'
<1> SUFFICES ASSUME TypeInv, RetryBound, TableStep PROVE RetryBound'
  OBVIOUS
<1>0. \A r \in Row : outbox[r] \in OutboxRecord
  BY DEF TypeInv, TypeOK
<1>1. ASSUME NEW t \in Ticket, ConfirmExternalWalletTicket(t) PROVE RetryBound'
  <2>1. FreshRow.retry_count = 0
    BY DEF FreshRow, Absent
  <2>2. QED
    BY <1>1, <2>1, WalletOutboxAssumption DEF ConfirmExternalWalletTicket, RetryBound, TypeInv, TypeOK
<1>2. ASSUME NEW t \in Ticket, NEW won \in BOOLEAN, SettleTicket(t, won) PROVE RetryBound'
  <2>1. FreshRow.retry_count = 0
    BY DEF FreshRow, Absent
  <2>2. \A r \in Row : outbox'[r] \in {outbox[r], FreshRow}
    BY <1>2 DEF SettleTicket, TypeInv, TypeOK
  <2>3. QED
    BY <2>1, <2>2, WalletOutboxAssumption DEF RetryBound
<1>3. ASSUME NEW S \in SUBSET Row, ClaimRows(S) PROVE RetryBound'
  <2>1. ASSUME NEW r \in Row
        PROVE  /\ outbox'[r].retry_count = outbox[r].retry_count
               /\ outbox'[r].status = outbox[r].status \/ outbox[r].status = "PENDING"
    BY <1>0, <1>3, WrittenType DEF ClaimRows, Status
  <2>2. QED
    BY <2>1 DEF RetryBound
<1>4. ASSUME NEW r \in Row, NEW next \in Status \ {"PENDING"}, FinishRow(r, next) PROVE RetryBound'
  <2>1. next = "PROCESSING" => outbox[r].status = "PENDING"
    BY <1>4 DEF FinishRow, assertAllowedTransition, terminalStatuses, Status
  <2>2. QED
    BY <1>4, <2>1, FinishRowEffect DEF RetryBound
<1>5. ASSUME NEW r \in Row, RetryRow(r) PROVE RetryBound'
  <2>1. outbox[r].retry_count \in Nat /\ outbox[r].retry_count < MaxRetries
    BY <1>0, <1>5 DEF RetryRow, RetryBound, OutboxRecord
  <2>2. /\ outbox'[r].retry_count <= MaxRetries
        /\ outbox'[r].status = "PENDING" => outbox'[r].retry_count < MaxRetries
        /\ outbox'[r].status # "PROCESSING"
    BY <1>5, <2>1, RetryRowEffect, RetriedType, WalletOutboxAssumption
  <2>3. QED
    BY <1>5, <2>2, RetryRowEffect DEF RetryBound
<1>6. CASE SameStatuses
  BY <1>6 DEF SameStatuses, RetryBound
<1>7. QED
  BY <1>1, <1>2, <1>3, <1>4, <1>5, <1>6 DEF TableStep

(* A queued row always has a retry left, whatever maxRetries is.              *)
THEOREM RetriesBounded == Spec => []RetryBound
BY TypeInvInit, TypeInvStep, StepsAreTableSteps, RetryBoundInit, RetryBoundStep, PTL DEF Spec
-----------------------------------------------------------------------------
(* A finish and a retry both move one row along an allowed transition and     *)
(* show the new status on its ticket.                                         *)
RowMoves(r, next) ==
  /\ outbox[r].status \in Status \ {next}
  /\ assertAllowedTransition(outbox[r].status, next)
  /\ updateRelatedTicket(r, next)
  /\ outbox'[r].status = next
  /\ \A q \in Row \ {r} : outbox'[q] = outbox[q]

LEMMA FinishMovesRow ==
  ASSUME TypeInv, NEW r \in Row, NEW next \in Status, FinishRow(r, next)
  PROVE  RowMoves(r, next)
BY FinishRowEffect DEF FinishRow, applyFinalStatus, RowMoves

LEMMA RetryMovesRow ==
  ASSUME TypeInv, NEW r \in Row, RetryRow(r)
  PROVE  \E next \in Status : RowMoves(r, next)
<1> DEFINE next == Retried(outbox[r]).status
<1>1. next \in {"PENDING", "FAILED"}
  BY RetryRowEffect, RetriedType, WalletOutboxAssumption
<1>2. /\ outbox[r].status \in Status \ {next}
      /\ assertAllowedTransition(outbox[r].status, next)
  BY <1>1 DEF RetryRow, assertAllowedTransition, terminalStatuses, Status
<1>3. RowMoves(r, next)
  BY <1>2, RetryRowEffect DEF RetryRow, scheduleRetryOrFail, RowMoves
<1>4. next \in Status
  BY <1>1 DEF Status
<1>5. QED
  BY <1>3, <1>4

LEMMA NoTicketAbsent == NoTicket.status = "ABSENT"
BY DEF NoTicket

LEMMA MirrorsInit == Init => TicketMirrorsOutbox
BY DEF Init, TicketMirrorsOutbox, DebitMirrored, CreditMirrored, StatusOf, NoTicket, Absent, Row

(* Moving a row keeps the mirror of every ticket: of its own, by what         *)
(* updateRelatedTicket writes, and of the others, which it does not touch.    *)
LEMMA MirrorsRowMoves ==
  ASSUME TypeInv, TicketMirrorsOutbox, NEW r \in Row, NEW next \in Status, RowMoves(r, next),
         NEW t \in Ticket
  PROVE  DebitMirrored(t)' /\ CreditMirrored(t)'
<1>0. /\ ticket[t] \in TicketRecord
      /\ DebitMirrored(t) /\ CreditMirrored(t)
      /\ <<t, Debit>> \in Row /\ <<t, Credit>> \in Row
      /\ Debit # Credit
  BY DEF TypeInv, TypeOK, TicketMirrorsOutbox, Row, Debit, Credit
<1>1. CASE r = <<t, Debit>>
  <2>1. /\ StatusOf(t, Debit)' = next
        /\ StatusOf(t, Credit)' = StatusOf(t, Credit)
        /\ ticket'[t] = DebitOnTicket(ticket[t], next)
    BY <1>0, <1>1 DEF RowMoves, updateRelatedTicket, StatusOf, TypeInv, TypeOK
  <2>2. /\ StatusOf(t, Debit) \in Status \ (terminalStatuses \union {next})
        /\ StatusOf(t, Debit) = "UNKNOWN" => next \in terminalStatuses
    BY <1>1 DEF RowMoves, assertAllowedTransition, StatusOf
  <2>3. ticket[t].status = "PENDING_FUNDING" /\ ticket[t].settlement = "PENDING"
    BY <1>0, <2>2 DEF DebitMirrored, CreditMirrored, terminalStatuses, Status
  <2>4. CASE next = "SUCCEEDED"
    <3>1. ticket'[t] = [ticket[t] EXCEPT !.funding = "SUCCEEDED", !.status = "CONFIRMED"]
      BY <2>1, <2>4 DEF DebitOnTicket
    <3>2. /\ ticket'[t].status = "CONFIRMED" /\ ticket'[t].funding = "SUCCEEDED"
          /\ ticket'[t].settlement = ticket[t].settlement /\ ticket'[t].payout = ticket[t].payout
      BY <1>0, <3>1 DEF TicketRecord
    <3>3. DebitMirrored(t)'
      BY <2>1, <2>4, <3>2, NoTicketAbsent DEF DebitMirrored
    <3>4. CreditMirrored(t)'
      BY <1>0, <2>1, <2>3, <3>2 DEF CreditMirrored
    <3>5. QED
      BY <3>3, <3>4
  <2>5. CASE next = "FAILED"
    <3>1. ticket'[t] = [ticket[t] EXCEPT !.funding = "FAILED", !.status = "REJECTED"]
      BY <2>1, <2>5 DEF DebitOnTicket
    <3>2. /\ ticket'[t].status = "REJECTED" /\ ticket'[t].funding = "FAILED"
          /\ ticket'[t].settlement = ticket[t].settlement /\ ticket'[t].payout = ticket[t].payout
      BY <1>0, <3>1 DEF TicketRecord
    <3>3. DebitMirrored(t)'
      BY <2>1, <2>5, <3>2, NoTicketAbsent DEF DebitMirrored
    <3>4. CreditMirrored(t)'
      BY <1>0, <2>1, <2>3, <3>2 DEF CreditMirrored
    <3>5. QED
      BY <3>3, <3>4
  <2>6. CASE next = "UNKNOWN"
    BY <1>0, <2>1, <2>3, <2>6
    DEF DebitOnTicket, DebitMirrored, CreditMirrored, TicketRecord, NoTicket, StatusOf
  <2>7. CASE next \in {"PENDING", "PROCESSING"}
    <3>1. ticket'[t] = ticket[t] /\ StatusOf(t, Debit) \in {"PENDING", "PROCESSING"}
      BY <2>1, <2>2, <2>7 DEF DebitOnTicket, terminalStatuses, Status
    <3>2. QED
      BY <1>0, <2>1, <2>7, <3>1 DEF DebitMirrored, CreditMirrored, StatusOf
  <2>8. QED
    BY <2>4, <2>5, <2>6, <2>7 DEF Status
<1>2. CASE r = <<t, Credit>>
  <2>1. /\ StatusOf(t, Credit)' = next
        /\ StatusOf(t, Debit)' = StatusOf(t, Debit)
        /\ ticket'[t] = CreditOnTicket(ticket[t], next)
    BY <1>0, <1>2 DEF RowMoves, updateRelatedTicket, StatusOf, TypeInv, TypeOK
  <2>2. /\ StatusOf(t, Credit) \in Status \ (terminalStatuses \union {next})
        /\ StatusOf(t, Credit) = "UNKNOWN" => next \in terminalStatuses
    BY <1>2 DEF RowMoves, assertAllowedTransition, StatusOf
  <2>3. ticket[t].status = "SETTLED" /\ ticket[t].settlement = "WON"
    BY <1>0, <2>2 DEF CreditMirrored, Status
  <2>4. CASE next \in {"SUCCEEDED", "FAILED", "UNKNOWN"}
    BY <1>0, <2>1, <2>3, <2>4
    DEF CreditOnTicket, DebitMirrored, CreditMirrored, TicketRecord, NoTicket, StatusOf
  <2>5. CASE next \in {"PENDING", "PROCESSING"}
    <3>1. ticket'[t] = ticket[t] /\ StatusOf(t, Credit) \in {"PENDING", "PROCESSING"}
      BY <2>1, <2>2, <2>5 DEF CreditOnTicket, terminalStatuses, Status
    <3>2. QED
      BY <1>0, <2>1, <2>5, <3>1 DEF DebitMirrored, CreditMirrored, StatusOf
  <2>6. QED
    BY <2>4, <2>5 DEF Status
<1>3. CASE r[1] # t
  <2>1. ticket'[t] = ticket[t]
    BY <1>3 DEF RowMoves, updateRelatedTicket, TypeInv, TypeOK
  <2>2. outbox'[<<t, Debit>>] = outbox[<<t, Debit>>] /\ outbox'[<<t, Credit>>] = outbox[<<t, Credit>>]
    BY <1>0, <1>3 DEF RowMoves
  <2>3. QED
    BY <1>0, <2>1, <2>2 DEF DebitMirrored, CreditMirrored, StatusOf
<1>4. QED
  BY <1>1, <1>2, <1>3 DEF Row

LEMMA MirrorsStep == TypeInv /\ TicketMirrorsOutbox /\ TableStep => TicketMirrorsOutbox'
<1> SUFFICES ASSUME TypeInv, TicketMirrorsOutbox, TableStep, NEW t \in Ticket
             PROVE  DebitMirrored(t)' /\ CreditMirrored(t)'
  BY DEF TicketMirrorsOutbox
<1>0. /\ ticket[t] \in TicketRecord
      /\ DebitMirrored(t) /\ CreditMirrored(t)
      /\ <<t, Debit>> \in Row /\ <<t, Credit>> \in Row
      /\ \A r \in Row : outbox[r] \in OutboxRecord
      /\ Debit # Credit
  BY DEF TypeInv, TypeOK, TicketMirrorsOutbox, Row, Debit, Credit
<1>1. ASSUME NEW u \in Ticket, ConfirmExternalWalletTicket(u)
      PROVE  DebitMirrored(t)' /\ CreditMirrored(t)'
  <2>1. StatusOf(t, Credit)' = StatusOf(t, Credit)
    BY <1>0, <1>1 DEF ConfirmExternalWalletTicket, StatusOf, TypeInv, TypeOK
  <2>2. CASE u = t
    <3>1. StatusOf(t, Debit)' = "PENDING"
      BY <1>0, <1>1, <2>2 DEF ConfirmExternalWalletTicket, StatusOf, FreshRow, Absent, TypeInv, TypeOK
    <3>2. ticket[t] = NoTicket /\ ticket'[t] = [NoTicket EXCEPT !.status = "PENDING_FUNDING"]
      BY <1>0, <1>1, <2>2 DEF ConfirmExternalWalletTicket, TypeInv, TypeOK
    <3>3. QED
      BY <1>0, <2>1, <3>1, <3>2 DEF DebitMirrored, CreditMirrored, NoTicket, StatusOf
  <2>3. CASE u # t
    <3>1. ticket'[t] = ticket[t] /\ StatusOf(t, Debit)' = StatusOf(t, Debit)
      BY <1>0, <1>1, <2>3 DEF ConfirmExternalWalletTicket, StatusOf, TypeInv, TypeOK
    <3>2. QED
      BY <1>0, <2>1, <3>1 DEF DebitMirrored, CreditMirrored, StatusOf
  <2>4. QED
    BY <2>2, <2>3
<1>2. ASSUME NEW u \in Ticket, NEW won \in BOOLEAN, SettleTicket(u, won)
      PROVE  DebitMirrored(t)' /\ CreditMirrored(t)'
  <2>1. StatusOf(t, Debit)' = StatusOf(t, Debit)
    BY <1>0, <1>2 DEF SettleTicket, StatusOf, TypeInv, TypeOK
  <2>2. CASE u = t
    <3>1. /\ ticket[t].status = "CONFIRMED"
          /\ StatusOf(t, Debit) = "SUCCEEDED"
          /\ StatusOf(t, Credit) = "ABSENT"
      BY <1>0, <1>2, <2>2 DEF SettleTicket, isEligibleTicket, StatusOf, CreditMirrored
    <3>2. ticket'[t] = [ticket[t] EXCEPT !.status = "SETTLED",
                                         !.settlement = IF won THEN "WON" ELSE "LOST",
                                         !.payout = IF won THEN "PENDING" ELSE "NO_WIN"]
      BY <1>2, <2>2 DEF SettleTicket, TypeInv, TypeOK
    <3>3. StatusOf(t, Credit)' = IF won THEN "PENDING" ELSE "ABSENT"
      BY <1>0, <1>2, <2>2, <3>1 DEF SettleTicket, StatusOf, FreshRow, Absent, TypeInv, TypeOK
    <3>4. /\ ticket'[t].status = "SETTLED" /\ ticket'[t].funding = ticket[t].funding
          /\ ticket'[t].settlement = IF won THEN "WON" ELSE "LOST"
          /\ ticket'[t].payout = IF won THEN "PENDING" ELSE "NO_WIN"
      BY <1>0, <3>2 DEF TicketRecord
    <3>5. DebitMirrored(t)'
      BY <1>0, <2>1, <3>1, <3>4, NoTicketAbsent DEF DebitMirrored
    <3>6. CreditMirrored(t)'
      BY <3>3, <3>4 DEF CreditMirrored
    <3>7. QED
      BY <3>5, <3>6
  <2>3. CASE u # t
    <3>1. ticket'[t] = ticket[t] /\ StatusOf(t, Credit)' = StatusOf(t, Credit)
      BY <1>0, <1>2, <2>3 DEF SettleTicket, StatusOf, TypeInv, TypeOK
    <3>2. QED
      BY <1>0, <2>1, <3>1 DEF DebitMirrored, CreditMirrored, StatusOf
  <2>4. QED
    BY <2>2, <2>3
<1>3. ASSUME NEW S \in SUBSET Row, ClaimRows(S)
      PROVE  DebitMirrored(t)' /\ CreditMirrored(t)'
  <2>1. /\ ticket'[t] = ticket[t]
        /\ \A r \in Row : \/ outbox'[r].status = outbox[r].status
                          \/ outbox[r].status = "PENDING" /\ outbox'[r].status = "PROCESSING"
    BY <1>0, <1>3, WrittenType DEF ClaimRows, Status
  <2>2. QED
    BY <1>0, <2>1 DEF DebitMirrored, CreditMirrored, StatusOf
<1>4. CASE SameStatuses
  BY <1>0, <1>4 DEF SameStatuses, DebitMirrored, CreditMirrored, StatusOf
<1>5. QED
  BY <1>1, <1>2, <1>3, <1>4, FinishMovesRow, RetryMovesRow, MirrorsRowMoves DEF TableStep

(* A ticket always says of its money what its two outbox rows say.            *)
THEOREM TicketsMirrorRows == Spec => []TicketMirrorsOutbox
BY TypeInvInit, TypeInvStep, StepsAreTableSteps, MirrorsInit, MirrorsStep, PTL DEF Spec

(* Asking the two outbox rows and asking the ticket decide alike whether a    *)
(* ticket may be settled.                                                     *)
LEMMA MirrorsAgree == TypeInv /\ TicketMirrorsOutbox => EligibilityAgrees
<1> SUFFICES ASSUME TypeInv, TicketMirrorsOutbox, NEW t \in Ticket
             PROVE  isEligibleTicket(t) <=> isTicketEligibleForSettlement(ticket[t])
  BY DEF EligibilityAgrees
<1>1. /\ outbox[<<t, Debit>>].status \in Status \union {"ABSENT"}
      /\ ticket[t].funding \in {"PENDING", "SUCCEEDED", "FAILED", "UNKNOWN"}
  BY DEF TypeInv, TypeOK, Row, OutboxRecord, TicketRecord
<1>2. DebitMirrored(t)
  BY DEF TicketMirrorsOutbox
<1>3. QED
  BY <1>1, <1>2, NoTicketAbsent
  DEF DebitMirrored, StatusOf, isEligibleTicket, isTicketEligibleForSettlement, Status

THEOREM EligibilitiesAgree == Spec => []EligibilityAgrees
BY TypeInvInit, TypeInvStep, StepsAreTableSteps, MirrorsInit, MirrorsStep, MirrorsAgree, PTL DEF Spec
-----------------------------------------------------------------------------
(* What a step may do to the workers and the wallet, whoever takes it.        *)

Starts(w, kind, S) ==
  /\ StartRun(w, kind, S)
  /\ \A r \in S : outbox[r].status # "ABSENT"
  /\ kind = "process" => ClaimRows(S)
  /\ kind = "reconcile" => \A r \in S : outbox[r].status = "UNKNOWN"
  /\ UNCHANGED <<cur, ans, walletVars>>

Calls(w, r) == CallWallet(w, r) /\ UNCHANGED dbVars

Finishes(w, r) ==
  /\ job[w] = "process" => r = cur[w]
  /\ NextInRun(w, r)
  /\ UNCHANGED walletVars

Ends(w) == EndRun(w) /\ UNCHANGED walletVars

Elsewhere == UNCHANGED <<job, todo, cur, ans, walletVars>>

WorkersStep ==
  \/ \E w \in Worker, kind \in Job, S \in SUBSET Row : Starts(w, kind, S)
  \/ \E w \in Worker, r \in Row : Calls(w, r) \/ ReconcileCall(w, r) \/ Finishes(w, r)
  \/ \E w \in Worker : Ends(w)
  \/ Elsewhere

(* Every step of the system is one of these six.                              *)
LEMMA StepsAreWorkersSteps == TypeInv /\ [Next]_vars => WorkersStep
<1> SUFFICES ASSUME TypeInv, [Next]_vars PROVE WorkersStep
  OBVIOUS
<1> USE DEF WorkersStep
<1>1. ASSUME NEW t \in Ticket,
             \/ ConfirmExternalWalletTicket(t)
             \/ \E won \in BOOLEAN : SettleTicket(t, won) PROVE WorkersStep
  BY <1>1 DEF ConfirmExternalWalletTicket, SettleTicket, Elsewhere, workerVars, walletVars
<1>2. ASSUME NEW r \in Row,
             \/ \E next \in Status : Transition(r, next)
             \/ BackoffElapses(r) \/ LeaseTimesOut(r) PROVE WorkersStep
  BY <1>2 DEF Transition, BackoffElapses, LeaseTimesOut, Elsewhere, workerVars, walletVars
<1>3. ASSUME NEW w \in Worker, NEW S \in SUBSET Row, claimDuePendingRows(w, S) PROVE WorkersStep
  <2>1. Starts(w, "process", S)
    BY <1>3 DEF claimDuePendingRows, Batch, IsDue, Starts, ClaimRows
  <2>2. QED
    BY <2>1 DEF Job
<1>4. ASSUME NEW w \in Worker, NEW S \in SUBSET Row, SelectStale(w, S) PROVE WorkersStep
  <2>1. Starts(w, "recover", S)
    BY <1>4 DEF SelectStale, Batch, IsStale, Starts
  <2>2. QED
    BY <2>1 DEF Job
<1>5. ASSUME NEW w \in Worker, NEW S \in SUBSET Row, lockUnknownRows(w, S) PROVE WorkersStep
  <2>1. Starts(w, "reconcile", S)
    BY <1>5 DEF lockUnknownRows, Batch, Starts
  <2>2. QED
    BY <2>1 DEF Job
<1>6. ASSUME NEW w \in Worker, NEW r \in Row,
             CallWallet(w, r) \/ ReconcileCall(w, r) PROVE WorkersStep
  BY <1>6 DEF CallWallet, Calls
<1>7. ASSUME NEW w \in Worker, ApplyAnswer(w) \/ ReconcileApply(w) PROVE WorkersStep
  <2>1. cur[w] \in Row
    BY <1>7 DEF ApplyAnswer, ReconcileApply, TypeInv, TypeOK
  <2>2. Finishes(w, cur[w])
    BY <1>7 DEF ApplyAnswer, ReconcileApply, Finishes
  <2>3. QED
    BY <2>1, <2>2
<1>8. ASSUME NEW w \in Worker, NEW r \in Row,
             RecoverRow(w, r) \/ ReconcileUnknown(w, r) PROVE WorkersStep
  <2>1. Finishes(w, r)
    BY <1>8 DEF RecoverRow, ReconcileUnknown, Finishes
  <2>2. QED
    BY <2>1
<1>9. ASSUME NEW w \in Worker, ReconcileThrows(w) \/ Crash(w) PROVE WorkersStep
  <2>1. Ends(w)
    BY <1>9 DEF ReconcileThrows, Crash, Ends
  <2>2. QED
    BY <2>1
<1>10. CASE UNCHANGED vars
  BY <1>10 DEF vars, walletVars, Elsewhere
<1> HIDE DEF WorkersStep
<1>11. QED
  BY <1>1, <1>2, <1>3, <1>4, <1>5, <1>6, <1>7, <1>8, <1>9, <1>10 DEF Next, WorkerStep
-----------------------------------------------------------------------------
(* How many calls a row may cost.  A claim is good for one call, and between  *)
(* two claims of a row there is a retry.                                      *)

Budget(row) ==
  CASE row.status = "ABSENT"  -> 0
    [] row.status = "PENDING" -> row.retry_count
    [] OTHER -> IF row.retry_count < MaxRetries THEN row.retry_count + 1 ELSE MaxRetries

AbsentFresh == \A r \in Row : outbox[r].status = "ABSENT" => outbox[r].retry_count = 0

RowsInv == TypeInv /\ TicketMirrorsOutbox /\ RetryBound /\ AbsentFresh

(* No step takes a row away, undoes a retry or lowers a budget.               *)
LEMMA RowGoesOn ==
  ASSUME RowsInv, TableStep, NEW r \in Row
  PROVE  /\ outbox[r].retry_count <= outbox'[r].retry_count
         /\ outbox'[r].status = "ABSENT" => outbox[r].status = "ABSENT" /\ outbox'[r].retry_count = 0
         /\ Budget(outbox[r]) <= Budget(outbox'[r])
<1> DEFINE GoesOn == /\ outbox[r].retry_count <= outbox'[r].retry_count
                     /\ outbox'[r].status = "ABSENT" =>
                          outbox[r].status = "ABSENT" /\ outbox'[r].retry_count = 0
                     /\ Budget(outbox[r]) <= Budget(outbox'[r])
<1> USE DEF RowsInv
<1>0. /\ outbox[r] \in OutboxRecord /\ outbox[r].retry_count \in Nat
      /\ MaxRetries \in Nat \ {0}
      /\ outbox[r].status \in Status \union {"ABSENT"}
      /\ outbox[r].retry_count <= MaxRetries
      /\ outbox[r].status = "ABSENT" => outbox[r].retry_count = 0
  BY WalletOutboxAssumption DEF TypeInv, TypeOK, OutboxRecord, RetryBound, AbsentFresh
<1>1. outbox'[r] = outbox[r] => GoesOn
  BY <1>0 DEF Budget
<1>2. outbox[r].status = "ABSENT" /\ outbox'[r] = FreshRow => GoesOn
  BY <1>0 DEF Budget, FreshRow, Absent
<1>3. ASSUME NEW t \in Ticket, ConfirmExternalWalletTicket(t) PROVE GoesOn
  <2>1. outbox[<<t, Debit>>].status = "ABSENT"
    BY <1>3 DEF ConfirmExternalWalletTicket, TicketMirrorsOutbox, DebitMirrored, StatusOf
  <2>2. outbox'[r] = IF r = <<t, Debit>> THEN FreshRow ELSE outbox[r]
    BY <1>3 DEF ConfirmExternalWalletTicket, TypeInv, TypeOK
  <2>3. QED
    BY <1>1, <1>2, <2>1, <2>2
<1>4. ASSUME NEW t \in Ticket, NEW won \in BOOLEAN, SettleTicket(t, won) PROVE GoesOn
  <2>1. \/ outbox'[r] = outbox[r]
        \/ outbox[r].status = "ABSENT" /\ outbox'[r] = FreshRow
    BY <1>4 DEF SettleTicket, TypeInv, TypeOK
  <2>2. QED
    BY <1>1, <1>2, <2>1
<1>5. ASSUME NEW S \in SUBSET Row, ClaimRows(S) PROVE GoesOn
  <2>1. \/ outbox'[r] = outbox[r]
        \/ /\ outbox[r].status = "PENDING" /\ outbox'[r].status = "PROCESSING"
           /\ outbox'[r].retry_count = outbox[r].retry_count
    BY <1>0, <1>5, WrittenType DEF ClaimRows, Status
  <2>2. QED
    BY <1>0, <1>1, <2>1 DEF Budget
<1>6. ASSUME NEW q \in Row, NEW next \in Status \ {"PENDING"}, FinishRow(q, next) PROVE GoesOn
  <2>1. CASE r = q
    <3>1. /\ outbox'[r].status \notin {"ABSENT", "PENDING"}
          /\ outbox'[r].retry_count = outbox[r].retry_count
          /\ outbox[r].status # "ABSENT"
      BY <1>6, <2>1, FinishRowEffect DEF FinishRow, Status
    <3>2. QED
      BY <1>0, <3>1 DEF Budget
  <2>2. QED
    BY <1>1, <1>6, <2>1, FinishRowEffect
<1>7. ASSUME NEW q \in Row, RetryRow(q) PROVE GoesOn
  <2>1. CASE r = q
    <3>1. outbox[r].status = "PROCESSING" /\ outbox[r].retry_count < MaxRetries
      BY <1>7, <2>1 DEF RetryRow, RetryBound
    <3>2. /\ outbox'[r].retry_count = outbox[r].retry_count + 1
          /\ outbox'[r].status = IF outbox[r].retry_count + 1 >= MaxRetries THEN "FAILED" ELSE "PENDING"
      BY <1>0, <1>7, <2>1, RetryRowEffect, RetriedType
    <3>3. QED
      BY <1>0, <3>1, <3>2 DEF Budget
  <2>2. QED
    BY <1>1, <1>7, <2>1, RetryRowEffect
<1>8. CASE SameStatuses
  BY <1>0, <1>8 DEF SameStatuses, Budget
<1>9. QED
  BY <1>3, <1>4, <1>5, <1>6, <1>7, <1>8 DEF TableStep

LEMMA RowsInvInit == Init => RowsInv
BY TypeInvInit, MirrorsInit, RetryBoundInit DEF RowsInv, Init, AbsentFresh, Absent

LEMMA RowsInvStep == RowsInv /\ [Next]_vars => RowsInv' /\ TableStep
<1> SUFFICES ASSUME RowsInv, [Next]_vars PROVE RowsInv' /\ TableStep
  OBVIOUS
<1>1. TableStep
  BY StepsAreTableSteps DEF RowsInv
<1>2. AbsentFresh'
  BY <1>1, RowGoesOn DEF AbsentFresh
<1>3. QED
  BY <1>1, <1>2, TypeInvStep, MirrorsStep, RetryBoundStep DEF RowsInv

(* The workers that have claimed a row and not called the wallet for it yet.  *)
Claimers(r) == {w \in Worker : job[w] = "process" /\ r \in todo[w] /\ cur[w] # r}

(* They come from the budget of the row, like the calls made.                 *)
CallsCovered ==
  \A r \in Row : /\ IsFiniteSet(Claimers(r))
                 /\ calls[r] + Cardinality(Claimers(r)) <= Budget(outbox[r])

(* A step makes no call and adds no claimer, or is a claim of a PENDING row   *)
(* by one worker, or is a claimer's call.                                     *)
LEMMA ClaimersStep ==
  ASSUME TypeInv, WorkersStep, NEW r \in Row
  PROVE  \/ calls'[r] = calls[r] /\ Claimers(r)' \subseteq Claimers(r)
         \/ /\ calls'[r] = calls[r]
            /\ \E w \in Worker : Claimers(r)' \subseteq Claimers(r) \union {w}
            /\ outbox[r].status = "PENDING" /\ outbox'[r] = Written(outbox[r], "PROCESSING")
         \/ /\ calls'[r] = calls[r] + 1 /\ outbox'[r] = outbox[r]
            /\ \E w \in Claimers(r) : Claimers(r)' \subseteq Claimers(r) \ {w}
<1> DEFINE Fewer == calls'[r] = calls[r] /\ Claimers(r)' \subseteq Claimers(r)
<1> USE DEF TypeInv, TypeOK
<1>0. r # NoRow
  BY WalletOutboxAssumption
<1>1. ASSUME NEW w \in Worker, NEW kind \in Job, NEW S \in SUBSET Row, Starts(w, kind, S),
             kind # "process" \/ r \notin S
      PROVE  Fewer
  BY <1>1 DEF Starts, StartRun, Claimers, walletVars
<1>2. ASSUME NEW w \in Worker, NEW S \in SUBSET Row, Starts(w, "process", S), r \in S
      PROVE  /\ calls'[r] = calls[r]
             /\ Claimers(r)' \subseteq Claimers(r) \union {w}
             /\ outbox[r].status = "PENDING" /\ outbox'[r] = Written(outbox[r], "PROCESSING")
  BY <1>2 DEF Starts, StartRun, ClaimRows, Claimers, walletVars
<1>3. ASSUME NEW w \in Worker, NEW q \in Row, Calls(w, q), q # r PROVE Fewer
  BY <1>0, <1>3 DEF Calls, CallWallet, Claimers
<1>4. ASSUME NEW w \in Worker, Calls(w, r)
      PROVE  /\ calls'[r] = calls[r] + 1 /\ outbox'[r] = outbox[r]
             /\ w \in Claimers(r) /\ Claimers(r)' \subseteq Claimers(r) \ {w}
  <2>1. /\ job[w] = "process" /\ r \in todo[w] /\ cur[w] = NoRow
        /\ cur' = [cur EXCEPT ![w] = r] /\ UNCHANGED <<job, todo, outbox>>
        /\ calls' = [calls EXCEPT ![r] = @ + 1]
    BY <1>4 DEF Calls, CallWallet, dbVars
  <2>2. w \in Claimers(r)
    BY <1>0, <2>1 DEF Claimers
  <2>3. Claimers(r)' \subseteq Claimers(r) \ {w}
    BY <2>1 DEF Claimers
  <2>4. QED
    BY <2>1, <2>2, <2>3
<1>5. ASSUME NEW w \in Worker, NEW q \in Row, ReconcileCall(w, q) PROVE Fewer
  BY <1>5 DEF ReconcileCall, Claimers, walletVars
<1>6. ASSUME NEW w \in Worker, NEW q \in Row, Finishes(w, q) PROVE Fewer
  <2>1. \A v \in Worker \ {w} : job'[v] = job[v] /\ todo'[v] = todo[v] /\ cur'[v] = cur[v]
    BY <1>6 DEF Finishes, NextInRun
  <2>2. /\ job'[w] = "process" => job[w] = "process"
        /\ todo'[w] = todo[w] \ {q}
        /\ job[w] = "process" => q = cur[w]
    BY <1>6 DEF Finishes, NextInRun
  <2>3. Claimers(r)' \subseteq Claimers(r)
    BY <2>1, <2>2 DEF Claimers
  <2>4. QED
    BY <1>6, <2>3 DEF Finishes, walletVars
<1>7. ASSUME NEW w \in Worker, Ends(w) PROVE Fewer
  BY <1>7 DEF Ends, EndRun, Claimers, walletVars
<1>8. CASE Elsewhere
  BY <1>8 DEF Elsewhere, Claimers, walletVars
<1>9. QED
  BY <1>1, <1>2, <1>3, <1>4, <1>5, <1>6, <1>7, <1>8 DEF WorkersStep

LEMMA CallsCoveredInit == Init => CallsCovered
<1> SUFFICES ASSUME Init, NEW r \in Row
             PROVE  /\ IsFiniteSet(Claimers(r))
                    /\ calls[r] + Cardinality(Claimers(r)) <= Budget(outbox[r])
  BY DEF CallsCovered
<1>1. Claimers(r) = {}
  BY DEF Init, Claimers
<1>2. calls[r] = 0 /\ Budget(outbox[r]) = 0
  BY DEF Init, Budget, Absent
<1>3. QED
  BY <1>1, <1>2, FS_EmptySet

LEMMA CallsCoveredStep == RowsInv /\ CallsCovered /\ [Next]_vars => CallsCovered'
<1> SUFFICES ASSUME RowsInv, CallsCovered, [Next]_vars, NEW r \in Row
             PROVE  /\ IsFiniteSet(Claimers(r)')
                    /\ calls'[r] + Cardinality(Claimers(r)') <= Budget(outbox'[r])
  BY DEF CallsCovered
<1> DEFINE n == Cardinality(Claimers(r))
           m == Cardinality(Claimers(r)')
<1>1. TableStep /\ WorkersStep
  BY RowsInvStep, StepsAreWorkersSteps DEF RowsInv
<1>2. outbox[r] \in OutboxRecord /\ outbox'[r] \in OutboxRecord /\ calls[r] \in Nat
  BY RowsInvStep DEF RowsInv, TypeInv, TypeOK
<1>3. Budget(outbox[r]) \in Nat /\ Budget(outbox'[r]) \in Nat
  BY <1>2, WalletOutboxAssumption DEF OutboxRecord, Budget
<1>4. Budget(outbox[r]) <= Budget(outbox'[r])
  BY <1>1, RowGoesOn
<1>5. IsFiniteSet(Claimers(r)) /\ n \in Nat /\ calls[r] + n <= Budget(outbox[r])
  BY FS_CardinalityType DEF CallsCovered
<1>6. CASE calls'[r] = calls[r] /\ Claimers(r)' \subseteq Claimers(r)
  <2>1. IsFiniteSet(Claimers(r)') /\ m <= n /\ m \in Nat
    BY <1>5, <1>6, FS_Subset, FS_CardinalityType
  <2>2. QED
    BY <1>2, <1>3, <1>4, <1>5, <1>6, <2>1
<1>7. ASSUME NEW w \in Worker,
             calls'[r] = calls[r], Claimers(r)' \subseteq Claimers(r) \union {w},
             outbox[r].status = "PENDING", outbox'[r] = Written(outbox[r], "PROCESSING")
      PROVE  IsFiniteSet(Claimers(r)') /\ calls'[r] + m <= Budget(outbox'[r])
  <2>1. IsFiniteSet(Claimers(r) \union {w}) /\ Cardinality(Claimers(r) \union {w}) <= n + 1
    BY <1>5, FS_AddElement
  <2>2. IsFiniteSet(Claimers(r)') /\ m \in Nat /\ m <= Cardinality(Claimers(r) \union {w})
    BY <1>7, <2>1, FS_Subset, FS_CardinalityType
  <2>3. Cardinality(Claimers(r) \union {w}) \in Nat
    BY <2>1, FS_CardinalityType
  <2>4. outbox'[r].status = "PROCESSING" /\ outbox'[r].retry_count = outbox[r].retry_count
    BY <1>2, <1>7 DEF Written, OutboxRecord
  <2>5. outbox[r].retry_count \in Nat /\ outbox[r].retry_count < MaxRetries
    BY <1>2, <1>7 DEF OutboxRecord, RowsInv, RetryBound
  <2>6. Budget(outbox'[r]) = Budget(outbox[r]) + 1
    BY <1>7, <2>4, <2>5 DEF Budget
  <2>7. QED
    BY <1>2, <1>3, <1>5, <1>7, <2>1, <2>2, <2>3, <2>6
<1>8. ASSUME NEW w \in Claimers(r),
             calls'[r] = calls[r] + 1, Claimers(r)' \subseteq Claimers(r) \ {w}
      PROVE  IsFiniteSet(Claimers(r)') /\ calls'[r] + m <= Budget(outbox'[r])
  <2>1. IsFiniteSet(Claimers(r) \ {w}) /\ Cardinality(Claimers(r) \ {w}) = n - 1
    BY <1>5, FS_RemoveElement
  <2>2. IsFiniteSet(Claimers(r)') /\ m \in Nat /\ m <= Cardinality(Claimers(r) \ {w})
    BY <1>8, <2>1, FS_Subset, FS_CardinalityType
  <2>3. QED
    BY <1>2, <1>3, <1>4, <1>5, <1>8, <2>1, <2>2
<1>9. QED
  BY <1>1, <1>6, <1>7, <1>8, ClaimersStep DEF RowsInv

LEMMA CoveredBounded == RowsInv /\ CallsCovered => WalletCallsBounded
<1> SUFFICES ASSUME RowsInv, CallsCovered, NEW r \in Row PROVE calls[r] <= MaxRetries
  BY DEF WalletCallsBounded
<1>1. outbox[r] \in OutboxRecord /\ calls[r] \in Nat /\ outbox[r].retry_count <= MaxRetries
  BY DEF RowsInv, TypeInv, TypeOK, RetryBound
<1>2. Budget(outbox[r]) <= MaxRetries
  BY <1>1, WalletOutboxAssumption DEF OutboxRecord, Budget
<1>3. Budget(outbox[r]) \in Nat
  BY <1>1, WalletOutboxAssumption DEF OutboxRecord, Budget
<1>4. Cardinality(Claimers(r)) \in Nat /\ calls[r] + Cardinality(Claimers(r)) <= Budget(outbox[r])
  BY FS_CardinalityType DEF CallsCovered
<1>5. QED
  BY <1>1, <1>2, <1>3, <1>4, WalletOutboxAssumption

LEMMA RowsInvariance == Spec => [](RowsInv /\ CallsCovered)
<1>1. RowsInv /\ CallsCovered /\ [Next]_vars => RowsInv' /\ CallsCovered'
  BY RowsInvStep, CallsCoveredStep
<1>2. QED
  BY RowsInvInit, CallsCoveredInit, <1>1, PTL DEF Spec

(* No operation is asked of the wallet more often than maxRetries, however    *)
(* claims, leases that expire under them, recoveries and crashes interleave.  *)
THEOREM CallsBounded == Spec => []WalletCallsBounded
BY RowsInvariance, CoveredBounded, PTL
-----------------------------------------------------------------------------
(* What the wallet has done, and what the workers and the rows say of it.     *)

(* The rows of a run exist; those of a reconciliation have been called for,   *)
(* unless they have been retried.                                             *)
TodoKnown ==
  \A w \in Worker : \A r \in todo[w] :
    /\ outbox[r].status # "ABSENT"
    /\ job[w] = "reconcile" /\ OperatorMarks = {} /\ outbox[r].retry_count = 0 => calls[r] >= 1

(* An answer in a worker's hand tells the truth about the wallet; FAILED only *)
(* as long as the row is not retried.                                         *)
AnswersTrue ==
  \A w \in Worker : cur[w] # NoRow =>
    /\ ans[w] = "SUCCEEDED" => cur[w] \in moved
    /\ OperatorMarks = {} /\ outbox[cur[w]].retry_count = 0 =>
         calls[cur[w]] >= 1 /\ (ans[w] = "FAILED" => cur[w] \notin moved)

(* A row without retries gets past PROCESSING by an answer only.              *)
AnsweredRows ==
  OperatorMarks = {} =>
    \A r \in Row : outbox[r].status \in {"SUCCEEDED", "FAILED", "UNKNOWN"} /\ outbox[r].retry_count = 0
                     => calls[r] >= 1

MoneyInv ==
  /\ RowsInv /\ CallsCovered /\ TodoKnown /\ AnswersTrue /\ AnsweredRows
  /\ SucceededMeansMoved /\ NoPayoutBeforeStake /\ UnretriedFailureMeansRefused

(* Who finishes a row: an operator, a worker with an answer, or a retry.      *)
Finished(r) ==
  \/ outbox'[r].status \in OperatorMarks
  \/ \E w \in Worker : cur[w] = r /\ ans[w] = outbox'[r].status
  \/ outbox'[r].status = "FAILED" /\ outbox'[r].retry_count # 0

LEMMA FinishedBySomeone ==
  ASSUME TypeInv, [Next]_vars, NEW r \in Row,
         outbox'[r].status \in {"SUCCEEDED", "FAILED", "UNKNOWN"}, outbox'[r].status # outbox[r].status
  PROVE  Finished(r)
<1> USE DEF TypeInv
<1>0. \A q \in Row : outbox[q] \in OutboxRecord
  BY DEF TypeOK
<1>1. ASSUME NEW t \in Ticket,
             \/ ConfirmExternalWalletTicket(t)
             \/ \E won \in BOOLEAN : SettleTicket(t, won)
      PROVE  FALSE
  <2>1. \/ outbox'[r] = outbox[r]
        \/ outbox'[r] = FreshRow
    BY <1>1 DEF ConfirmExternalWalletTicket, SettleTicket, TypeOK
  <2>2. QED
    BY <2>1 DEF FreshRow, Absent
<1>2. ASSUME NEW q \in Row, NEW next \in Status, Transition(q, next) PROVE Finished(r)
  <2>1. outbox'[q].status = next
    BY <1>0, <1>2, WrittenType DEF Transition, applyFinalStatus, TypeOK
  <2>2. r = q
    BY <1>2 DEF Transition, applyFinalStatus, TypeOK
  <2>3. QED
    BY <1>2, <2>1, <2>2 DEF Transition, Finished
<1>3. ASSUME NEW q \in Row, BackoffElapses(q) \/ LeaseTimesOut(q) PROVE FALSE
  <2>1. outbox'[r].status = outbox[r].status
    <3>1. CASE BackoffElapses(q)
      BY <1>0, <3>1 DEF BackoffElapses, TypeOK, OutboxRecord
    <3>2. CASE LeaseTimesOut(q)
      BY <1>0, <3>2 DEF LeaseTimesOut, TypeOK, OutboxRecord
    <3>3. QED
      BY <1>3, <3>1, <3>2
  <2>2. QED
    BY <2>1
<1>4. ASSUME NEW w \in Worker, NEW S \in SUBSET Row, claimDuePendingRows(w, S) PROVE FALSE
  BY <1>0, <1>4, WrittenType DEF claimDuePendingRows, Status
<1>5. ASSUME NEW q \in Row, scheduleRetryOrFail(q) PROVE Finished(r)
  <2>1. outbox'[q] = Retried(outbox[q]) /\ \A p \in Row \ {q} : outbox'[p] = outbox[p]
    BY <1>5 DEF scheduleRetryOrFail, TypeOK
  <2>2. r = q /\ outbox[r].retry_count \in Nat
    BY <1>0, <2>1 DEF OutboxRecord
  <2>3. /\ outbox'[r].retry_count = outbox[r].retry_count + 1
        /\ outbox'[r].status \in {"FAILED", "PENDING"}
    BY <1>0, <2>1, <2>2, RetriedType, WalletOutboxAssumption
  <2>4. QED
    BY <2>2, <2>3 DEF Finished
<1>6. ASSUME NEW w \in Worker, cur[w] \in Row, ans[w] \in Status, applyFinalStatus(cur[w], ans[w])
      PROVE  Finished(r)
  <2>1. outbox'[cur[w]].status = ans[w] /\ \A p \in Row \ {cur[w]} : outbox'[p] = outbox[p]
    BY <1>0, <1>6, WrittenType DEF applyFinalStatus, TypeOK
  <2>2. QED
    BY <2>1 DEF Finished
<1>7. UNCHANGED dbVars => FALSE
  BY DEF dbVars
<1>8. ASSUME NEW w \in Worker, ApplyAnswer(w) PROVE Finished(r)
  <2>1. cur[w] \in Row /\ (ans[w] # "RETRYABLE" => ans[w] \in Status)
    BY <1>8 DEF ApplyAnswer, TypeOK, Answer, Status
  <2>2. QED
    BY <1>5, <1>6, <1>7, <1>8, <2>1 DEF ApplyAnswer
<1>9. ASSUME NEW w \in Worker, ReconcileApply(w) PROVE Finished(r)
  <2>1. cur[w] \in Row /\ ans[w] \in Status
    BY <1>9 DEF ReconcileApply, TypeOK, ReconcileDefinite, terminalStatuses, Status
  <2>2. QED
    BY <1>6, <1>7, <1>9, <2>1 DEF ReconcileApply
<1>10. ASSUME NEW w \in Worker, NEW q \in Row, RecoverRow(w, q) PROVE Finished(r)
  BY <1>5, <1>7, <1>10 DEF RecoverRow
<1>11. ASSUME NEW w \in Worker, NEW q \in Row,
              \/ CallWallet(w, q) \/ ReconcileCall(w, q) \/ ReconcileUnknown(w, q)
              \/ ReconcileThrows(w) \/ Crash(w)
              \/ \E S \in SUBSET Row : SelectStale(w, S) \/ lockUnknownRows(w, S)
       PROVE FALSE
  BY <1>7, <1>11 DEF CallWallet, ReconcileCall, ReconcileUnknown, ReconcileThrows, Crash, SelectStale, lockUnknownRows
<1>12. CASE UNCHANGED vars
  BY <1>7, <1>12 DEF vars, dbVars
<1>13. QED
  BY <1>1, <1>2, <1>3, <1>4, <1>8, <1>9, <1>10, <1>11, <1>12 DEF Next, WorkerStep

(* Money once moved stays moved, calls are never forgotten, and money moves   *)
(* by a claimer's call.                                                       *)
LEMMA WalletStep ==
  ASSUME TypeInv, WorkersStep, NEW r \in Row
  PROVE  /\ r \in moved => r \in moved'
         /\ calls[r] <= calls'[r]
         /\ r \in moved' /\ r \notin moved => \E w \in Worker : Calls(w, r) /\ w \in Claimers(r)
<1> USE DEF TypeInv, TypeOK
<1>0. r # NoRow
  BY WalletOutboxAssumption
<1>1. ASSUME NEW w \in Worker, NEW q \in Row, Calls(w, q)
      PROVE  /\ r \in moved => r \in moved'
             /\ calls[r] <= calls'[r]
             /\ r \in moved' /\ r \notin moved => r = q /\ w \in Claimers(r)
  <2>1. moved' \in {moved, moved \union {q}} /\ calls' = [calls EXCEPT ![q] = @ + 1]
    BY <1>1 DEF Calls, CallWallet, WalletAnswers
  <2>2. w \in Claimers(q)
    BY <1>1, WalletOutboxAssumption DEF Calls, CallWallet, Claimers
  <2>3. QED
    BY <2>1, <2>2
<1>2. UNCHANGED walletVars =>
        /\ r \in moved => r \in moved'
        /\ calls[r] <= calls'[r]
        /\ ~(r \in moved' /\ r \notin moved)
  BY DEF walletVars
<1>3. \/ UNCHANGED walletVars
      \/ \E w \in Worker, q \in Row : Calls(w, q)
  BY DEF WorkersStep, Starts, ReconcileCall, Finishes, Ends, Elsewhere
<1>4. QED
  BY <1>1, <1>2, <1>3

(* Without a retry there is one call, and money moves at most by that one.    *)
LEMMA FirstCallMoves ==
  ASSUME RowsInv, CallsCovered, WorkersStep, NEW r \in Row, r \in moved', r \notin moved,
         outbox[r].retry_count = 0
  PROVE  calls[r] = 0
<1>1. IsFiniteSet(Claimers(r)) /\ Cardinality(Claimers(r)) \in Nat /\ Claimers(r) # {}
  BY WalletStep, FS_CardinalityType DEF RowsInv, CallsCovered
<1>2. Cardinality(Claimers(r)) # 0
  BY <1>1, FS_EmptySet
<1>3. Budget(outbox[r]) \in {0, 1}
  BY WalletOutboxAssumption DEF Budget
<1>4. calls[r] \in Nat /\ calls[r] + Cardinality(Claimers(r)) <= Budget(outbox[r])
  BY DEF RowsInv, TypeInv, TypeOK, CallsCovered
<1>5. QED
  BY <1>1, <1>2, <1>3, <1>4

LEMMA MoneyInvInit == Init => MoneyInv
<1> SUFFICES ASSUME Init PROVE MoneyInv
  OBVIOUS
<1>1. TodoKnown /\ AnswersTrue /\ AnsweredRows
  BY DEF Init, TodoKnown, AnswersTrue, AnsweredRows, Absent
<1>2. SucceededMeansMoved /\ NoPayoutBeforeStake /\ UnretriedFailureMeansRefused
  BY DEF Init, SucceededMeansMoved, NoPayoutBeforeStake, UnretriedFailureMeansRefused, Absent
<1>3. QED
  BY <1>1, <1>2, RowsInvInit, CallsCoveredInit DEF MoneyInv

LEMMA MoneyInvStep == MoneyInv /\ [Next]_vars => MoneyInv'
<1> SUFFICES ASSUME MoneyInv, [Next]_vars PROVE MoneyInv'
  OBVIOUS
<1>1. /\ TableStep /\ WorkersStep /\ RowsInv' /\ CallsCovered'
      /\ RowsInv /\ CallsCovered /\ TypeInv
  BY RowsInvStep, CallsCoveredStep, StepsAreWorkersSteps DEF MoneyInv, RowsInv
<1>2. ASSUME NEW r \in Row
      PROVE  /\ outbox'[r].retry_count = 0 => outbox[r].retry_count = 0
             /\ outbox[r].status # "ABSENT" => outbox'[r].status # "ABSENT"
             /\ calls[r] >= 1 => calls'[r] >= 1
             /\ r \in moved => r \in moved'
             /\ calls[r] >= 1 /\ outbox[r].retry_count = 0 /\ r \notin moved => r \notin moved'
  <2>1. /\ outbox[r].retry_count \in Nat /\ calls[r] \in Nat
        /\ outbox'[r].retry_count \in Nat /\ calls'[r] \in Nat
    BY <1>1 DEF RowsInv, TypeInv, TypeOK, OutboxRecord
  <2>2. /\ outbox[r].retry_count <= outbox'[r].retry_count
        /\ outbox'[r].status = "ABSENT" => outbox[r].status = "ABSENT"
    BY <1>1, RowGoesOn
  <2>3. calls[r] <= calls'[r] /\ (r \in moved => r \in moved')
    BY <1>1, WalletStep
  <2>4. r \in moved' /\ r \notin moved /\ outbox[r].retry_count = 0 => calls[r] = 0
    BY <1>1, FirstCallMoves
  <2>5. QED
    BY <2>1, <2>2, <2>3, <2>4
<1>3. TodoKnown'
  <2> SUFFICES ASSUME NEW w \in Worker, NEW r \in todo'[w]
               PROVE  /\ outbox'[r].status # "ABSENT"
                      /\ job'[w] = "reconcile" /\ OperatorMarks = {} /\ outbox'[r].retry_count = 0
                           => calls'[r] >= 1
    BY DEF TodoKnown
  <2>1. r \in Row
    BY <1>1 DEF RowsInv, TypeInv, TypeOK
  <2>2. \/ r \in todo[w] /\ job'[w] = job[w]
        \/ outbox[r].status # "ABSENT" /\ (job'[w] = "reconcile" => outbox[r].status = "UNKNOWN")
    <3>1. ASSUME NEW v \in Worker, NEW kind \in Job, NEW S \in SUBSET Row, Starts(v, kind, S)
          PROVE  \/ r \in todo[w] /\ job'[w] = job[w]
                 \/ outbox[r].status # "ABSENT" /\ (job'[w] = "reconcile" => outbox[r].status = "UNKNOWN")
      BY <1>1, <3>1 DEF Starts, StartRun, TypeInv, TypeOK
    <3>2. ASSUME NEW v \in Worker, NEW q \in Row, Calls(v, q) \/ ReconcileCall(v, q)
          PROVE  r \in todo[w] /\ job'[w] = job[w]
      BY <3>2 DEF Calls, CallWallet, ReconcileCall
    <3>3. ASSUME NEW v \in Worker, NEW q \in Row, Finishes(v, q)
          PROVE  r \in todo[w] /\ job'[w] = job[w]
      BY <1>1, <3>3 DEF Finishes, NextInRun, TypeInv, TypeOK
    <3>4. ASSUME NEW v \in Worker, Ends(v)
          PROVE  r \in todo[w] /\ job'[w] = job[w]
      BY <1>1, <3>4 DEF Ends, EndRun, TypeInv, TypeOK
    <3>5. QED
      BY <1>1, <3>1, <3>2, <3>3, <3>4 DEF WorkersStep, Elsewhere
  <2>3. QED
    BY <1>2, <2>1, <2>2 DEF MoneyInv, TodoKnown, AnsweredRows
<1>4. AnswersTrue'
  <2> DEFINE Told(r, a) ==
        /\ a = "SUCCEEDED" => r \in moved'
        /\ OperatorMarks = {} /\ outbox'[r].retry_count = 0 =>
             calls'[r] >= 1 /\ (a = "FAILED" => r \notin moved')
  <2> SUFFICES ASSUME NEW w \in Worker, cur'[w] # NoRow PROVE Told(cur'[w], ans'[w])
    BY DEF AnswersTrue
  <2>0. cur'[w] \in Row /\ TypeOK
    BY <1>1 DEF RowsInv, TypeInv, TypeOK
  <2>1. CASE cur'[w] = cur[w] /\ ans'[w] = ans[w]
    BY <1>2, <2>0, <2>1 DEF MoneyInv, AnswersTrue
  <2>2. ASSUME NEW v \in Worker, NEW q \in Row, Calls(v, q) PROVE Told(cur'[w], ans'[w])
    <3>1. CASE v = w
      <4>1. /\ cur'[w] = q /\ calls'[q] = calls[q] + 1 /\ calls[q] \in Nat
            /\ WalletAnswers(q, ans'[w], moved')
        BY <2>0, <2>2, <3>1 DEF Calls, CallWallet, TypeOK
      <4>2. QED
        BY <4>1 DEF WalletAnswers
    <3>2. CASE v # w
      BY <2>0, <2>1, <2>2, <3>2 DEF Calls, CallWallet, TypeOK
    <3>3. QED
      BY <3>1, <3>2
  <2>3. ASSUME NEW v \in Worker, NEW q \in Row, ReconcileCall(v, q) PROVE Told(cur'[w], ans'[w])
    <3>1. CASE v = w
      <4>1. /\ cur'[w] = q /\ ans'[w] = IF q \in moved THEN "SUCCEEDED" ELSE "FAILED"
            /\ moved' = moved /\ job[w] = "reconcile" /\ q \in todo[w]
        BY <2>0, <2>3, <3>1 DEF ReconcileCall, walletVars, TypeOK
      <4>2. OperatorMarks = {} /\ outbox'[q].retry_count = 0 => calls'[q] >= 1
        BY <1>2, <4>1 DEF MoneyInv, TodoKnown
      <4>3. QED
        BY <4>1, <4>2
    <3>2. CASE v # w
      BY <2>0, <2>1, <2>3, <3>2 DEF ReconcileCall, TypeOK
    <3>3. QED
      BY <3>1, <3>2
  <2>4. ASSUME NEW v \in Worker, NEW q \in Row, Finishes(v, q) PROVE Told(cur'[w], ans'[w])
    BY <2>0, <2>1, <2>4 DEF Finishes, NextInRun, TypeOK
  <2>5. ASSUME NEW v \in Worker, Ends(v) PROVE Told(cur'[w], ans'[w])
    BY <2>0, <2>1, <2>5 DEF Ends, EndRun, TypeOK
  <2>6. ASSUME NEW v \in Worker, NEW kind \in Job, NEW S \in SUBSET Row, Starts(v, kind, S)
        PROVE  Told(cur'[w], ans'[w])
    BY <2>1, <2>6 DEF Starts
  <2>7. QED
    BY <1>1, <2>1, <2>2, <2>3, <2>4, <2>5, <2>6 DEF WorkersStep, Elsewhere
<1>5. AnsweredRows'
  <2> SUFFICES ASSUME OperatorMarks = {}, NEW r \in Row, outbox'[r].retry_count = 0,
                      outbox'[r].status \in {"SUCCEEDED", "FAILED", "UNKNOWN"}
               PROVE  calls'[r] >= 1
    BY DEF AnsweredRows
  <2>1. CASE outbox'[r].status = outbox[r].status
    BY <1>2, <2>1 DEF MoneyInv, AnsweredRows
  <2>2. CASE outbox'[r].status # outbox[r].status
    <3>1. PICK w \in Worker : cur[w] = r
      BY <1>1, <2>2, FinishedBySomeone DEF Finished
    <3>2. r # NoRow
      BY WalletOutboxAssumption
    <3>3. QED
      BY <1>2, <3>1, <3>2 DEF MoneyInv, AnswersTrue
  <2>3. QED
    BY <2>1, <2>2
<1>6. SucceededMeansMoved'
  <2> SUFFICES ASSUME "SUCCEEDED" \notin OperatorMarks, NEW r \in Row, outbox'[r].status = "SUCCEEDED"
               PROVE  r \in moved'
    BY DEF SucceededMeansMoved
  <2>1. CASE outbox[r].status = "SUCCEEDED"
    BY <1>2, <2>1 DEF MoneyInv, SucceededMeansMoved
  <2>2. CASE outbox[r].status # "SUCCEEDED"
    <3>1. PICK w \in Worker : cur[w] = r /\ ans[w] = "SUCCEEDED"
      BY <1>1, <2>2, FinishedBySomeone DEF Finished
    <3>2. r # NoRow
      BY WalletOutboxAssumption
    <3>3. QED
      BY <1>2, <3>1, <3>2 DEF MoneyInv, AnswersTrue
  <2>3. QED
    BY <2>1, <2>2
<1>7. NoPayoutBeforeStake'
  <2> SUFFICES ASSUME "SUCCEEDED" \notin OperatorMarks, NEW t \in Ticket, <<t, Credit>> \in moved'
               PROVE  <<t, Debit>> \in moved'
    BY DEF NoPayoutBeforeStake
  <2>0. <<t, Credit>> \in Row /\ <<t, Debit>> \in Row
    BY DEF Row
  <2>1. CASE <<t, Credit>> \in moved
    BY <1>2, <2>0, <2>1 DEF MoneyInv, NoPayoutBeforeStake
  <2>2. CASE <<t, Credit>> \notin moved
    <3>1. PICK w \in Worker : Calls(w, <<t, Credit>>)
      BY <1>1, <2>0, <2>2, WalletStep
    <3>2. StatusOf(t, Credit) # "ABSENT"
      BY <3>1 DEF Calls, CallWallet, MoneyInv, TodoKnown, StatusOf
    <3>3. DebitMirrored(t) /\ CreditMirrored(t) /\ StatusOf(t, Debit) \in Status \union {"ABSENT"}
      BY <1>1, <2>0 DEF RowsInv, TicketMirrorsOutbox, TypeInv, TypeOK, OutboxRecord, StatusOf
    <3>4. StatusOf(t, Debit) = "SUCCEEDED"
      BY <3>2, <3>3, NoTicketAbsent DEF DebitMirrored, CreditMirrored, Status
    <3>5. QED
      BY <1>2, <2>0, <3>4 DEF MoneyInv, SucceededMeansMoved, StatusOf
  <2>3. QED
    BY <2>1, <2>2
<1>8. UnretriedFailureMeansRefused'
  <2> SUFFICES ASSUME OperatorMarks = {}, NEW r \in Row,
                      outbox'[r].status = "FAILED", outbox'[r].retry_count = 0
               PROVE  r \notin moved'
    BY DEF UnretriedFailureMeansRefused
  <2>1. CASE outbox[r].status = "FAILED"
    BY <1>2, <2>1 DEF MoneyInv, AnsweredRows, UnretriedFailureMeansRefused
  <2>2. CASE outbox[r].status # "FAILED"
    <3>1. PICK w \in Worker : cur[w] = r /\ ans[w] = "FAILED"
      BY <1>1, <2>2, FinishedBySomeone DEF Finished
    <3>2. r # NoRow
      BY WalletOutboxAssumption
    <3>3. QED
      BY <1>2, <3>1, <3>2 DEF MoneyInv, AnswersTrue
  <2>3. QED
    BY <2>1, <2>2
<1>9. QED
  BY <1>1, <1>3, <1>4, <1>5, <1>6, <1>7, <1>8 DEF MoneyInv

LEMMA MoneyInvariance == Spec => []MoneyInv
BY MoneyInvInit, MoneyInvStep, PTL DEF Spec

(* SUCCEEDED is written for what the wallet has done, by whichever claim.     *)
THEOREM SuccessIsTrue == Spec => []SucceededMeansMoved
BY MoneyInvariance, PTL DEF MoneyInv

(* No payout reaches the wallet before the stake of its ticket has.           *)
THEOREM StakeFirst == Spec => []NoPayoutBeforeStake
BY MoneyInvariance, PTL DEF MoneyInv

(* A row that failed without a retry failed because the wallet refused it.    *)
THEOREM FailureIsRefusal == Spec => []UnretriedFailureMeansRefused
BY MoneyInvariance, PTL DEF MoneyInv
-----------------------------------------------------------------------------
(* Every transition of a row is an allowed one: final statuses are final and  *)
(* UNKNOWN is only resolved.                                                  *)
LEMMA TransitionStep ==
  ASSUME TypeInv, TicketMirrorsOutbox, TableStep,
         NEW r \in Row, outbox[r].status \notin {"ABSENT", outbox'[r].status}
  PROVE  assertAllowedTransition(outbox[r].status, outbox'[r].status)
<1>0. \A q \in Row : outbox[q] \in OutboxRecord
  BY DEF TypeInv, TypeOK
<1>1. ASSUME NEW q \in Row, NEW next \in Status, RowMoves(q, next)
      PROVE  assertAllowedTransition(outbox[r].status, outbox'[r].status)
  BY <1>1 DEF RowMoves
<1>2. ASSUME NEW S \in SUBSET Row, ClaimRows(S)
      PROVE  assertAllowedTransition(outbox[r].status, outbox'[r].status)
  BY <1>0, <1>2 DEF ClaimRows, assertAllowedTransition, terminalStatuses
<1>3. ASSUME NEW t \in Ticket, ConfirmExternalWalletTicket(t)
      PROVE  assertAllowedTransition(outbox[r].status, outbox'[r].status)
  <2>1. outbox[<<t, Debit>>].status = "ABSENT"
    BY <1>3 DEF ConfirmExternalWalletTicket, TicketMirrorsOutbox, DebitMirrored, StatusOf
  <2>2. QED
    BY <1>3, <2>1 DEF ConfirmExternalWalletTicket, TypeInv, TypeOK
<1>4. ASSUME NEW t \in Ticket, NEW won \in BOOLEAN, SettleTicket(t, won)
      PROVE  assertAllowedTransition(outbox[r].status, outbox'[r].status)
  BY <1>4 DEF SettleTicket, TypeInv, TypeOK
<1>5. CASE SameStatuses
  BY <1>5 DEF SameStatuses
<1>6. QED
  BY <1>1, <1>2, <1>3, <1>4, <1>5, FinishMovesRow, RetryMovesRow DEF TableStep

LEMMA TransitionsStep ==
  TypeInv /\ TicketMirrorsOutbox /\ TableStep =>
    \A r \in Row : LET current == outbox[r].status
                       next    == outbox'[r].status
                   IN  current \notin {"ABSENT", next} => assertAllowedTransition(current, next)
BY TransitionStep

(* No step of anyone moves a row along a transition the code forbids, though  *)
(* claims, retries and recoveries never ask assertAllowedTransition.          *)
THEOREM TransitionsAllowed == Spec => EveryTransitionAllowed
BY TypeInvInit, TypeInvStep, StepsAreTableSteps, MirrorsInit, MirrorsStep, TransitionsStep, PTL
DEF Spec, EveryTransitionAllowed
-----------------------------------------------------------------------------
(* The outbox implements TicketLifecycle.                                     *)

LEMMA LifecycleInit == Init => Lifecycle!Init
BY DEF Init, Lifecycle!Init, PhaseOf, NoTicket

(* Moving a row takes its ticket to a next phase or leaves it where it is.    *)
LEMMA PhaseRowMoves ==
  ASSUME TypeInv, TicketMirrorsOutbox, NEW r \in Row, NEW next \in Status, RowMoves(r, next)
  PROVE  LET t == r[1]
         IN  PhaseOf(ticket'[t]) \in Lifecycle!Successors(PhaseOf(ticket[t])) \union {PhaseOf(ticket[t])}
<1> DEFINE t == r[1]
           p == PhaseOf(ticket[t])
           q == PhaseOf(ticket'[t])
<1>0. /\ t \in Ticket
      /\ ticket[t] \in TicketRecord
      /\ DebitMirrored(t) /\ CreditMirrored(t)
      /\ Debit # Credit
  BY DEF TypeInv, TypeOK, TicketMirrorsOutbox, Row, Debit, Credit
<1>1. CASE r = <<t, Debit>>
  <2>1. ticket'[t] = DebitOnTicket(ticket[t], next)
    BY <1>0, <1>1 DEF RowMoves, updateRelatedTicket, TypeInv, TypeOK
  <2>2. /\ StatusOf(t, Debit) \in {"PENDING", "PROCESSING", "UNKNOWN"}
        /\ StatusOf(t, Debit) = "UNKNOWN" => next \in terminalStatuses
    BY <1>1 DEF RowMoves, assertAllowedTransition, terminalStatuses, StatusOf, Status
  <2>3. /\ ticket[t].status = "PENDING_FUNDING"
        /\ p = IF StatusOf(t, Debit) = "UNKNOWN" THEN "fundingInDoubt" ELSE "awaitingFunds"
    BY <1>0, <2>2 DEF DebitMirrored, PhaseOf
  <2>4. CASE next = "SUCCEEDED"
    <3>1. ticket'[t].status = "CONFIRMED"
      BY <1>0, <2>1, <2>4 DEF DebitOnTicket, TicketRecord
    <3>2. q = "funded"
      BY <3>1 DEF PhaseOf
    <3>3. QED
      BY <2>3, <3>2 DEF Lifecycle!Successors
  <2>5. CASE next = "FAILED"
    <3>1. ticket'[t].status = "REJECTED"
      BY <1>0, <2>1, <2>5 DEF DebitOnTicket, TicketRecord
    <3>2. q = "rejected"
      BY <3>1 DEF PhaseOf
    <3>3. QED
      BY <2>3, <3>2 DEF Lifecycle!Successors
  <2>6. CASE next = "UNKNOWN"
    <3>1. ticket'[t].status = "PENDING_FUNDING" /\ ticket'[t].funding = "UNKNOWN"
      BY <1>0, <2>1, <2>3, <2>6 DEF DebitOnTicket, TicketRecord
    <3>2. q = "fundingInDoubt"
      BY <3>1 DEF PhaseOf
    <3>3. QED
      BY <2>2, <2>3, <2>6, <3>2 DEF Lifecycle!Successors, terminalStatuses
  <2>7. CASE next \in {"PENDING", "PROCESSING"}
    BY <2>1, <2>7 DEF DebitOnTicket
  <2>8. QED
    BY <2>4, <2>5, <2>6, <2>7 DEF Status
<1>2. CASE r = <<t, Credit>>
  <2>1. ticket'[t] = CreditOnTicket(ticket[t], next)
    BY <1>0, <1>2 DEF RowMoves, updateRelatedTicket, TypeInv, TypeOK
  <2>2. /\ StatusOf(t, Credit) \in {"PENDING", "PROCESSING", "UNKNOWN"}
        /\ StatusOf(t, Credit) = "UNKNOWN" => next \in terminalStatuses
    BY <1>2 DEF RowMoves, assertAllowedTransition, terminalStatuses, StatusOf, Status
  <2>3. /\ ticket[t].status = "SETTLED" /\ ticket[t].settlement = "WON"
        /\ ticket[t].payout = IF StatusOf(t, Credit) = "UNKNOWN" THEN "UNKNOWN" ELSE "PENDING"
    BY <1>0, <2>2 DEF CreditMirrored
  <2>4. p = IF StatusOf(t, Credit) = "UNKNOWN" THEN "payoutInDoubt" ELSE "payoutDue"
    BY <2>3 DEF PhaseOf
  <2>5. CASE next \in {"PENDING", "PROCESSING"}
    BY <2>1, <2>5 DEF CreditOnTicket
  <2>6. CASE next \in {"SUCCEEDED", "FAILED", "UNKNOWN"}
    <3>1. /\ ticket'[t].status = "SETTLED" /\ ticket'[t].settlement = "WON"
          /\ ticket'[t].payout = next
      BY <1>0, <2>1, <2>3, <2>6 DEF CreditOnTicket, TicketRecord
    <3>2. q = CASE next = "SUCCEEDED" -> "paid" [] next = "FAILED" -> "payoutFailed" [] OTHER -> "payoutInDoubt"
      BY <2>6, <3>1 DEF PhaseOf
    <3>3. QED
      BY <2>2, <2>4, <2>6, <3>2 DEF Lifecycle!Successors, terminalStatuses
  <2>7. QED
    BY <2>5, <2>6 DEF Status
<1>3. QED
  BY <1>1, <1>2 DEF Row

(* A step that changes one ticket, and takes it to a next phase or leaves it  *)
(* where it is, is a step of the lifecycle.                                   *)
LEMMA OneTicketMoves ==
  ASSUME TypeInv, NEW t \in Ticket,
         ticket' = [ticket EXCEPT ![t] = ticket'[t]],
         PhaseOf(ticket'[t]) \in Lifecycle!Successors(PhaseOf(ticket[t])) \union {PhaseOf(ticket[t])}
  PROVE  Lifecycle!Next \/ [u \in Ticket |-> PhaseOf(ticket[u])]' = [u \in Ticket |-> PhaseOf(ticket[u])]
<1> DEFINE phase == [u \in Ticket |-> PhaseOf(ticket[u])]
           p == PhaseOf(ticket'[t])
<1>1. \A u \in Ticket \ {t} : ticket'[u] = ticket[u]
  BY DEF TypeInv, TypeOK
<1>2. phase' = [phase EXCEPT ![t] = p]
  BY <1>1
<1>3. CASE p \in Lifecycle!Successors(phase[t])
  BY <1>2, <1>3 DEF Lifecycle!Next, Lifecycle!Advance
<1>4. CASE p = phase[t]
  BY <1>2, <1>4
<1>5. QED
  BY <1>3, <1>4

LEMMA LifecycleStep ==
  TypeInv /\ TicketMirrorsOutbox /\ TableStep =>
    Lifecycle!Next \/ [u \in Ticket |-> PhaseOf(ticket[u])]' = [u \in Ticket |-> PhaseOf(ticket[u])]
<1> DEFINE phase == [u \in Ticket |-> PhaseOf(ticket[u])]
           Moved == Lifecycle!Next \/ phase' = phase
<1> SUFFICES ASSUME TypeInv, TicketMirrorsOutbox, TableStep PROVE Moved
  OBVIOUS
<1>0. ticket' = ticket => Moved
  OBVIOUS
<1>1. ASSUME NEW t \in Ticket, ConfirmExternalWalletTicket(t) PROVE Moved
  <2>1. /\ ticket[t] = NoTicket
        /\ ticket' = [ticket EXCEPT ![t] = ticket'[t]]
        /\ ticket'[t].status = "PENDING_FUNDING" /\ ticket'[t].funding = "PENDING"
    BY <1>1 DEF ConfirmExternalWalletTicket, NoTicket, TypeInv, TypeOK
  <2>2. PhaseOf(ticket[t]) = "none" /\ PhaseOf(ticket'[t]) = "awaitingFunds"
    BY <2>1, NoTicketAbsent DEF PhaseOf
  <2>3. QED
    BY <2>1, <2>2, OneTicketMoves DEF Lifecycle!Successors
<1>2. ASSUME NEW t \in Ticket, NEW won \in BOOLEAN, SettleTicket(t, won) PROVE Moved
  <2>0. ticket[t] \in TicketRecord
    BY DEF TypeInv, TypeOK
  <2>1. ticket' = [ticket EXCEPT ![t] = [@ EXCEPT !.status = "SETTLED",
                                                  !.settlement = IF won THEN "WON" ELSE "LOST",
                                                  !.payout = IF won THEN "PENDING" ELSE "NO_WIN"]]
    BY <1>2, <2>0 DEF SettleTicket, TypeInv, TypeOK
  <2>2. /\ ticket[t].status = "CONFIRMED"
        /\ ticket' = [ticket EXCEPT ![t] = ticket'[t]]
    BY <1>2, <2>1 DEF SettleTicket, isEligibleTicket, TypeInv, TypeOK
  <2>3. /\ ticket'[t].status = "SETTLED"
        /\ ticket'[t].settlement = IF won THEN "WON" ELSE "LOST"
        /\ ticket'[t].payout = IF won THEN "PENDING" ELSE "NO_WIN"
    BY <2>0, <2>1 DEF TicketRecord, TypeInv, TypeOK
  <2>4. PhaseOf(ticket[t]) = "funded" /\ PhaseOf(ticket'[t]) = IF won THEN "payoutDue" ELSE "lost"
    BY <2>2, <2>3 DEF PhaseOf
  <2>5. QED
    BY <2>2, <2>4, OneTicketMoves DEF Lifecycle!Successors
<1>3. ASSUME NEW S \in SUBSET Row, ClaimRows(S) PROVE Moved
  BY <1>0, <1>3 DEF ClaimRows
<1>4. ASSUME NEW r \in Row, NEW next \in Status, RowMoves(r, next) PROVE Moved
  <2>1. r[1] \in Ticket
    BY DEF Row
  <2>2. ticket' = [ticket EXCEPT ![r[1]] = ticket'[r[1]]]
    BY <1>4, <2>1 DEF RowMoves, updateRelatedTicket, TypeInv, TypeOK
  <2>3. QED
    BY <1>4, <2>1, <2>2, PhaseRowMoves, OneTicketMoves
<1>5. CASE SameStatuses
  BY <1>0, <1>5 DEF SameStatuses
<1>6. QED
  BY <1>1, <1>2, <1>3, <1>4, <1>5, FinishMovesRow, RetryMovesRow DEF TableStep

(* The refinement: whatever workers, wallet, operators and crashes do, every  *)
(* ticket follows TicketLifecycle.                                            *)
THEOREM ImplementsLifecycle == Spec => TicketsFollowLifecycle
<1>1. Init => Lifecycle!Init
  BY LifecycleInit
<1>2. TypeInv /\ TicketMirrorsOutbox /\ [Next]_vars =>
        [Lifecycle!Next]_([t \in Ticket |-> PhaseOf(ticket[t])])
  BY StepsAreTableSteps, LifecycleStep
<1>3. QED
  BY TypeInvInit, TypeInvStep, StepsAreTableSteps, MirrorsInit, MirrorsStep, <1>1, <1>2, PTL
  DEF Spec, TicketsFollowLifecycle, Lifecycle!Spec

LEMMA SuccessorsAreFurther ==
  ASSUME NEW p, NEW q \in Lifecycle!Successors(p)
  PROVE  Lifecycle!Rank(q) > Lifecycle!Rank(p)
BY DEF Lifecycle!Successors, Lifecycle!Rank

(* Whatever workers, wallet, operators and crashes do, a ticket never goes    *)
(* back: a stake is not asked for again once it is settled either way, and a  *)
(* ticket that is lost or paid stays so (updateRelatedTicket, settleTicket).  *)
THEOREM TicketsOnlyGoForward == Spec => Lifecycle!OnlyForward
<1> DEFINE phase == [t \in Ticket |-> PhaseOf(ticket[t])]
           Forward == \A t \in Ticket : phase'[t] # phase[t] => Lifecycle!Rank(phase'[t]) > Lifecycle!Rank(phase[t])
<1>1. Lifecycle!Next => Forward
  <2> SUFFICES ASSUME NEW t \in Ticket, Lifecycle!Advance(t), NEW u \in Ticket, phase'[u] # phase[u]
               PROVE  Lifecycle!Rank(phase'[u]) > Lifecycle!Rank(phase[u])
    BY DEF Lifecycle!Next
  <2>1. PICK p \in Lifecycle!Successors(phase[t]) : phase' = [phase EXCEPT ![t] = p]
    BY DEF Lifecycle!Advance
  <2>2. DOMAIN phase = Ticket
    OBVIOUS
  <2> HIDE DEF phase
  <2>3. u = t /\ phase'[u] = p
    BY <2>1, <2>2
  <2>4. QED
    BY <2>3, SuccessorsAreFurther
<1>2. [Lifecycle!Next]_phase => [Forward]_phase
  BY <1>1
<1>3. QED
  BY <1>2, ImplementsLifecycle, PTL DEF TicketsFollowLifecycle, Lifecycle!Spec, Lifecycle!OnlyForward

=============================================================================
