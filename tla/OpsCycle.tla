------------------------------ MODULE OpsCycle ------------------------------
(* OpsService of the lottery API, in one or several API processes: a timer    *)
(* runs one cycle of both workers at a time, section after section, and an    *)
(* exception ends the cycle.  The sections WalletOutbox and Settlement        *)
(* describe are coarse here; the queues they share, and the recovery of       *)
(* settlement jobs, are not.                                                  *)
(*                                                                            *)
(* Unknown outbox rows are kept in the order of their updated_at, settlement  *)
(* jobs are numbered in the order of their created_at.                        *)
EXTENDS Naturals, SequencesExt

CONSTANTS
  Process,      \* API processes
  Enabled,      \* those with WORKER_SCHEDULER_ENABLED=true
  Slot,         \* 1..N: cycles of one process the model tells apart
  Row,          \* wallet outbox rows, queued at the start
  Unresolvable, \* rows the wallet will never know about
  Job,          \* 1..M, settlement jobs in the order of the queue
  Interrupted,  \* jobs found PROCESSING at the start, their lease over
  Poisoned,     \* jobs whose settlement fails every time
  NoJob,
  BatchSize,    \* options.batchSize of both workers
  MaxFaults     \* bound: exceptions, stops and crashes together

ASSUME OpsCycleAssumption ==
  /\ Enabled \subseteq Process
  /\ Slot \subseteq Nat
  /\ Unresolvable \subseteq Row
  /\ Job \subseteq Nat
  /\ Interrupted \subseteq Job /\ Poisoned \subseteq Job
  /\ NoJob \notin Job
  /\ BatchSize \in Nat \ {0} /\ MaxFaults \in Nat

VARIABLES
  (* each process, in memory *)
  up,           \* it runs
  timer,        \* its interval is set
  tickInFlight,
  (* each cycle of a process, in memory *)
  section,      \* the section it is in, or "none"
  rows,         \* unknown rows it has read and not asked the wallet about yet
  stale,        \* PROCESSING jobs it has read and not looked at again yet
  held,         \* the job it has locked and is settling, or NoJob
  (* the database *)
  queued,       \* outbox rows that are PENDING or PROCESSING
  unknown,      \* UNKNOWN outbox rows
  job,          \* settlement_jobs.status, ABSENT before the result is posted
  faults

processVars == <<up, timer, tickInFlight>>
cycleVars == <<section, rows, stale, held>>
dbVars == <<queued, unknown, job>>
vars == <<processVars, cycleVars, dbVars, faults>>

Cycle == Process \X Slot
Section == {"walletRecovery", "walletProcessing", "walletReconciliation", "reconciling",
            "settlementRecovery", "recovering", "settlementProcessing", "settling"}
JobStatus == {"ABSENT", "PENDING", "PROCESSING", "SUCCEEDED"}

TypeOK ==
  /\ up \in [Process -> BOOLEAN] /\ timer \in [Process -> BOOLEAN] /\ tickInFlight \in [Process -> BOOLEAN]
  /\ section \in [Cycle -> Section \union {"none"}]
  /\ rows \in [Cycle -> Seq(Row)] /\ \A c \in Cycle : Len(rows[c]) <= BatchSize
  /\ stale \in [Cycle -> SUBSET Job]
  /\ held \in [Cycle -> Job \union {NoJob}]
  /\ queued \in SUBSET Row
  /\ unknown \in Seq(Row) /\ \A i, k \in DOMAIN unknown : unknown[i] = unknown[k] => i = k
  /\ job \in [Job -> JobStatus]
  /\ faults \in Nat

Init ==
  /\ up = [p \in Process |-> FALSE]
  /\ timer = [p \in Process |-> FALSE]
  /\ tickInFlight = [p \in Process |-> FALSE]
  /\ section = [c \in Cycle |-> "none"]
  /\ rows = [c \in Cycle |-> <<>>]
  /\ stale = [c \in Cycle |-> {}]
  /\ held = [c \in Cycle |-> NoJob]
  /\ queued = Row /\ unknown = <<>>
  /\ job = [j \in Job |-> IF j \in Interrupted THEN "PROCESSING" ELSE "ABSENT"]
  /\ faults = 0
-----------------------------------------------------------------------------
(* The scheduler of a process.                                                *)

(* Mutant: a tick does not ask whether a cycle is in flight.                  *)
AlwaysTicks(p) == TRUE

MayTick(p) == ~tickInFlight[p]

(* runTick, past its early return: the flag is set and runOneCycle called.    *)
BeginCycle(p) ==
  \E s \in Slot :
    /\ section[<<p, s>>] = "none"
    /\ \A t \in Slot : t < s => section[<<p, t>>] # "none"
    /\ section' = [section EXCEPT ![<<p, s>>] = "walletRecovery"]
    /\ tickInFlight' = [tickInFlight EXCEPT ![p] = TRUE]

(* onModuleInit of a new process.                                             *)
Boot(p) ==
  /\ ~up[p]
  /\ up' = [up EXCEPT ![p] = TRUE]
  /\ timer' = [timer EXCEPT ![p] = p \in Enabled]
  /\ UNCHANGED <<tickInFlight, cycleVars, dbVars, faults>>

(* startScheduler without a timer; with one it returns at once.               *)
StartScheduler(p, runImmediately) ==
  /\ up[p] /\ ~timer[p]
  /\ timer' = [timer EXCEPT ![p] = TRUE]
  /\ IF runImmediately /\ MayTick(p) THEN BeginCycle(p) ELSE UNCHANGED <<section, tickInFlight>>
  /\ UNCHANGED <<up, rows, stale, held, dbVars, faults>>

(* The interval's next turn.                                                  *)
Tick(p) ==
  /\ up[p] /\ timer[p] /\ MayTick(p)
  /\ BeginCycle(p)
  /\ UNCHANGED <<up, timer, rows, stale, held, dbVars, faults>>

(* stopScheduler, which onModuleDestroy calls: a cycle in flight goes on.     *)
StopScheduler(p) ==
  /\ up[p] /\ timer[p] /\ faults < MaxFaults
  /\ faults' = faults + 1
  /\ timer' = [timer EXCEPT ![p] = FALSE]
  /\ UNCHANGED <<up, tickInFlight, cycleVars, dbVars>>

(* The process ends, after a stop or in the middle of anything: its memory is *)
(* gone, and the transaction it was in is rolled back.                        *)
Exit(p) ==
  /\ up[p]
  /\ \/ timer[p] /\ faults < MaxFaults /\ faults' = faults + 1
     \/ ~timer[p] /\ UNCHANGED faults
  /\ up' = [up EXCEPT ![p] = FALSE]
  /\ timer' = [timer EXCEPT ![p] = FALSE]
  /\ tickInFlight' = [tickInFlight EXCEPT ![p] = FALSE]
  /\ section' = [c \in Cycle |-> IF c[1] = p THEN "none" ELSE section[c]]
  /\ rows' = [c \in Cycle |-> IF c[1] = p THEN <<>> ELSE rows[c]]
  /\ stale' = [c \in Cycle |-> IF c[1] = p THEN {} ELSE stale[c]]
  /\ held' = [c \in Cycle |-> IF c[1] = p THEN NoJob ELSE held[c]]
  /\ UNCHANGED dbVars

(* createResultAndSettlementJob                                               *)
PostResult(j) ==
  /\ job[j] = "ABSENT"
  /\ \A i \in Job : i < j => job[i] # "ABSENT"
  /\ job' = [job EXCEPT ![j] = "PENDING"]
  /\ UNCHANGED <<processVars, cycleVars, queued, unknown, faults>>
-----------------------------------------------------------------------------
(* runOneCycle.                                                               *)

GoTo(c, next) == section' = [section EXCEPT ![c] = next]

(* The cycle is over, and the finally of runTick has run.                     *)
EndCycle(c) ==
  /\ GoTo(c, "none")
  /\ rows' = [rows EXCEPT ![c] = <<>>]
  /\ stale' = [stale EXCEPT ![c] = {}]
  /\ held' = [held EXCEPT ![c] = NoJob]
  /\ tickInFlight' = [tickInFlight EXCEPT ![c[1]] = FALSE]

(* recoverStaleProcessingRows: a row without retries left is given up, the    *)
(* others stay in the queue.                                                  *)
RecoverWalletRows(c, S) ==
  /\ section[c] = "walletRecovery"
  /\ S \subseteq queued /\ Cardinality(S) <= BatchSize
  /\ queued' = queued \ S
  /\ GoTo(c, "walletProcessing")
  /\ UNCHANGED <<processVars, rows, stale, held, unknown, job, faults>>

(* processPendingOutboxRows: rows become final or UNKNOWN, in any order ...   *)
(* Mutant: the row is read again as if its new status had not been written.   *)
KeepQueued(r) == queued

TakeFromQueue(r) == queued \ {r}

ProcessWalletRow(c, r) ==
  /\ section[c] = "walletProcessing" /\ r \in queued
  /\ queued' = TakeFromQueue(r)
  /\ unknown' \in {unknown, Append(unknown, r)}
  /\ UNCHANGED <<processVars, cycleVars, job, faults>>

(* ... and some stay for a later cycle.                                       *)
WalletRowsProcessed(c) ==
  /\ section[c] = "walletProcessing"
  /\ GoTo(c, "walletReconciliation")
  /\ UNCHANGED <<processVars, rows, stale, held, dbVars, faults>>

(* lockUnknownRows: LIMIT of the rows updated longest ago.                    *)
(* Mutant: a LIMIT of one less.                                               *)
FewerRows(q) == SubSeq(q, 1, IF Len(q) < BatchSize THEN Len(q) ELSE BatchSize - 1)

FirstRows(q) == SubSeq(q, 1, IF Len(q) < BatchSize THEN Len(q) ELSE BatchSize)

ReadUnknownRows(c) ==
  /\ section[c] = "walletReconciliation"
  /\ rows' = [rows EXCEPT ![c] = FirstRows(unknown)]
  /\ GoTo(c, "reconciling")
  /\ UNCHANGED <<processVars, stale, held, dbVars, faults>>

IsUnknown(r) == \E i \in DOMAIN unknown : unknown[i] = r

(* The wallet is asked, and its answer written if the row is UNKNOWN still.   *)
(* A wallet that does not know leaves the row, and its updated_at, alone.     *)
ReconcileRow(c) ==
  /\ section[c] = "reconciling" /\ rows[c] # <<>>
  /\ rows' = [rows EXCEPT ![c] = Tail(@)]
  /\ LET r == Head(rows[c]) IN
     \/ (r \in Unresolvable \/ ~IsUnknown(r)) /\ UNCHANGED unknown
     \/ r \notin Unresolvable /\ \E i \in DOMAIN unknown :
                                  unknown[i] = r /\ unknown' = RemoveAt(unknown, i)
  /\ UNCHANGED <<processVars, section, stale, held, queued, job, faults>>

RowsReconciled(c) ==
  /\ section[c] = "reconciling" /\ rows[c] = <<>>
  /\ GoTo(c, "settlementRecovery")
  /\ UNCHANGED <<processVars, rows, stale, held, dbVars, faults>>
-----------------------------------------------------------------------------
(* The row lock of a settlement job.                                          *)
(* Mutant: jobs are read without FOR UPDATE.                                  *)
JobNotLocked(j) == TRUE

JobFree(j) == \A c \in Cycle : held[c] # j

(* recoverStaleProcessingJobs: the first transaction reads and lets go ...    *)
SelectStaleJobs(c, S) ==
  LET candidates == {j \in Job : job[j] = "PROCESSING"} IN
  /\ section[c] = "settlementRecovery"
  /\ S \subseteq candidates
  /\ Cardinality(S) <= BatchSize /\ (S = candidates \/ Cardinality(S) = BatchSize)
  /\ stale' = [stale EXCEPT ![c] = S]
  /\ GoTo(c, "recovering")
  /\ UNCHANGED <<processVars, rows, held, dbVars, faults>>

(* ... then each job is locked and judged again.                              *)
(* Mutant: it is not judged again.                                            *)
AlwaysStale(j) == TRUE

StillStale(j) == job[j] = "PROCESSING"

RecoverJob(c, j) ==
  /\ section[c] = "recovering" /\ j \in stale[c]
  /\ JobFree(j)
  /\ stale' = [stale EXCEPT ![c] = @ \ {j}]
  /\ job' = IF StillStale(j) THEN [job EXCEPT ![j] = "PENDING"] ELSE job
  /\ UNCHANGED <<processVars, section, rows, held, queued, unknown, faults>>

JobsRecovered(c) ==
  /\ section[c] = "recovering" /\ stale[c] = {}
  /\ GoTo(c, "settlementProcessing")
  /\ UNCHANGED <<processVars, rows, stale, held, dbVars, faults>>

(* lockSettlementJob without an id: FOR UPDATE SKIP LOCKED LIMIT 1.           *)
IsQueued(j) == job[j] = "PENDING" /\ JobFree(j)

(* Mutant: ORDER BY created_at DESC.                                          *)
IsNewestQueued(j) == IsQueued(j) /\ \A i \in Job : i > j => ~IsQueued(i)

IsOldestQueued(j) == IsQueued(j) /\ \A i \in Job : i < j => ~IsQueued(i)

ClaimJob(c, j) ==
  /\ section[c] = "settlementProcessing"
  /\ IsOldestQueued(j)
  /\ held' = [held EXCEPT ![c] = j]
  /\ GoTo(c, "settling")
  /\ UNCHANGED <<processVars, rows, stale, dbVars, faults>>

(* "queued settlement job not found" is no error for runOneCycle.             *)
NoQueuedJob(c) ==
  /\ section[c] = "settlementProcessing"
  /\ \A j \in Job : ~IsQueued(j)
  /\ EndCycle(c)
  /\ UNCHANGED <<up, timer, dbVars, faults>>

SettleJob(c) ==
  /\ section[c] = "settling" /\ held[c] \notin Poisoned
  /\ job' = [job EXCEPT ![held[c]] = "SUCCEEDED"]
  /\ EndCycle(c)
  /\ UNCHANGED <<up, timer, queued, unknown, faults>>

(* settleSettlementJob throws; the job was not named by id and stays PENDING. *)
SettlementFails(c) ==
  /\ section[c] = "settling" /\ held[c] \in Poisoned
  /\ EndCycle(c)
  /\ UNCHANGED <<up, timer, dbVars, faults>>

(* Any section throws: what it has not done, and the sections after it, are   *)
(* left for the next cycle.                                                   *)
SectionThrows(c) ==
  /\ section[c] # "none" /\ faults < MaxFaults
  /\ faults' = faults + 1
  /\ EndCycle(c)
  /\ UNCHANGED <<up, timer, dbVars>>
-----------------------------------------------------------------------------
CycleGoesOn(c) ==
  \/ \E S \in SUBSET Row : RecoverWalletRows(c, S)
  \/ WalletRowsProcessed(c)
  \/ ReadUnknownRows(c) \/ ReconcileRow(c) \/ RowsReconciled(c)
  \/ \E S \in SUBSET Job : SelectStaleJobs(c, S)
  \/ JobsRecovered(c)
  \/ \E j \in Job : ClaimJob(c, j)
  \/ NoQueuedJob(c) \/ SettleJob(c) \/ SettlementFails(c)

Next ==
  \/ \E p \in Process : Boot(p) \/ Tick(p) \/ StopScheduler(p) \/ Exit(p)
  \/ \E p \in Process, now \in BOOLEAN : StartScheduler(p, now)
  \/ \E j \in Job : PostResult(j)
  \/ \E c \in Cycle : \/ CycleGoesOn(c) \/ SectionThrows(c)
                      \/ \E r \in Row : ProcessWalletRow(c, r)
                      \/ \E j \in Job : RecoverJob(c, j)

Spec == Init /\ [][Next]_vars

(* The interval keeps firing, a cycle in flight goes on and gets a row lock   *)
(* that is free again and again.  A process that has been stopped is on its   *)
(* way out and is started again.                                              *)
FairSpec ==
  /\ Spec
  /\ \A p \in Enabled : WF_vars(Boot(p)) /\ WF_vars(~timer[p] /\ Exit(p)) /\ WF_vars(Tick(p))
  /\ \A c \in Cycle : WF_vars(CycleGoesOn(c)) /\ \A j \in Job : SF_vars(RecoverJob(c, j))
-----------------------------------------------------------------------------
(* A process runs one cycle at a time, and tickInFlight says so, however the  *)
(* scheduler is stopped and started again while a cycle is in flight.         *)
CyclesDoNotOverlap ==
  \A p \in Process :
    /\ tickInFlight[p] <=> \E s \in Slot : section[<<p, s>>] # "none"
    /\ \A s, t \in Slot : section[<<p, s>>] # "none" /\ section[<<p, t>>] # "none" => s = t

(* No two cycles, of one process or of several, settle the same job, and the  *)
(* job a cycle settles has not been settled: neither a claim beside it nor a  *)
(* recovery has changed it since it was read.                                 *)
JobSettledByOne ==
  \A c \in Cycle : held[c] # NoJob =>
    /\ job[held[c]] = "PENDING"
    /\ \A d \in Cycle : held[d] = held[c] => d = c

(* A job that has been settled is never queued again, though a recovery may   *)
(* come to it with what it read before another process recovered and settled  *)
(* it.                                                                        *)
SettledJobsStay == [][\A j \in Job : job[j] = "SUCCEEDED" => job'[j] = "SUCCEEDED"]_vars

(* Every job is settled that does not stand behind one that fails every time: *)
(* exceptions, crashes and stops only delay it, and one that an earlier run   *)
(* left PROCESSING is recovered.                                              *)
JobsGetSettled ==
  \A j \in Job :
    (\A i \in Job : i <= j => i \notin Poisoned) =>
      (job[j] \in {"PENDING", "PROCESSING"} ~> job[j] = "SUCCEEDED")

(* Rows the wallet never knows about do not keep the others from being        *)
(* reconciled, as long as they do not fill a batch.                           *)
UnknownRowsResolved ==
  Cardinality(Unresolvable) < BatchSize =>
    \A r \in Row \ Unresolvable : IsUnknown(r) ~> ~IsUnknown(r)
=============================================================================
