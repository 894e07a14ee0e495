---------------------------- MODULE OpsCycleProofs ----------------------------
(* Theorems about OpsCycle: its types, that the cycles of a process do not    *)
(* overlap, and that no job is settled by two cycles or queued once settled.  *)
EXTENDS OpsCycle, SequenceTheorems, TLAPS

(* A row is queued or UNKNOWN, never both.                                    *)
QueuedOrUnknown == \A r \in queued : ~IsUnknown(r)

(* The job a cycle holds is one it is settling, and PENDING until it is.      *)
HeldJobsPending ==
  \A c \in Cycle :
    /\ held[c] # NoJob <=> section[c] = "settling"
    /\ held[c] # NoJob => job[held[c]] = "PENDING"

HeldByOne == \A c, d \in Cycle : held[c] = held[d] /\ held[c] # NoJob => c = d

IInv == TypeOK /\ QueuedOrUnknown /\ CyclesDoNotOverlap /\ HeldJobsPending /\ HeldByOne
-----------------------------------------------------------------------------
(* The sequences of rows.                                                     *)

Distinct(q) == \A i, k \in DOMAIN q : q[i] = q[k] => i = k

LEMMA FirstRowsType ==
  ASSUME NEW q \in Seq(Row)
  PROVE  FirstRows(q) \in Seq(Row) /\ Len(FirstRows(q)) <= BatchSize
  <1> DEFINE n == IF Len(q) < BatchSize THEN Len(q) ELSE BatchSize
  <1>1. n \in Nat /\ n <= Len(q) /\ n <= BatchSize
    BY OpsCycleAssumption
  <1>2. \A i \in 1..n : q[i] \in Row
    BY <1>1, ElementOfSeq
  <1>3. /\ SubSeq(q, 1, n) \in Seq(Row)
        /\ Len(SubSeq(q, 1, n)) = IF 1 <= n THEN n - 1 + 1 ELSE 0
    BY <1>1, <1>2, SubSeqProperties
  <1>4. FirstRows(q) = SubSeq(q, 1, n)
    BY DEF FirstRows
  <1> HIDE DEF n
  <1> QED
    BY <1>1, <1>3, <1>4, OpsCycleAssumption

LEMMA AppendDistinct ==
  ASSUME NEW q \in Seq(Row), Distinct(q), NEW r \in Row, \A i \in DOMAIN q : q[i] # r
  PROVE  Append(q, r) \in Seq(Row) /\ Distinct(Append(q, r))
  BY AppendProperties DEF Distinct

(* What is left of a sequence when one element is taken out of it.            *)
LEMMA RemoveAtKeeps ==
  ASSUME NEW q \in Seq(Row), Distinct(q), NEW n \in DOMAIN q
  PROVE  /\ RemoveAt(q, n) \in Seq(Row) /\ Distinct(RemoveAt(q, n))
         /\ \A i \in DOMAIN RemoveAt(q, n) : \E k \in DOMAIN q : RemoveAt(q, n)[i] = q[k]
  <1> DEFINE a == SubSeq(q, 1, n - 1)
             b == SubSeq(q, n + 1, Len(q))
             m == Len(q)
  <1>1. m \in Nat /\ n \in 1..m /\ DOMAIN q = 1..m
    OBVIOUS
  <1>2. \A i \in 1..m : q[i] \in Row
    BY ElementOfSeq
  <1>3. a \in Seq(Row) /\ Len(a) = n - 1 /\ \A i \in 1..(n - 1) : a[i] = q[i]
    <2>1. /\ a \in Seq(Row)
          /\ Len(a) = IF 1 <= n - 1 THEN n - 1 - 1 + 1 ELSE 0
          /\ \A i \in 1..(n - 1 - 1 + 1) : a[i] = q[1 + i - 1]
      BY <1>1, <1>2, SubSeqProperties
    <2> HIDE DEF a
    <2> QED
      BY <1>1, <2>1
  <1>4. b \in Seq(Row) /\ Len(b) = m - n /\ \A i \in 1..(m - n) : b[i] = q[n + i]
    <2>1. /\ b \in Seq(Row)
          /\ Len(b) = IF n + 1 <= m THEN m - (n + 1) + 1 ELSE 0
          /\ \A i \in 1..(m - (n + 1) + 1) : b[i] = q[n + 1 + i - 1]
      BY <1>1, <1>2, SubSeqProperties
    <2> HIDE DEF b
    <2> QED
      BY <1>1, <2>1
  <1>5. RemoveAt(q, n) = a \o b
    BY DEF RemoveAt
  <1> HIDE DEF a, b
  <1>6. /\ a \o b \in Seq(Row) /\ Len(a \o b) = m - 1
        /\ \A i \in 1..(m - 1) : (a \o b)[i] = IF i <= n - 1 THEN a[i] ELSE b[i - (n - 1)]
    <2>1. /\ a \o b \in Seq(Row) /\ Len(a \o b) = Len(a) + Len(b)
          /\ \A i \in 1..(Len(a) + Len(b)) :
               (a \o b)[i] = IF i <= Len(a) THEN a[i] ELSE b[i - Len(a)]
      BY <1>3, <1>4, ConcatProperties, Zenon
    <2>2. Len(a) = n - 1 /\ Len(b) = m - n /\ Len(a) + Len(b) = m - 1
      BY <1>1, <1>3, <1>4
    <2> QED
      BY <2>1, <2>2, Zenon
  <1>7. \A i \in 1..(m - 1) : (a \o b)[i] = q[IF i < n THEN i ELSE i + 1]
    <2> SUFFICES ASSUME NEW i \in 1..(m - 1) PROVE (a \o b)[i] = q[IF i < n THEN i ELSE i + 1]
      OBVIOUS
    <2>1. CASE i < n
      BY <1>1, <1>3, <1>6, <2>1
    <2>2. CASE ~(i < n)
      <3>1. i - (n - 1) \in 1..(m - n) /\ n + (i - (n - 1)) = i + 1 /\ ~(i <= n - 1)
        BY <1>1, <2>2
      <3> QED
        BY <1>4, <1>6, <2>2, <3>1
    <2> QED
      BY <2>1, <2>2
  <1>8. DOMAIN (a \o b) = 1..(m - 1)
    BY <1>6
  <1>9. \A i \in 1..(m - 1) : (IF i < n THEN i ELSE i + 1) \in 1..m
    BY <1>1
  <1>10. \A i, k \in 1..(m - 1) : (IF i < n THEN i ELSE i + 1) = (IF k < n THEN k ELSE k + 1) => i = k
    BY <1>1
  <1>11. Distinct(a \o b)
    BY <1>1, <1>7, <1>8, <1>9, <1>10 DEF Distinct
  <1>12. \A i \in DOMAIN (a \o b) : \E k \in DOMAIN q : (a \o b)[i] = q[k]
    <2> SUFFICES ASSUME NEW i \in 1..(m - 1) PROVE \E k \in 1..m : (a \o b)[i] = q[k]
      BY <1>1, <1>8
    <2> WITNESS (IF i < n THEN i ELSE i + 1) \in 1..m
    <2> QED
      BY <1>7
  <1> QED
    BY <1>5, <1>6, <1>11, <1>12
-----------------------------------------------------------------------------
(* The cycles.                                                                *)

LEMMA SameCycles ==
  ASSUME CyclesDoNotOverlap, UNCHANGED <<tickInFlight, section>>
  PROVE  CyclesDoNotOverlap'
  BY DEF CyclesDoNotOverlap

(* A tick that finds no cycle in flight starts the only one.                  *)
LEMMA BeginCycleKeeps ==
  ASSUME IInv, NEW p \in Process, MayTick(p), BeginCycle(p), UNCHANGED <<held, job>>
  PROVE  /\ section' \in [Cycle -> Section \union {"none"}]
         /\ tickInFlight' \in [Process -> BOOLEAN]
         /\ CyclesDoNotOverlap' /\ HeldJobsPending'
  <1> USE DEF IInv, TypeOK
  <1>1. \A s \in Slot : section[<<p, s>>] = "none"
    BY DEF CyclesDoNotOverlap, MayTick
  <1>2. PICK s \in Slot : /\ section' = [section EXCEPT ![<<p, s>>] = "walletRecovery"]
                          /\ tickInFlight' = [tickInFlight EXCEPT ![p] = TRUE]
    BY DEF BeginCycle
  <1>3. <<p, s>> \in Cycle /\ "walletRecovery" \in Section
    BY DEF Cycle, Section
  <1>4. section' \in [Cycle -> Section \union {"none"}] /\ tickInFlight' \in [Process -> BOOLEAN]
    BY <1>2, <1>3
  <1>5. \A q \in Process, t \in Slot :
          section'[<<q, t>>] = IF q = p /\ t = s THEN "walletRecovery" ELSE section[<<q, t>>]
    BY <1>2, <1>3 DEF Cycle
  <1>6. CyclesDoNotOverlap'
    <2>1. ASSUME NEW q \in Process
          PROVE  tickInFlight'[q] <=> \E t \in Slot : section'[<<q, t>>] # "none"
      <3>1. CASE q = p
        <4>1. section'[<<p, s>>] # "none" /\ tickInFlight'[p]
          BY <1>2, <1>5
        <4> QED
          BY <3>1, <4>1
      <3>2. CASE q # p
        <4>1. tickInFlight'[q] = tickInFlight[q] /\ \A t \in Slot : section'[<<q, t>>] = section[<<q, t>>]
          BY <1>2, <1>5, <3>2
        <4> QED
          BY <4>1, Zenon DEF CyclesDoNotOverlap
      <3> QED
        BY <3>1, <3>2
    <2>2. ASSUME NEW q \in Process, NEW t \in Slot, NEW u \in Slot,
                 section'[<<q, t>>] # "none", section'[<<q, u>>] # "none"
          PROVE  t = u
      <3>1. CASE q = p
        BY <1>1, <1>5, <2>2, <3>1
      <3>2. CASE q # p
        <4>1. section[<<q, t>>] # "none" /\ section[<<q, u>>] # "none"
          BY <1>5, <2>2, <3>2
        <4> QED
          BY <4>1, Zenon DEF CyclesDoNotOverlap
      <3> QED
        BY <3>1, <3>2
    <2> QED
      BY <2>1, <2>2 DEF CyclesDoNotOverlap
  <1>7. HeldJobsPending'
    BY <1>1, <1>2, <1>3 DEF HeldJobsPending
  <1> QED
    BY <1>4, <1>6, <1>7

(* A cycle that goes on to another section is still its process' only one.    *)
LEMMA GoToKeeps ==
  ASSUME IInv, NEW c \in Cycle, section[c] # "none", NEW next \in Section, GoTo(c, next),
         UNCHANGED tickInFlight
  PROVE  section' \in [Cycle -> Section \union {"none"}] /\ CyclesDoNotOverlap'
  <1> USE DEF IInv, TypeOK
  <1>1. section' \in [Cycle -> Section \union {"none"}]
    BY DEF GoTo
  <1>2. \A d \in Cycle : section'[d] # "none" <=> section[d] # "none"
    BY DEF GoTo, Section
  <1>3. \A p \in Process, s \in Slot : section'[<<p, s>>] # "none" <=> section[<<p, s>>] # "none"
    BY <1>2 DEF Cycle
  <1> QED
    BY <1>1, <1>3 DEF CyclesDoNotOverlap

LEMMA SectionGoesOn ==
  ASSUME IInv, NEW c \in Cycle, section[c] \notin {"none", "settling"},
         NEW next \in Section \ {"settling"}, GoTo(c, next), UNCHANGED <<tickInFlight, held, job>>
  PROVE  section' \in [Cycle -> Section \union {"none"}] /\ CyclesDoNotOverlap' /\ HeldJobsPending'
  <1>1. section' \in [Cycle -> Section \union {"none"}] /\ CyclesDoNotOverlap'
    BY GoToKeeps
  <1>2. \A d \in Cycle : section'[d] = "settling" <=> section[d] = "settling"
    BY DEF IInv, TypeOK, GoTo
  <1> QED
    BY <1>1, <1>2 DEF IInv, HeldJobsPending

(* A cycle that ends leaves its process without one, and holds nothing.       *)
LEMMA EndCycleKeeps ==
  ASSUME IInv, NEW c \in Cycle, section[c] # "none", EndCycle(c)
  PROVE  /\ section' \in [Cycle -> Section \union {"none"}]
         /\ tickInFlight' \in [Process -> BOOLEAN]
         /\ rows' \in [Cycle -> Seq(Row)] /\ \A d \in Cycle : Len(rows'[d]) <= BatchSize
         /\ stale' \in [Cycle -> SUBSET Job]
         /\ held' \in [Cycle -> Job \union {NoJob}]
         /\ CyclesDoNotOverlap' /\ HeldByOne'
         /\ \A d \in Cycle : held'[d] # NoJob <=> section'[d] = "settling"
         /\ \A d \in Cycle : held'[d] # NoJob => d # c /\ held[d] = held'[d]
  <1> USE DEF IInv, TypeOK
  <1>1. PICK p \in Process, s \in Slot : c = <<p, s>>
    BY DEF Cycle
  <1>2. /\ section' = [section EXCEPT ![c] = "none"]
        /\ rows' = [rows EXCEPT ![c] = <<>>]
        /\ stale' = [stale EXCEPT ![c] = {}]
        /\ held' = [held EXCEPT ![c] = NoJob]
        /\ tickInFlight' = [tickInFlight EXCEPT ![p] = FALSE]
    BY <1>1 DEF EndCycle, GoTo
  <1>3. rows' \in [Cycle -> Seq(Row)] /\ \A d \in Cycle : Len(rows'[d]) <= BatchSize
    BY <1>2, OpsCycleAssumption
  <1>4. \A q \in Process, t \in Slot :
          section'[<<q, t>>] = IF q = p /\ t = s THEN "none" ELSE section[<<q, t>>]
    BY <1>1, <1>2 DEF Cycle
  <1>5. \A t \in Slot : section[<<p, t>>] # "none" => t = s
    BY <1>1 DEF CyclesDoNotOverlap
  <1>6. CyclesDoNotOverlap'
    <2>1. ASSUME NEW q \in Process
          PROVE  tickInFlight'[q] <=> \E t \in Slot : section'[<<q, t>>] # "none"
      <3>1. CASE q = p
        <4>1. \A t \in Slot : section'[<<p, t>>] = "none"
          BY <1>4, <1>5
        <4> QED
          BY <1>2, <3>1, <4>1
      <3>2. CASE q # p
        <4>1. tickInFlight'[q] = tickInFlight[q] /\ \A t \in Slot : section'[<<q, t>>] = section[<<q, t>>]
          BY <1>2, <1>4, <3>2
        <4> QED
          BY <4>1, Zenon DEF CyclesDoNotOverlap
      <3> QED
        BY <3>1, <3>2
    <2>2. ASSUME NEW q \in Process, NEW t \in Slot, NEW u \in Slot,
                 section'[<<q, t>>] # "none", section'[<<q, u>>] # "none"
          PROVE  t = u
      <3>1. section[<<q, t>>] # "none" /\ section[<<q, u>>] # "none"
        <4>1. section'[<<q, t>>] = "none" \/ section'[<<q, t>>] = section[<<q, t>>]
          BY <1>4
        <4>2. section'[<<q, u>>] = "none" \/ section'[<<q, u>>] = section[<<q, u>>]
          BY <1>4
        <4> QED
          BY <2>2, <4>1, <4>2
      <3> QED
        BY <3>1, Zenon DEF CyclesDoNotOverlap
    <2> QED
      BY <2>1, <2>2 DEF CyclesDoNotOverlap
  <1>7. \A d \in Cycle : held'[d] = IF d = c THEN NoJob ELSE held[d]
    BY <1>2
  <1>8. \A d \in Cycle : held'[d] # NoJob <=> section'[d] = "settling"
    BY <1>2, <1>7 DEF HeldJobsPending
  <1>9. HeldByOne'
    BY <1>7 DEF HeldByOne
  <1> QED
    BY <1>2, <1>3, <1>6, <1>7, <1>8, <1>9
-----------------------------------------------------------------------------
(* The inductive invariant.                                                   *)

LEMMA IInvInit == Init => IInv
  <1> SUFFICES ASSUME Init PROVE IInv
    OBVIOUS
  <1>1. TypeOK
    BY OpsCycleAssumption DEF Init, TypeOK, JobStatus
  <1>2. QueuedOrUnknown
    BY DEF Init, QueuedOrUnknown, IsUnknown
  <1>3. \A p \in Process, s \in Slot : section[<<p, s>>] = "none"
    BY DEF Init, Cycle
  <1>4. CyclesDoNotOverlap
    BY <1>3 DEF Init, CyclesDoNotOverlap
  <1>5. HeldJobsPending /\ HeldByOne
    BY DEF Init, HeldJobsPending, HeldByOne
  <1> QED
    BY <1>1, <1>2, <1>4, <1>5 DEF IInv

LEMMA IInvStep == IInv /\ [Next]_vars => IInv'
  <1> SUFFICES ASSUME IInv, [Next]_vars PROVE IInv'
    OBVIOUS
  <1> USE DEF IInv
  <1>1. ASSUME NEW p \in Process, Boot(p) PROVE IInv'
    <2>1. UNCHANGED <<tickInFlight, section, rows, stale, held, queued, unknown, job, faults>>
      BY <1>1 DEF Boot, cycleVars, dbVars
    <2>2. TypeOK'
      BY <1>1, <2>1 DEF TypeOK, Boot
    <2> QED
      BY <2>1, <2>2 DEF QueuedOrUnknown, IsUnknown, CyclesDoNotOverlap, HeldJobsPending, HeldByOne
  <1>2. ASSUME NEW p \in Process, Tick(p) PROVE IInv'
    <2>1. UNCHANGED <<up, timer, rows, stale, held, queued, unknown, job, faults>>
      BY <1>2 DEF Tick, dbVars
    <2>2. MayTick(p) /\ BeginCycle(p)
      BY <1>2 DEF Tick
    <2>3. /\ section' \in [Cycle -> Section \union {"none"}] /\ tickInFlight' \in [Process -> BOOLEAN]
          /\ CyclesDoNotOverlap' /\ HeldJobsPending'
      BY <2>1, <2>2, BeginCycleKeeps
    <2>4. TypeOK'
      BY <2>1, <2>3 DEF TypeOK
    <2> QED
      BY <2>1, <2>3, <2>4 DEF QueuedOrUnknown, IsUnknown, HeldByOne
  <1>3. ASSUME NEW p \in Process, StopScheduler(p) PROVE IInv'
    <2>1. UNCHANGED <<up, tickInFlight, section, rows, stale, held, queued, unknown, job>>
      BY <1>3 DEF StopScheduler, cycleVars, dbVars
    <2>2. TypeOK'
      BY <1>3, <2>1 DEF TypeOK, StopScheduler
    <2> QED
      BY <2>1, <2>2 DEF QueuedOrUnknown, IsUnknown, CyclesDoNotOverlap, HeldJobsPending, HeldByOne
  <1>4. ASSUME NEW p \in Process, Exit(p) PROVE IInv'
    <2>1. UNCHANGED <<queued, unknown, job>>
      BY <1>4 DEF Exit, dbVars
    <2>2. /\ section' = [c \in Cycle |-> IF c[1] = p THEN "none" ELSE section[c]]
          /\ held' = [c \in Cycle |-> IF c[1] = p THEN NoJob ELSE held[c]]
          /\ tickInFlight' = [tickInFlight EXCEPT ![p] = FALSE]
      BY <1>4 DEF Exit
    <2>3. rows' \in [Cycle -> Seq(Row)] /\ \A c \in Cycle : Len(rows'[c]) <= BatchSize
      BY <1>4, OpsCycleAssumption DEF TypeOK, Exit
    <2>4. stale' \in [Cycle -> SUBSET Job] /\ faults' \in Nat
      BY <1>4 DEF TypeOK, Exit
    <2>5. up' \in [Process -> BOOLEAN] /\ timer' \in [Process -> BOOLEAN]
      BY <1>4 DEF TypeOK, Exit
    <2>6. TypeOK'
      BY <2>1, <2>2, <2>3, <2>4, <2>5 DEF TypeOK
    <2>7. \A q \in Process, s \in Slot :
            section'[<<q, s>>] = IF q = p THEN "none" ELSE section[<<q, s>>]
      BY <2>2 DEF Cycle
    <2>8. \A q \in Process : tickInFlight'[q] = IF q = p THEN FALSE ELSE tickInFlight[q]
      BY <2>2 DEF TypeOK
    <2>9. CyclesDoNotOverlap'
      <3>1. ASSUME NEW q \in Process
            PROVE  tickInFlight'[q] <=> \E s \in Slot : section'[<<q, s>>] # "none"
        <4>1. CASE q = p
          BY <2>7, <2>8, <4>1
        <4>2. CASE q # p
          <5>1. tickInFlight'[q] = tickInFlight[q] /\ \A s \in Slot : section'[<<q, s>>] = section[<<q, s>>]
            BY <2>7, <2>8, <4>2
          <5> QED
            BY <5>1, Zenon DEF CyclesDoNotOverlap
        <4> QED
          BY <4>1, <4>2
      <3>2. ASSUME NEW q \in Process, NEW s \in Slot, NEW t \in Slot,
                   section'[<<q, s>>] # "none", section'[<<q, t>>] # "none"
            PROVE  s = t
        <4>1. section'[<<q, s>>] = "none" \/ section'[<<q, s>>] = section[<<q, s>>]
          BY <2>7
        <4>2. section'[<<q, t>>] = "none" \/ section'[<<q, t>>] = section[<<q, t>>]
          BY <2>7
        <4>3. section[<<q, s>>] # "none" /\ section[<<q, t>>] # "none"
          BY <3>2, <4>1, <4>2
        <4> QED
          BY <4>3, Zenon DEF CyclesDoNotOverlap
      <3> QED
        BY <3>1, <3>2, Zenon DEF CyclesDoNotOverlap
    <2>10. HeldJobsPending' /\ HeldByOne'
      BY <2>1, <2>2 DEF HeldJobsPending, HeldByOne
    <2> QED
      BY <2>1, <2>6, <2>9, <2>10 DEF QueuedOrUnknown, IsUnknown
  <1>5. ASSUME NEW p \in Process, NEW now \in BOOLEAN, StartScheduler(p, now) PROVE IInv'
    <2>1. UNCHANGED <<up, rows, stale, held, queued, unknown, job, faults>>
      BY <1>5 DEF StartScheduler, dbVars
    <2>2. /\ section' \in [Cycle -> Section \union {"none"}] /\ tickInFlight' \in [Process -> BOOLEAN]
          /\ CyclesDoNotOverlap' /\ HeldJobsPending'
      <3>1. CASE MayTick(p) /\ BeginCycle(p)
        BY <2>1, <3>1, BeginCycleKeeps
      <3>2. CASE UNCHANGED <<section, tickInFlight>>
        <4>1. CyclesDoNotOverlap'
          BY <3>2, SameCycles
        <4> QED
          BY <2>1, <3>2, <4>1 DEF TypeOK, HeldJobsPending
      <3> QED
        BY <1>5, <3>1, <3>2 DEF StartScheduler
    <2>3. TypeOK'
      BY <1>5, <2>1, <2>2 DEF TypeOK, StartScheduler
    <2> QED
      BY <2>1, <2>2, <2>3 DEF QueuedOrUnknown, IsUnknown, HeldByOne
  <1>6. ASSUME NEW j \in Job, PostResult(j) PROVE IInv'
    <2>1. UNCHANGED <<up, timer, tickInFlight, section, rows, stale, held, queued, unknown, faults>>
      BY <1>6 DEF PostResult, processVars, cycleVars
    <2>2. TypeOK'
      BY <1>6, <2>1 DEF TypeOK, PostResult, JobStatus
    <2>3. HeldJobsPending'
      BY <1>6, <2>1 DEF TypeOK, PostResult, HeldJobsPending
    <2> QED
      BY <2>1, <2>2, <2>3 DEF QueuedOrUnknown, IsUnknown, CyclesDoNotOverlap, HeldByOne
  <1>7. ASSUME NEW c \in Cycle, NEW S \in SUBSET Row, RecoverWalletRows(c, S) PROVE IInv'
    <2>1. /\ UNCHANGED <<up, timer, tickInFlight, rows, stale, held, unknown, job, faults>>
          /\ GoTo(c, "walletProcessing") /\ section[c] = "walletRecovery"
      BY <1>7 DEF RecoverWalletRows, processVars
    <2>2. section' \in [Cycle -> Section \union {"none"}] /\ CyclesDoNotOverlap' /\ HeldJobsPending'
      BY <2>1, SectionGoesOn DEF Section
    <2>3. TypeOK'
      BY <1>7, <2>1, <2>2 DEF TypeOK, RecoverWalletRows
    <2> QED
      BY <1>7, <2>1, <2>2, <2>3 DEF RecoverWalletRows, QueuedOrUnknown, IsUnknown, HeldByOne
  <1>8. ASSUME NEW c \in Cycle, NEW r \in Row, ProcessWalletRow(c, r) PROVE IInv'
    <2>1. /\ UNCHANGED <<up, timer, tickInFlight, section, rows, stale, held, job, faults>>
          /\ r \in queued /\ queued' = queued \ {r} /\ unknown' \in {unknown, Append(unknown, r)}
      BY <1>8 DEF ProcessWalletRow, TakeFromQueue, processVars, cycleVars
    <2>2. \A i \in DOMAIN unknown : unknown[i] # r
      BY <2>1 DEF QueuedOrUnknown, IsUnknown
    <2>3. /\ unknown' \in Seq(Row) /\ Distinct(unknown')
          /\ \A i \in DOMAIN unknown' : unknown'[i] = r \/ \E k \in DOMAIN unknown : unknown'[i] = unknown[k]
      <3>1. unknown \in Seq(Row) /\ Distinct(unknown)
        BY DEF TypeOK, Distinct
      <3>2. CASE unknown' = unknown
        BY <3>1, <3>2
      <3>3. CASE unknown' = Append(unknown, r)
        <4>1. unknown' \in Seq(Row) /\ Distinct(unknown')
          BY <2>2, <3>1, <3>3, AppendDistinct
        <4>2. ASSUME NEW i \in DOMAIN unknown', unknown'[i] # r
              PROVE  \E k \in DOMAIN unknown : unknown'[i] = unknown[k]
          BY <3>1, <3>3, <4>2, AppendProperties
        <4> QED
          BY <4>1, <4>2
      <3> QED
        BY <2>1, <3>2, <3>3
    <2>4. TypeOK'
      BY <2>1, <2>3 DEF TypeOK, Distinct
    <2>5. QueuedOrUnknown'
      BY <2>1, <2>3 DEF QueuedOrUnknown, IsUnknown
    <2> QED
      BY <2>1, <2>4, <2>5 DEF CyclesDoNotOverlap, HeldJobsPending, HeldByOne
  <1>9. ASSUME NEW c \in Cycle, WalletRowsProcessed(c) PROVE IInv'
    <2>1. /\ UNCHANGED <<up, timer, tickInFlight, rows, stale, held, queued, unknown, job, faults>>
          /\ GoTo(c, "walletReconciliation") /\ section[c] = "walletProcessing"
      BY <1>9 DEF WalletRowsProcessed, processVars, dbVars
    <2>2. section' \in [Cycle -> Section \union {"none"}] /\ CyclesDoNotOverlap' /\ HeldJobsPending'
      BY <2>1, SectionGoesOn DEF Section
    <2>3. TypeOK'
      BY <2>1, <2>2 DEF TypeOK
    <2> QED
      BY <2>1, <2>2, <2>3 DEF QueuedOrUnknown, IsUnknown, HeldByOne
  <1>10. ASSUME NEW c \in Cycle, ReadUnknownRows(c) PROVE IInv'
    <2>1. /\ UNCHANGED <<up, timer, tickInFlight, stale, held, queued, unknown, job, faults>>
          /\ GoTo(c, "reconciling") /\ section[c] = "walletReconciliation"
      BY <1>10 DEF ReadUnknownRows, processVars, dbVars
    <2>2. section' \in [Cycle -> Section \union {"none"}] /\ CyclesDoNotOverlap' /\ HeldJobsPending'
      BY <2>1, SectionGoesOn DEF Section
    <2>3. FirstRows(unknown) \in Seq(Row) /\ Len(FirstRows(unknown)) <= BatchSize
      BY FirstRowsType DEF TypeOK
    <2>4. rows' \in [Cycle -> Seq(Row)] /\ \A d \in Cycle : Len(rows'[d]) <= BatchSize
      BY <1>10, <2>3 DEF ReadUnknownRows, TypeOK
    <2>5. TypeOK'
      BY <2>1, <2>2, <2>4 DEF TypeOK
    <2> QED
      BY <2>1, <2>2, <2>5 DEF QueuedOrUnknown, IsUnknown, HeldByOne
  <1>11. ASSUME NEW c \in Cycle, ReconcileRow(c) PROVE IInv'
    <2>1. /\ UNCHANGED <<up, timer, tickInFlight, section, stale, held, queued, job, faults>>
          /\ rows[c] # <<>> /\ rows' = [rows EXCEPT ![c] = Tail(@)]
          /\ unknown' = unknown \/ \E i \in DOMAIN unknown : unknown' = RemoveAt(unknown, i)
      BY <1>11 DEF ReconcileRow, processVars
    <2>2. rows[c] \in Seq(Row) /\ Len(rows[c]) <= BatchSize
      BY DEF TypeOK
    <2>3. Tail(rows[c]) \in Seq(Row) /\ Len(Tail(rows[c])) <= BatchSize
      BY <2>1, <2>2, HeadTailProperties, OpsCycleAssumption
    <2>4. rows' \in [Cycle -> Seq(Row)] /\ \A d \in Cycle : Len(rows'[d]) <= BatchSize
      BY <2>1, <2>3 DEF TypeOK
    <2>5. /\ unknown' \in Seq(Row) /\ Distinct(unknown')
          /\ \A i \in DOMAIN unknown' : \E k \in DOMAIN unknown : unknown'[i] = unknown[k]
      <3>1. unknown \in Seq(Row) /\ Distinct(unknown)
        BY DEF TypeOK, Distinct
      <3> QED
        BY <2>1, <3>1, RemoveAtKeeps
    <2>6. TypeOK'
      BY <2>1, <2>4, <2>5 DEF TypeOK, Distinct
    <2>7. QueuedOrUnknown'
      BY <2>1, <2>5 DEF QueuedOrUnknown, IsUnknown
    <2>8. CyclesDoNotOverlap'
      BY <2>1, SameCycles
    <2> QED
      BY <2>1, <2>6, <2>7, <2>8 DEF HeldJobsPending, HeldByOne
  <1>12. ASSUME NEW c \in Cycle, RowsReconciled(c) PROVE IInv'
    <2>1. /\ UNCHANGED <<up, timer, tickInFlight, rows, stale, held, queued, unknown, job, faults>>
          /\ GoTo(c, "settlementRecovery") /\ section[c] = "reconciling"
      BY <1>12 DEF RowsReconciled, processVars, dbVars
    <2>2. section' \in [Cycle -> Section \union {"none"}] /\ CyclesDoNotOverlap' /\ HeldJobsPending'
      BY <2>1, SectionGoesOn DEF Section
    <2>3. TypeOK'
      BY <2>1, <2>2 DEF TypeOK
    <2> QED
      BY <2>1, <2>2, <2>3 DEF QueuedOrUnknown, IsUnknown, HeldByOne
  <1>13. ASSUME NEW c \in Cycle, NEW S \in SUBSET Job, SelectStaleJobs(c, S) PROVE IInv'
    <2>1. /\ UNCHANGED <<up, timer, tickInFlight, rows, held, queued, unknown, job, faults>>
          /\ GoTo(c, "recovering") /\ section[c] = "settlementRecovery"
          /\ stale' = [stale EXCEPT ![c] = S]
      BY <1>13 DEF SelectStaleJobs, processVars, dbVars
    <2>2. section' \in [Cycle -> Section \union {"none"}] /\ CyclesDoNotOverlap' /\ HeldJobsPending'
      BY <2>1, SectionGoesOn DEF Section
    <2>3. TypeOK'
      BY <2>1, <2>2 DEF TypeOK
    <2> QED
      BY <2>1, <2>2, <2>3 DEF QueuedOrUnknown, IsUnknown, HeldByOne
  <1>14. ASSUME NEW c \in Cycle, NEW j \in Job, RecoverJob(c, j) PROVE IInv'
    <2>1. /\ UNCHANGED <<up, timer, tickInFlight, section, rows, held, queued, unknown, faults>>
          /\ JobFree(j) /\ stale' = [stale EXCEPT ![c] = @ \ {j}]
          /\ job' = job \/ job' = [job EXCEPT ![j] = "PENDING"]
      BY <1>14 DEF RecoverJob, processVars
    <2>2. TypeOK'
      BY <2>1 DEF TypeOK, JobStatus
    <2>3. HeldJobsPending'
      BY <2>1 DEF TypeOK, JobFree, HeldJobsPending
    <2> QED
      BY <2>1, <2>2, <2>3 DEF QueuedOrUnknown, IsUnknown, CyclesDoNotOverlap, HeldByOne
  <1>15. ASSUME NEW c \in Cycle, JobsRecovered(c) PROVE IInv'
    <2>1. /\ UNCHANGED <<up, timer, tickInFlight, rows, stale, held, queued, unknown, job, faults>>
          /\ GoTo(c, "settlementProcessing") /\ section[c] = "recovering"
      BY <1>15 DEF JobsRecovered, processVars, dbVars
    <2>2. section' \in [Cycle -> Section \union {"none"}] /\ CyclesDoNotOverlap' /\ HeldJobsPending'
      BY <2>1, SectionGoesOn DEF Section
    <2>3. TypeOK'
      BY <2>1, <2>2 DEF TypeOK
    <2> QED
      BY <2>1, <2>2, <2>3 DEF QueuedOrUnknown, IsUnknown, HeldByOne
  <1>16. ASSUME NEW c \in Cycle, NEW j \in Job, ClaimJob(c, j) PROVE IInv'
    <2>1. /\ UNCHANGED <<up, timer, tickInFlight, rows, stale, queued, unknown, job, faults>>
          /\ section[c] = "settlementProcessing" /\ section' = [section EXCEPT ![c] = "settling"]
          /\ held' = [held EXCEPT ![c] = j] /\ job[j] = "PENDING" /\ JobFree(j)
      BY <1>16 DEF ClaimJob, IsOldestQueued, IsQueued, GoTo, processVars, dbVars
    <2>2. section' \in [Cycle -> Section \union {"none"}] /\ CyclesDoNotOverlap'
      BY <2>1, GoToKeeps DEF GoTo, Section
    <2>3. TypeOK'
      BY <2>1, <2>2 DEF TypeOK
    <2>4. \A d \in Cycle : held'[d] = IF d = c THEN j ELSE held[d]
      BY <2>1 DEF TypeOK
    <2>5. HeldJobsPending'
      BY <2>1, <2>4, OpsCycleAssumption DEF TypeOK, HeldJobsPending
    <2>6. HeldByOne'
      BY <2>1, <2>4 DEF JobFree, HeldByOne
    <2> QED
      BY <2>1, <2>2, <2>3, <2>5, <2>6 DEF QueuedOrUnknown, IsUnknown
  <1>17. ASSUME NEW c \in Cycle, NoQueuedJob(c) \/ SettlementFails(c) \/ SectionThrows(c) PROVE IInv'
    <2>1. /\ UNCHANGED <<up, timer, queued, unknown, job>> /\ faults' \in Nat
          /\ section[c] # "none" /\ EndCycle(c)
      BY <1>17 DEF NoQueuedJob, SettlementFails, SectionThrows, dbVars, TypeOK
    <2> QED
      BY <2>1, EndCycleKeeps DEF TypeOK, QueuedOrUnknown, IsUnknown, HeldJobsPending
  <1>18. ASSUME NEW c \in Cycle, SettleJob(c) PROVE IInv'
    <2>1. /\ UNCHANGED <<up, timer, queued, unknown, faults>>
          /\ section[c] = "settling" /\ EndCycle(c)
          /\ job' = [job EXCEPT ![held[c]] = "SUCCEEDED"]
      BY <1>18 DEF SettleJob
    <2>2. held[c] \in Job
      BY <2>1 DEF TypeOK, HeldJobsPending
    <2>3. job' \in [Job -> JobStatus]
      BY <2>1, <2>2 DEF TypeOK, JobStatus
    <2>4. TypeOK' /\ CyclesDoNotOverlap' /\ HeldByOne'
      BY <2>1, <2>3, EndCycleKeeps DEF TypeOK
    <2>5. HeldJobsPending'
      <3>1. \A d \in Cycle : held'[d] # NoJob <=> section'[d] = "settling"
        BY <2>1, EndCycleKeeps
      <3>2. ASSUME NEW d \in Cycle, held'[d] # NoJob PROVE job'[held'[d]] = "PENDING"
        <4>1. d # c /\ held[d] = held'[d]
          BY <2>1, <3>2, EndCycleKeeps
        <4>2. held[d] # held[c] /\ job[held[d]] = "PENDING" /\ held[d] \in Job
          BY <3>2, <4>1 DEF HeldByOne, HeldJobsPending, TypeOK
        <4> QED
          BY <2>1, <2>2, <4>1, <4>2 DEF TypeOK
      <3> QED
        BY <3>1, <3>2 DEF HeldJobsPending
    <2> QED
      BY <2>1, <2>4, <2>5 DEF QueuedOrUnknown, IsUnknown
  <1>19. CASE UNCHANGED vars
    <2>1. UNCHANGED <<up, timer, tickInFlight, section, rows, stale, held, queued, unknown, job, faults>>
      BY <1>19 DEF vars, processVars, cycleVars, dbVars
    <2> QED
      BY <2>1 DEF TypeOK, QueuedOrUnknown, IsUnknown, CyclesDoNotOverlap, HeldJobsPending, HeldByOne
  <1>20. ASSUME NEW c \in Cycle, CycleGoesOn(c) PROVE IInv'
    BY <1>7, <1>9, <1>10, <1>11, <1>12, <1>13, <1>15, <1>16, <1>17, <1>18, <1>20 DEF CycleGoesOn
  <1> QED
    BY <1>1, <1>2, <1>3, <1>4, <1>5, <1>6, <1>8, <1>14, <1>17, <1>19, <1>20 DEF Next

LEMMA Invariance == Spec => []IInv
  BY IInvInit, IInvStep, PTL DEF Spec
-----------------------------------------------------------------------------
(* Every variable keeps its type; no row is twice among the unknown ones, and *)
(* a cycle never has more rows to ask about than a batch.                     *)
THEOREM TypeCorrect == Spec => []TypeOK
  BY Invariance, PTL DEF IInv

(* tickInFlight is up exactly while a process has a cycle, and it has one at  *)
(* most, however its scheduler is stopped and started again.                  *)
THEOREM OneCycleAtATime == Spec => []CyclesDoNotOverlap
  BY Invariance, PTL DEF IInv

(* However many processes run cycles, a job is settled by one at a time, and  *)
(* only when it has not been settled.                                         *)
THEOREM OneCyclePerJob == Spec => []JobSettledByOne
  <1>1. IInv => JobSettledByOne
    BY DEF IInv, HeldJobsPending, HeldByOne, JobSettledByOne
  <1> QED
    BY <1>1, Invariance, PTL

(* A recovery never queues a job again that another cycle has settled since   *)
(* it was read.                                                               *)
THEOREM NoJobTwice == Spec => SettledJobsStay
  <1>1. IInv /\ [Next]_vars => [\A j \in Job : job[j] = "SUCCEEDED" => job'[j] = "SUCCEEDED"]_vars
    <2> SUFFICES ASSUME IInv, [Next]_vars, NEW j \in Job, job[j] = "SUCCEEDED"
                 PROVE  job'[j] = "SUCCEEDED" \/ UNCHANGED vars
      OBVIOUS
    <2> USE DEF IInv, TypeOK
    <2>1. ASSUME NEW i \in Job, PostResult(i) PROVE job'[j] = "SUCCEEDED"
      BY <2>1 DEF PostResult
    <2>2. ASSUME NEW c \in Cycle, NEW i \in Job, RecoverJob(c, i) PROVE job'[j] = "SUCCEEDED"
      BY <2>2 DEF RecoverJob, StillStale
    <2>3. ASSUME NEW c \in Cycle, SettleJob(c) PROVE job'[j] = "SUCCEEDED"
      BY <2>3 DEF SettleJob
    <2>4. ASSUME NEW c \in Cycle, CycleGoesOn(c) PROVE job'[j] = "SUCCEEDED"
      BY <2>3, <2>4
      DEF CycleGoesOn, RecoverWalletRows, WalletRowsProcessed, ReadUnknownRows, ReconcileRow,
          RowsReconciled, SelectStaleJobs, JobsRecovered, ClaimJob, NoQueuedJob, SettlementFails, dbVars
    <2>5. ASSUME NEW c \in Cycle,
                 SectionThrows(c) \/ \E r \in Row : ProcessWalletRow(c, r)
          PROVE  job'[j] = "SUCCEEDED"
      BY <2>5 DEF SectionThrows, ProcessWalletRow, dbVars
    <2>6. ASSUME NEW p \in Process,
                 \/ Boot(p) \/ Tick(p) \/ StopScheduler(p) \/ Exit(p)
                 \/ \E now \in BOOLEAN : StartScheduler(p, now)
          PROVE  job'[j] = "SUCCEEDED"
      BY <2>6 DEF Boot, Tick, StopScheduler, Exit, StartScheduler, dbVars
    <2> QED
      BY <2>1, <2>2, <2>4, <2>5, <2>6 DEF Next
  <1> QED
    BY <1>1, Invariance, PTL DEF Spec, SettledJobsStay
=============================================================================
