----------------------------- MODULE RoundsProofs -----------------------------
(* Theorems about Rounds: its types, the order of a round's times, and that   *)
(* no patch is lost, however many are in flight.                              *)
EXTENDS Rounds, TLAPS

USE DEF Column

(* A patch changes a round into a round.                                      *)
LEMMA PatchedType ==
  ASSUME NEW r \in RoundRecord, NEW p \in Patch
  PROVE  Patched(r, p) \in RoundRecord
  <1> DEFINE n == Patched(r, p)
  <1>1. PatchOK(p)
    BY RoundsAssumption
  <1>2. n.opens_at \in Instant /\ n.closes_at \in Instant /\ n.draws_at \in Instant
    BY <1>1 DEF Patched, PatchOK, RoundRecord
  <1>3. n.status \in RoundStatus
    BY <1>1 DEF Patched, PatchOK, RoundRecord
  <1>4. n = [opens_at |-> n.opens_at, closes_at |-> n.closes_at,
             draws_at |-> n.draws_at, status |-> n.status]
    BY DEF Patched
  <1> QED
    BY <1>2, <1>3, <1>4 DEF RoundRecord

(* A round that exists is a record.                                           *)
LEMMA RowIsRecord ==
  ASSUME TypeOK, NEW r \in Round, round[r] # NoRound
  PROVE  round[r] \in RoundRecord
  BY DEF TypeOK

(* An entry that is added is the last.                                        *)
LEMMA AuditedType ==
  ASSUME TypeOK, NEW r \in Round, NEW entry \in Entry, Audited(r, entry)
  PROVE  audit' \in [Round -> Seq(Entry)]
  BY DEF TypeOK, Audited

(* A round that a request has read stays: rounds are not deleted.             *)
RequestedRoundsExist ==
  \A c \in Client : request[c] # NoRequest => round[request[c].round] # NoRound

TypeInv == TypeOK /\ RequestedRoundsExist

LEMMA TypeInvInit == Init => TypeInv
  BY DEF Init, TypeInv, TypeOK, RequestedRoundsExist

LEMMA TypeInvStep == TypeInv /\ [Next]_vars => TypeInv'
  <1> SUFFICES ASSUME TypeInv, [Next]_vars PROVE TypeInv'
    OBVIOUS
  <1> USE DEF TypeInv
  <1>1. ASSUME NEW r \in Round, NEW input \in RoundRecord, Create(r, input) PROVE TypeInv'
    <2>1. [action |-> "ROUND_CREATE", after |-> input] \in Entry
      BY DEF Entry
    <2>2. audit' \in [Round -> Seq(Entry)]
      BY <1>1, <2>1, AuditedType DEF Create
    <2>3. input # NoRound
      BY RoundsAssumption
    <2> QED
      BY <1>1, <2>2, <2>3 DEF TypeOK, RequestedRoundsExist, Create, Request
  <1>2. ASSUME NEW r \in Round, PostResult(r) PROVE TypeInv'
    <2>1. [action |-> "RESULT_POST"] \in Entry
      BY DEF Entry
    <2>2. audit' \in [Round -> Seq(Entry)]
      BY <1>2, <2>1, AuditedType DEF PostResult
    <2>3. [round[r] EXCEPT !.status = "RESULT_POSTED"] \in RoundRecord
      BY <1>2, RowIsRecord DEF PostResult, RoundRecord, RoundStatus
    <2>4. [round[r] EXCEPT !.status = "RESULT_POSTED"] # NoRound
      BY <2>3, RoundsAssumption
    <2> QED
      BY <1>2, <2>2, <2>3, <2>4 DEF TypeOK, RequestedRoundsExist, PostResult, Request
  <1>3. ASSUME NEW c \in Client, NEW r \in Round, NEW p \in Patch, GetRound(c, r, p) PROVE TypeInv'
    <2> DEFINE q == [round |-> r, patch |-> p, seen |-> round[r]]
    <2>1. q \in Request /\ TimesOrdered(Patched(q.seen, q.patch))
      BY <1>3, RowIsRecord DEF GetRound, Request, TimesOrdered, assertRoundTimeOrder
    <2>2. \A d \in Client : request'[d] = IF d = c THEN q ELSE request[d]
      BY <1>3 DEF TypeOK, GetRound
    <2> QED
      BY <1>3, <2>1, <2>2 DEF TypeOK, RequestedRoundsExist, GetRound
  <1>4. ASSUME NEW c \in Client, PatchRound(c) PROVE TypeInv'
    <2> DEFINE q == request[c]
               row == round[q.round]
    <2>1. q \in Request /\ row # NoRound
      BY <1>4 DEF TypeOK, PatchRound, RequestedRoundsExist
    <2>2. Patched(row, q.patch) \in RoundRecord
      BY <2>1, RowIsRecord, PatchedType DEF Request
    <2>3. [action |-> "ROUND_PATCH", after |-> AuditedAfter(row, q)] \in Entry
      BY <2>2 DEF Entry, AuditedAfter, Updated
    <2>4. audit' \in [Round -> Seq(Entry)]
      BY <1>4, <2>1, <2>3, AuditedType DEF PatchRound, Request
    <2>5. Patched(row, q.patch) # NoRound
      BY <2>2, RoundsAssumption
    <2>6. \A d \in Client : request'[d] = IF d = c THEN NoRequest ELSE request[d]
      BY <1>4 DEF TypeOK, PatchRound
    <2> QED
      BY <1>4, <2>1, <2>2, <2>4, <2>5, <2>6 DEF TypeOK, RequestedRoundsExist, PatchRound, Updated, Request
  <1>5. ASSUME NEW c \in Client, PatchFails(c) PROVE TypeInv'
    <2>1. \A d \in Client : request'[d] = IF d = c THEN NoRequest ELSE request[d]
      BY <1>5 DEF TypeOK, PatchFails
    <2> QED
      BY <1>5, <2>1 DEF TypeOK, RequestedRoundsExist, PatchFails
  <1>6. CASE UNCHANGED vars
    BY <1>6 DEF TypeOK, RequestedRoundsExist, vars
  <1> QED
    BY <1>1, <1>2, <1>3, <1>4, <1>5, <1>6 DEF Next

(* Every variable keeps its type; in particular a patch is only on its way    *)
(* when it passed assertRoundTimeOrder by what it had read.                   *)
THEOREM TypeCorrect == Spec => []TypeOK
  <1>1. Spec => []TypeInv
    BY TypeInvInit, TypeInvStep, PTL DEF Spec
  <1>2. TypeInv => TypeOK
    BY DEF TypeInv
  <1> QED
    BY <1>1, <1>2, PTL
-----------------------------------------------------------------------------
LEMMA TimesInit == Init => TimesInOrder
  BY DEF Init, TimesInOrder

LEMMA TimesStep == TypeInv /\ TimesInOrder /\ [Next]_vars => TimesInOrder'
  <1> SUFFICES ASSUME TypeInv, TimesInOrder, [Next]_vars PROVE TimesInOrder'
    OBVIOUS
  <1>1. ASSUME NEW r \in Round, NEW input \in RoundRecord, Create(r, input) PROVE TimesInOrder'
    BY <1>1 DEF TypeInv, TypeOK, TimesInOrder, TimesOrdered, Create, rounds_time_order
  <1>2. ASSUME NEW r \in Round, PostResult(r) PROVE TimesInOrder'
    <2>1. /\ round'[r].opens_at = round[r].opens_at
          /\ round'[r].closes_at = round[r].closes_at
          /\ round'[r].draws_at = round[r].draws_at
      BY <1>2, RowIsRecord DEF TypeInv, TypeOK, PostResult, RoundRecord
    <2> QED
      BY <1>2, <2>1 DEF TypeInv, TypeOK, TimesInOrder, TimesOrdered, PostResult
  <1>3. ASSUME NEW c \in Client, NEW r \in Round, NEW p \in Patch, GetRound(c, r, p) PROVE TimesInOrder'
    BY <1>3 DEF TimesInOrder, TimesOrdered, GetRound
  <1>4. ASSUME NEW c \in Client, PatchRound(c) PROVE TimesInOrder'
    <2>1. request[c].round \in Round
      BY <1>4 DEF TypeInv, TypeOK, PatchRound, Request
    <2> QED
      BY <1>4, <2>1 DEF TypeInv, TypeOK, TimesInOrder, TimesOrdered, PatchRound, rounds_time_order
  <1>5. ASSUME NEW c \in Client, PatchFails(c) PROVE TimesInOrder'
    BY <1>5 DEF TimesInOrder, TimesOrdered, PatchFails
  <1>6. CASE UNCHANGED vars
    BY <1>6 DEF TimesInOrder, TimesOrdered, vars
  <1> QED
    BY <1>1, <1>2, <1>3, <1>4, <1>5, <1>6 DEF Next

(* The times of a round are in order whatever patches were checked against    *)
(* what: the table's CHECK sees the row as it becomes.                        *)
THEOREM TimesStayInOrder == Spec => []TimesInOrder
  BY TypeInvInit, TypeInvStep, TimesInit, TimesStep, PTL DEF Spec
-----------------------------------------------------------------------------
(* What OnlyNamedColumnsChange says of one step.                              *)
NamedColumns ==
  \A r \in Round : round[r] # NoRound =>
    /\ round'[r] # NoRound
    /\ \A k \in Column :
         \/ round'[r][k] = round[r][k]
         \/ NamedBySomePatch(r, k, round'[r][k])
         \/ k = "status" /\ round'[r][k] = "RESULT_POSTED"

LEMMA NamedColumnsStep == TypeInv /\ TypeInv' /\ [Next]_vars => NamedColumns
  <1> SUFFICES ASSUME TypeInv, TypeInv', [Next]_vars,
                      NEW s \in Round, round[s] # NoRound
               PROVE  /\ round'[s] # NoRound
                      /\ \A k \in Column :
                           \/ round'[s][k] = round[s][k]
                           \/ NamedBySomePatch(s, k, round'[s][k])
                           \/ k = "status" /\ round'[s][k] = "RESULT_POSTED"
    BY DEF NamedColumns
  <1> USE DEF TypeInv
  <1>1. ASSUME NEW r \in Round, NEW input \in RoundRecord, Create(r, input)
        PROVE  round'[s] = round[s]
    BY <1>1 DEF TypeOK, Create
  <1>2. ASSUME NEW r \in Round, PostResult(r)
        PROVE  /\ round'[s] # NoRound
               /\ \A k \in Column : \/ round'[s][k] = round[s][k]
                                    \/ k = "status" /\ round'[s][k] = "RESULT_POSTED"
    <2>1. CASE r # s
      BY <1>2, <2>1 DEF TypeOK, PostResult
    <2>2. CASE r = s
      <3>1. round'[s] = [round[s] EXCEPT !.status = "RESULT_POSTED"] /\ round[s] \in RoundRecord
        BY <1>2, <2>2, RowIsRecord DEF TypeOK, PostResult
      <3>2. round'[s] \in RoundRecord
        BY <3>1 DEF RoundRecord, RoundStatus
      <3> QED
        BY <3>1, <3>2, RoundsAssumption DEF RoundRecord
    <2> QED
      BY <2>1, <2>2
  <1>3. ASSUME NEW c \in Client, PatchRound(c)
        PROVE  /\ round'[s] # NoRound
               /\ \A k \in Column : \/ round'[s][k] = round[s][k]
                                    \/ NamedBySomePatch(s, k, round'[s][k])
    <2> DEFINE q == request[c]
    <2>1. q \in Request /\ q # NoRequest /\ request'[c] = NoRequest
      BY <1>3 DEF TypeOK, PatchRound
    <2>2. CASE q.round # s
      BY <1>3, <2>1, <2>2 DEF TypeOK, PatchRound, Request
    <2>3. CASE q.round = s
      <3>1. round'[s] = Patched(round[s], q.patch)
        BY <1>3, <2>1, <2>3 DEF TypeOK, PatchRound, Request, Updated
      <3>2. Patched(round[s], q.patch) \in RoundRecord
        BY <2>1, RowIsRecord, PatchedType DEF Request
      <3>3. \A k \in Column : k \notin DOMAIN q.patch => round'[s][k] = round[s][k]
        BY <3>1 DEF Patched
      <3>4. \A k \in Column : k \in DOMAIN q.patch => round'[s][k] = q.patch[k]
        BY <3>1 DEF Patched
      <3> QED
        BY <2>1, <2>3, <3>1, <3>2, <3>3, <3>4, RoundsAssumption DEF NamedBySomePatch
    <2> QED
      BY <2>2, <2>3
  <1>4. ASSUME NEW c \in Client, \/ \E r \in Round, p \in Patch : GetRound(c, r, p)
                                 \/ PatchFails(c)
        PROVE  round'[s] = round[s]
    BY <1>4 DEF GetRound, PatchFails
  <1>5. CASE UNCHANGED vars
    BY <1>5 DEF vars
  <1> QED
    BY <1>1, <1>2, <1>3, <1>4, <1>5 DEF Next

(* A column changes only to what a patch that names it, or a posted result,   *)
(* writes: patches of different columns both last.                            *)
THEOREM PatchesAreNotLost == Spec => OnlyNamedColumnsChange
  <1>1. Spec => [][NamedColumns]_vars
    BY TypeInvInit, TypeInvStep, NamedColumnsStep, PTL DEF Spec
  <1> QED
    BY <1>1 DEF OnlyNamedColumnsChange, NamedColumns
-----------------------------------------------------------------------------
(* What AuditEndsAtRound says of one entry.                                   *)
EntryExplains(r, n) ==
  LET later == (n + 1)..Len(audit[r]) IN
  audit[r][n].action # "RESULT_POST" /\ (\A i \in later : audit[r][i].action = "RESULT_POST") =>
    round[r] = [audit[r][n].after EXCEPT !.status = IF later = {} THEN @ ELSE "RESULT_POSTED"]

LEMMA AuditByEntry == AuditEndsAtRound <=> \A r \in Round : \A n \in DOMAIN audit[r] : EntryExplains(r, n)
  BY DEF AuditEndsAtRound, EntryExplains

LEMMA AuditByEntryNext ==
  AuditEndsAtRound' <=> \A r \in Round : \A n \in DOMAIN audit'[r] : EntryExplains(r, n)'
  BY DEF AuditEndsAtRound, EntryExplains

(* An entry that says what the row has become is all that counts.             *)
LEMMA RecordedChange ==
  ASSUME TypeOK, AuditEndsAtRound, NEW r \in Round, NEW row \in RoundRecord,
         NEW a \in {"ROUND_CREATE", "ROUND_PATCH"},
         round' = [round EXCEPT ![r] = row],
         audit' = [audit EXCEPT ![r] = Append(@, [action |-> a, after |-> row])]
  PROVE  AuditEndsAtRound'
  <1> SUFFICES ASSUME NEW s \in Round, NEW n \in DOMAIN audit'[s] PROVE EntryExplains(s, n)'
    BY AuditByEntryNext
  <1>1. CASE s # r
    <2>1. audit'[s] = audit[s] /\ round'[s] = round[s]
      BY <1>1 DEF TypeOK
    <2>2. n \in DOMAIN audit[s] /\ EntryExplains(s, n)
      BY <2>1, AuditByEntry
    <2> QED
      BY <2>1, <2>2 DEF EntryExplains
  <1>2. CASE s = r
    <2> DEFINE k == Len(audit[r])
    <2>1. /\ audit[r] \in Seq(Entry)
          /\ audit'[r] = Append(audit[r], [action |-> a, after |-> row]) /\ round'[r] = row
      BY DEF TypeOK
    <2>2. /\ k \in Nat /\ Len(audit'[r]) = k + 1 /\ n \in 1..(k + 1)
          /\ audit'[r][k + 1] = [action |-> a, after |-> row]
      BY <1>2, <2>1
    <2>3. CASE n = k + 1
      <3>1. (n + 1)..Len(audit'[r]) = {}
        BY <2>2, <2>3
      <3> QED
        BY <1>2, <2>1, <2>2, <2>3, <3>1 DEF EntryExplains, RoundRecord
    <2>4. CASE n \in 1..k
      <3>1. k + 1 \in (n + 1)..Len(audit'[r]) /\ audit'[r][k + 1].action # "RESULT_POST"
        BY <2>2, <2>4
      <3> QED
        BY <1>2, <3>1 DEF EntryExplains
    <2> QED
      BY <2>2, <2>3, <2>4
  <1> QED
    BY <1>1, <1>2

LEMMA AuditInit == Init => AuditEndsAtRound
  BY DEF Init, AuditEndsAtRound

LEMMA AuditStep == TypeInv /\ AuditEndsAtRound /\ [Next]_vars => AuditEndsAtRound'
  <1> SUFFICES ASSUME TypeInv, AuditEndsAtRound, [Next]_vars PROVE AuditEndsAtRound'
    OBVIOUS
  <1> USE DEF TypeInv
  <1>1. ASSUME NEW r \in Round, NEW input \in RoundRecord, Create(r, input) PROVE AuditEndsAtRound'
    BY <1>1, RecordedChange DEF Create, Audited
  <1>2. ASSUME NEW r \in Round, PostResult(r) PROVE AuditEndsAtRound'
    <2> SUFFICES ASSUME NEW s \in Round, NEW n \in DOMAIN audit'[s] PROVE EntryExplains(s, n)'
      BY AuditByEntryNext
    <2>1. CASE s # r
      <3>1. audit'[s] = audit[s] /\ round'[s] = round[s]
        BY <1>2, <2>1 DEF TypeOK, PostResult, Audited
      <3> QED
        BY <3>1, AuditByEntry DEF EntryExplains
    <2>2. CASE s = r
      <3> DEFINE k == Len(audit[r])
                 posted == [action |-> "RESULT_POST"]
      <3>1. /\ audit[r] \in Seq(Entry) /\ audit'[r] = Append(audit[r], posted)
            /\ round[r] \in RoundRecord /\ round'[r] = [round[r] EXCEPT !.status = "RESULT_POSTED"]
        BY <1>2, RowIsRecord DEF TypeOK, PostResult, Audited
      <3> HIDE DEF posted
      <3>2. /\ k \in Nat /\ Len(audit'[r]) = k + 1 /\ n \in 1..(k + 1) /\ DOMAIN audit[r] = 1..k
            /\ audit'[r][k + 1] = posted
            /\ \A i \in 1..k : audit'[r][i] = audit[r][i]
        BY <2>2, <3>1
      <3>3. CASE n = k + 1
        BY <2>2, <3>2, <3>3 DEF EntryExplains, posted
      <3>4. CASE n \in 1..k
        <4> SUFFICES ASSUME audit[r][n].action # "RESULT_POST",
                            \A i \in (n + 1)..(k + 1) : audit'[r][i].action = "RESULT_POST"
                     PROVE  round'[r] = [audit[r][n].after EXCEPT !.status = "RESULT_POSTED"]
          <5>1. k + 1 \in (n + 1)..Len(audit'[r])
            BY <3>2, <3>4
          <5> QED
            BY <2>2, <3>2, <3>4, <5>1 DEF EntryExplains
        <4>1. \A i \in (n + 1)..k : audit[r][i].action = "RESULT_POST"
          BY <3>2, <3>4
        <4>2. round[r] = [audit[r][n].after EXCEPT !.status = IF (n + 1)..k = {} THEN @ ELSE "RESULT_POSTED"]
          BY <3>2, <3>4, <4>1, AuditByEntry DEF EntryExplains
        <4>3. audit[r][n].after \in RoundRecord
          BY <3>1, <3>2, <3>4 DEF Entry
        <4> QED
          BY <3>1, <4>2, <4>3 DEF RoundRecord
      <3> QED
        BY <3>2, <3>3, <3>4
    <2> QED
      BY <2>1, <2>2
  <1>3. ASSUME NEW c \in Client, NEW r \in Round, NEW p \in Patch, GetRound(c, r, p) PROVE AuditEndsAtRound'
    BY <1>3 DEF AuditEndsAtRound, GetRound
  <1>4. ASSUME NEW c \in Client, PatchRound(c) PROVE AuditEndsAtRound'
    <2> DEFINE q == request[c]
               row == round[q.round]
    <2>1. q \in Request /\ row # NoRound
      BY <1>4 DEF TypeOK, PatchRound, RequestedRoundsExist
    <2>2. Updated(row, q) \in RoundRecord
      BY <2>1, RowIsRecord, PatchedType DEF Request, Updated
    <2> QED
      BY <1>4, <2>1, <2>2, RecordedChange DEF PatchRound, Audited, AuditedAfter, Request
  <1>5. ASSUME NEW c \in Client, PatchFails(c) PROVE AuditEndsAtRound'
    BY <1>5 DEF AuditEndsAtRound, PatchFails
  <1>6. CASE UNCHANGED vars
    BY <1>6 DEF AuditEndsAtRound, vars
  <1> QED
    BY <1>1, <1>2, <1>3, <1>4, <1>5, <1>6 DEF Next

(* The last entry of a round's creation or patches says what the row is, but  *)
(* for results posted since, whatever the patches had read.                   *)
THEOREM AuditTrailEndsAtRound == Spec => []AuditEndsAtRound
  BY TypeInvInit, TypeInvStep, AuditInit, AuditStep, PTL DEF Spec
=============================================================================
