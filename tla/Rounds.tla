-------------------------------- MODULE Rounds --------------------------------
(* Rounds as administrators create and patch them: a patch reads the round    *)
(* without a lock, checks what it would become, and writes the columns it     *)
(* names.  Other patches and results may commit in between.                   *)
EXTENDS Naturals, Sequences

CONSTANTS
  Client,    \* requests in flight at a time
  Round,     \* round codes
  Instant,   \* times
  Patch,     \* the patches that are sent: functions on some of the columns
  NoRound, NoRequest,
  MaxEntries \* bound: audit entries of one round

Column == {"opens_at", "closes_at", "draws_at", "status"}
RoundStatus == {"DRAFT", "OPEN", "CLOSED", "RESULT_POSTED", "CANCELLED"}
RoundRecord == [opens_at : Instant, closes_at : Instant, draws_at : Instant, status : RoundStatus]

(* A patch on its way, with what it has read of its round.                    *)
Request == [round : Round, patch : Patch, seen : RoundRecord]

(* patchRoundSchema: RESULT_POSTED is not for a patch to set.                 *)
PatchOK(p) ==
  /\ DOMAIN p \subseteq Column
  /\ \A k \in DOMAIN p : IF k = "status" THEN p[k] \in RoundStatus \ {"RESULT_POSTED"} ELSE p[k] \in Instant

ASSUME RoundsAssumption ==
  /\ Instant \subseteq Nat
  /\ \A p \in Patch : PatchOK(p)
  /\ NoRound \notin RoundRecord /\ NoRequest \notin Request
  /\ MaxEntries \in Nat

VARIABLES
  round,   \* the row of each round, or NoRound
  audit,   \* its audit entries, oldest first
  request  \* the patch each client has sent and what it has read, or NoRequest

vars == <<round, audit, request>>

(* The round a patch makes of r.                                              *)
Patched(r, p) == [k \in Column |-> IF k \in DOMAIN p THEN p[k] ELSE r[k]]

(* The order the times of a round must have.                                  *)
TimesOrdered(r) == r.opens_at < r.closes_at /\ r.closes_at <= r.draws_at

Entry == [action : {"ROUND_CREATE", "ROUND_PATCH"}, after : RoundRecord] \union [action : {"RESULT_POST"}]

(* A patch is only on its way when it would be in order by what was read.     *)
TypeOK ==
  /\ round \in [Round -> RoundRecord \union {NoRound}]
  /\ audit \in [Round -> Seq(Entry)]
  /\ request \in [Client -> Request \union {NoRequest}]
  /\ \A c \in Client :
       request[c] # NoRequest => TimesOrdered(Patched(request[c].seen, request[c].patch))

Init ==
  /\ round = [r \in Round |-> NoRound]
  /\ audit = [r \in Round |-> <<>>]
  /\ request = [c \in Client |-> NoRequest]
-----------------------------------------------------------------------------
(* assertRoundTimeOrder of the domain package.                                *)
(* Mutant: the time of the draw is not compared.                              *)
assertOpensBeforeCloses(r) == r.opens_at < r.closes_at

assertRoundTimeOrder(r) == r.opens_at < r.closes_at /\ r.closes_at <= r.draws_at

(* The CHECK rounds_time_order of the table.                                  *)
(* Mutant: the table has none.                                                *)
NoCheck(r) == TRUE

rounds_time_order(r) == r.opens_at < r.closes_at /\ r.closes_at <= r.draws_at

Audited(r, entry) ==
  /\ Len(audit[r]) < MaxEntries
  /\ audit' = [audit EXCEPT ![r] = Append(@, entry)]

(* create; round_code is unique.                                              *)
Create(r, input) ==
  /\ round[r] = NoRound
  /\ input.status \in {"DRAFT", "OPEN"}
  /\ assertRoundTimeOrder(input) /\ rounds_time_order(input)
  /\ round' = [round EXCEPT ![r] = input]
  /\ Audited(r, [action |-> "ROUND_CREATE", after |-> input])
  /\ UNCHANGED request

(* patch, first half: getRound and the check of what was read; a round that   *)
(* is not there or would be out of order is refused.                          *)
GetRound(c, r, p) ==
  /\ request[c] = NoRequest
  /\ round[r] # NoRound
  /\ assertRoundTimeOrder(Patched(round[r], p))
  /\ request' = [request EXCEPT ![c] = [round |-> r, patch |-> p, seen |-> round[r]]]
  /\ UNCHANGED <<round, audit>>

(* What an UPDATE makes of the row: the columns the input names are written.  *)
(* Mutant: the whole record that was checked is written.                      *)
WritesWhatWasChecked(row, q) == Patched(q.seen, q.patch)

Updated(row, q) == Patched(row, q.patch)

(* The entry's after is the row the UPDATE returned.                          *)
(* Mutant: it is what was checked.                                            *)
AfterAsChecked(row, q) == Patched(q.seen, q.patch)

AuditedAfter(row, q) == Updated(row, q)

(* patch, second half: patchRound and audit.append, up to the commit.  The    *)
(* UPDATE waits for the row, finds it as it has become, and is checked.       *)
PatchRound(c) ==
  LET q == request[c]
      row == round[q.round]
  IN
  /\ q # NoRequest
  /\ rounds_time_order(Updated(row, q))
  /\ round' = [round EXCEPT ![q.round] = Updated(row, q)]
  /\ Audited(q.round, [action |-> "ROUND_PATCH", after |-> AuditedAfter(row, q)])
  /\ request' = [request EXCEPT ![c] = NoRequest]

(* The table's CHECK refuses the update, or the transaction fails.            *)
PatchFails(c) ==
  /\ request[c] # NoRequest
  /\ request' = [request EXCEPT ![c] = NoRequest]
  /\ UNCHANGED <<round, audit>>

(* post: createResultAndSettlementJob, whatever the round's status.           *)
PostResult(r) ==
  /\ round[r] # NoRound
  /\ round' = [round EXCEPT ![r].status = "RESULT_POSTED"]
  /\ Audited(r, [action |-> "RESULT_POST"])
  /\ UNCHANGED request

Next ==
  \/ \E r \in Round : \/ \E input \in RoundRecord : Create(r, input)
                      \/ PostResult(r)
  \/ \E c \in Client : \/ \E r \in Round, p \in Patch : GetRound(c, r, p)
                       \/ PatchRound(c) \/ PatchFails(c)

Spec == Init /\ [][Next]_vars
-----------------------------------------------------------------------------
(* The times of a round are in order, also when two patches that each were in *)
(* order by what they had read are not in order together.                     *)
TimesInOrder == \A r \in Round : round[r] # NoRound => TimesOrdered(round[r])

(* No change is lost: a column changes only to what a patch that names it, or *)
(* a posted result, has just written, so that patches of different columns    *)
(* both last whatever the order in which they read and write.                 *)
NamedBySomePatch(r, k, v) ==
  \E c \in Client :
    /\ request[c] # NoRequest /\ request'[c] = NoRequest
    /\ request[c].round = r /\ k \in DOMAIN request[c].patch /\ request[c].patch[k] = v

OnlyNamedColumnsChange ==
  [][\A r \in Round : round[r] # NoRound =>
       /\ round'[r] # NoRound
       /\ \A k \in Column :
            \/ round'[r][k] = round[r][k]
            \/ NamedBySomePatch(r, k, round'[r][k])
            \/ k = "status" /\ round'[r][k] = "RESULT_POSTED"]_vars

(* The trail of a round ends at the round: what the last entry of a creation  *)
(* or a patch says came after it is the row as it is, but for a result posted *)
(* since.                                                                     *)
AuditEndsAtRound ==
  \A r \in Round : \A n \in DOMAIN audit[r] :
    LET later == (n + 1)..Len(audit[r]) IN
    audit[r][n].action # "RESULT_POST" /\ (\A i \in later : audit[r][i].action = "RESULT_POST") =>
      round[r] = [audit[r][n].after EXCEPT !.status = IF later = {} THEN @ ELSE "RESULT_POSTED"]
=============================================================================
