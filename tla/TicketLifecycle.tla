-------------------------- MODULE TicketLifecycle ---------------------------
(* What the lottery promises the holder of an external-wallet ticket: the     *)
(* order in which its ticket may pass through its phases.  A doubt about the  *)
(* stake or the payout is only ever resolved, a rejected or lost ticket stays *)
(* so, a ticket is settled once and only when it is funded, and a paid one is *)
(* never anything else again.  WalletOutbox implements it.                    *)
EXTENDS Naturals

CONSTANT Ticket

VARIABLE phase

Phase == {"none", "awaitingFunds", "fundingInDoubt", "funded", "rejected", "lost",
          "payoutDue", "payoutInDoubt", "paid", "payoutFailed"}

(* The phases that may come next.                                             *)
Successors(p) ==
  CASE p = "none"           -> {"awaitingFunds"}
    [] p = "awaitingFunds"  -> {"funded", "rejected", "fundingInDoubt"}
    [] p = "fundingInDoubt" -> {"funded", "rejected"}
    [] p = "funded"         -> {"lost", "payoutDue"}
    [] p = "payoutDue"      -> {"paid", "payoutFailed", "payoutInDoubt"}
    [] p = "payoutInDoubt"  -> {"paid", "payoutFailed"}
    [] OTHER                -> {}

Init == phase = [t \in Ticket |-> "none"]

Advance(t) == \E p \in Successors(phase[t]) : phase' = [phase EXCEPT ![t] = p]

Next == \E t \in Ticket : Advance(t)

Spec == Init /\ [][Next]_phase
-----------------------------------------------------------------------------
(* How far a ticket has come.                                                 *)
Rank(p) ==
  CASE p = "none"           -> 0
    [] p = "awaitingFunds"  -> 1
    [] p = "fundingInDoubt" -> 2
    [] p = "funded"         -> 3
    [] p = "payoutDue"      -> 4
    [] p = "payoutInDoubt"  -> 5
    [] OTHER                -> 6

(* A ticket only ever goes forward, so that it enters no phase twice and, once*)
(* rejected, lost, paid or refused its payout, stays so.                      *)
OnlyForward == [][\A t \in Ticket : phase'[t] # phase[t] => Rank(phase'[t]) > Rank(phase[t])]_phase
=============================================================================
