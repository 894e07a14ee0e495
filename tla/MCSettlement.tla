---------------------------- MODULE MCSettlement ----------------------------
(* Instances of Settlement with two workers: Mixed for the safety properties, *)
(* Cross for deadlocks and for what is left of a run that fails.              *)
EXTENDS Settlement, TLC

CONSTANTS w1, w2, u1, u2

TwoWorkers == {w1, w2}
TwoUsers == {u1, u2}
WorkersAlike == Permutations(Worker)

(* Round r1 has two manual winners, one of each user, and an external winner  *)
(* whose debit may come late; its result is posted twice (jobs 1 and 3), and  *)
(* the second time ticket 2 loses.                                            *)
(* Round r2 has two manual winners in the other order of users (job 2) and an *)
(* external loser.                                                            *)
MixedTickets == 1..6
MixedTicketRound == <<"r1", "r1", "r1", "r2", "r2", "r2">>
MixedOwner == <<u1, u2, u1, u2, u1, u2>>
MixedManual == {1, 2, 4, 5}
MixedPayout == <<1, 2, 1, 1, 1, 1>>
MixedJobs == 1..3
MixedJobRound == <<"r1", "r2", "r1">>
MixedWins == <<{1, 2, 3}, {4, 5}, {1, 3}>>

(* Two rounds with one job each, for liveness: the two users' accounts are    *)
(* locked in opposite order, and an external ticket is funded late.           *)
CrossTickets == 1..5
CrossTicketRound == <<"r1", "r1", "r2", "r2", "r2">>
CrossOwner == <<u1, u2, u2, u1, u1>>
CrossManual == {1, 2, 3, 4}
CrossPayout == <<1, 1, 1, 1, 1>>
CrossJobs == 1..2
CrossJobRound == <<"r1", "r2">>
CrossWins == <<{1, 2}, {3, 4}>>
=============================================================================
