--------------------------- MODULE MCWalletOutbox ---------------------------
(* Model values and symmetry for checking WalletOutbox.                       *)
EXTENDS WalletOutbox, TLC

CONSTANTS t1, t2, w1, w2

OneTicket == {t1}
TwoTickets == {t1, t2}
OneWorker == {w1}
TwoWorkers == {w1, w2}
EveryMark == {"PROCESSING", "SUCCEEDED", "FAILED", "UNKNOWN"}
Alike == Permutations(Worker) \union Permutations(Ticket)
=============================================================================
