--------------------------- MODULE MCTicketConfirm ---------------------------
(* Instances of TicketConfirm: of the quotes of one round q1 and q2 are       *)
(* manual ones of one user, q3 is paid by an external wallet.                 *)
EXTENDS TicketConfirm, TLC

CONSTANTS c1, c2, u1, r1, q1, q2, q3

OneRound == [q \in Quote |-> r1]
ManualQuotes == {q1, q2} \cap Quote
OneUser == [q \in ManualQuotes |-> u1]
Stakes == [q \in Quote |-> IF q = q1 THEN 1 ELSE 2]
=============================================================================
