---------------------------- MODULE MCCreditLedger ----------------------------
(* Instances of CreditLedger for TLC: bets on the last and the last two       *)
(* digits at odds of 2.5 and 4.                                               *)
EXTENDS CreditLedger

CONSTANTS t1, t2

SmallOdds == [code \in betTypeCodes |-> IF code = "ONE_DIGIT" THEN 10 ELSE 16]

Bet(code, number, stake) == [bet_type |-> code, selection |-> number, stake |-> stake]

(* A bet of a cent; one of a cent and a half with one of half a cent; one     *)
(* whose selection is too short; and one whose stake comes to nothing beside  *)
(* one whose stake does not.                                                  *)
Slips == { <<Bet("ONE_DIGIT", <<7>>, 4)>>,
           <<Bet("ONE_DIGIT", <<7>>, 6), Bet("TWO_STRAIGHT", <<1, 7>>, 2)>>,
           <<Bet("TWO_STRAIGHT", <<7>>, 4)>>,
           <<Bet("ONE_DIGIT", <<1>>, 4), Bet("ONE_DIGIT", <<7>>, 1)>> }

(* The last digits win under one result and lose under the other, which       *)
(* begins with them.                                                          *)
Results == {<<2, 5, 5, 4, 1, 7>>, <<7, 1, 7, 4, 8, 1>>}
=============================================================================
