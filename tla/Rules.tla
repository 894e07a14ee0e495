-------------------------------- MODULE Rules --------------------------------
(* Straight bets on the last digits of a six-digit result.  The rule is       *)
(* written down three times: matchStraightBet and p0StraightPlugins of the    *)
(* rules package, and a matchStraightBet of the settlement worker's own.      *)
EXTENDS Integers, Sequences

Digit == 0..9

betTypeDigits ==
  [ONE_DIGIT |-> 1, TWO_STRAIGHT |-> 2, THREE_STRAIGHT |-> 3,
   FOUR_STRAIGHT |-> 4, FIVE_STRAIGHT |-> 5, SIX_STRAIGHT |-> 6]

betTypeCodes == {"ONE_DIGIT", "TWO_STRAIGHT", "THREE_STRAIGHT",
                 "FOUR_STRAIGHT", "FIVE_STRAIGHT", "SIX_STRAIGHT"}

(* A number is the sequence of its digits; result6dSchema asks for six.       *)
Number == Seq(Digit)
Result6d == {r \in Number : Len(r) = 6}

(* number.slice(-n), for n up to the length.                                  *)
Tail6d(r, n) == SubSeq(r, Len(r) - n + 1, Len(r))

(* deriveOutcomes: tail1 to tail6, the last being the result itself.          *)
deriveOutcomes(r) == [n \in 1..6 |-> IF n = 6 THEN r ELSE Tail6d(r, n)]

validateStraightSelectionLength(code, number) == Len(number) = betTypeDigits[code]

matchStraightBet(code, number, r) ==
  /\ validateStraightSelectionLength(code, number)
  /\ number = deriveOutcomes(r)[betTypeDigits[code]]

(* p0StraightPlugins: match does not ask for the length.                      *)
PluginValidates(code, number) == Len(number) = betTypeDigits[code]
PluginMatches(code, number, outcomes) == number = outcomes[betTypeDigits[code]]

(* Mutant: slice(0, digits) instead of slice(-digits).                        *)
WorkerMatchesHead(code, number, r) ==
  Len(number) = betTypeDigits[code] /\ number = SubSeq(r, 1, betTypeDigits[code])

(* matchStraightBet of the settlement worker.                                 *)
WorkerMatches(code, number, r) ==
  Len(number) = betTypeDigits[code] /\ number = Tail6d(r, betTypeDigits[code])
-----------------------------------------------------------------------------
(* What a straight bet means, digit by digit: as many digits as its type has, *)
(* and each is the result's digit at the same distance from the end.          *)
StraightBetWins(code, number, r) ==
  /\ Len(number) = betTypeDigits[code]
  /\ \A i \in 1..Len(number) : number[i] = r[6 - Len(number) + i]
=============================================================================
