------------------------------- MODULE MCRounds -------------------------------
(* An instance of Rounds for TLC.                                             *)
EXTENDS Rounds, TLC

CONSTANTS c1, c2, r1

(* Patches of one time, of several, of the status, of both and of nothing.    *)
Patches ==
  {<<>>} \union
  {("opens_at" :> o) : o \in Instant} \union
  {("closes_at" :> k) : k \in Instant} \union
  {("draws_at" :> d) : d \in Instant} \union
  {("closes_at" :> d @@ "draws_at" :> d) : d \in Instant} \union
  {("status" :> "CLOSED"), ("status" :> "OPEN"), ("opens_at" :> 1 @@ "status" :> "CANCELLED")}

Alike == Permutations(Client)
=============================================================================
