----------------------------- MODULE OncePerKey -----------------------------
(* What an Idempotency-Key promises: of all requests that carry it, however   *)
(* often and by whomever they are sent, one has an effect, and every request  *)
(* that succeeds is answered with what that one was answered.                 *)
CONSTANTS
  Key,     \* idempotency keys
  Body,    \* request bodies
  Answer,  \* what a handler may answer
  NoEffect

VARIABLES
  effect,   \* for each key, the request that had its effect and its answer
  delivered \* the answers that have been given: requests and answers

Effect == [body : Body, answer : Answer]

Init ==
  /\ effect = [k \in Key |-> NoEffect]
  /\ delivered = {}

Perform(k, b, a) ==
  /\ effect[k] = NoEffect
  /\ effect' = [effect EXCEPT ![k] = [body |-> b, answer |-> a]]
  /\ UNCHANGED delivered

Deliver(k, b, a) ==
  /\ effect[k] = [body |-> b, answer |-> a]
  /\ delivered' = delivered \union {[key |-> k, body |-> b, answer |-> a]}
  /\ UNCHANGED effect

Next == \E k \in Key, b \in Body, a \in Answer : Perform(k, b, a) \/ Deliver(k, b, a)

Spec == Init /\ [][Next]_<<effect, delivered>>
-----------------------------------------------------------------------------
(* Whoever has been answered under a key has sent the same body and been      *)
(* given the same answer.                                                     *)
AnswersAgree == \A x, y \in delivered : x.key = y.key => x = y

(* What has been done under a key is neither undone nor done again.           *)
EffectsStay == [][\A k \in Key : effect[k] # NoEffect => effect'[k] = effect[k]]_<<effect, delivered>>
=============================================================================
