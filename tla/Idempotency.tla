----------------------------- MODULE Idempotency -----------------------------
(* IdempotencyService.run: a handler and the row of its Idempotency-Key in one *)
(* transaction at READ COMMITTED.  The key is inserted before the handler     *)
(* runs, and a second insert of it waits for the first to commit or roll back. *)
EXTENDS Naturals

CONSTANTS
  Client,      \* requests served at the same time
  Key,         \* keys of one scope and actor
  Body,        \* request bodies, by their hash
  NoRow,       \* no row of idempotency_keys
  NoAnswer,    \* response_body is NULL
  MaxRuns,     \* bound: runs of handlers together
  MaxFailures  \* bound: transactions and answers lost for no reason of their own

ASSUME IdempotencyAssumption ==
  /\ MaxRuns \in Nat /\ MaxFailures \in Nat
  /\ NoAnswer \notin 1..MaxRuns
  /\ NoRow \notin [request_hash : Body, response_body : 1..MaxRuns]
  /\ NoRow \notin [body : Body, answer : 1..MaxRuns]

VARIABLES
  rows,      \* the committed row of each key, or NoRow
  effects,   \* answers of the handlers whose effect is committed, for each key
  pc,        \* the statement a request is about to run
  key,       \* the key of each request
  body,      \* the body of each request
  answer,    \* what its handler, or the row it has read, answers
  delivered, \* successful answers that have reached the caller
  runs, failures

vars == <<rows, effects, pc, key, body, answer, delivered, runs, failures>>

Answers == 1..MaxRuns

(* A committed row has its response: without it the key would stay in use.    *)
Row == [request_hash : Body, response_body : Answers]

TypeOK ==
  /\ rows \in [Key -> Row \union {NoRow}]
  /\ effects \in [Key -> SUBSET Answers]
  /\ pc \in [Client -> {"idle", "insert", "handle", "update", "read", "answer"}]
  /\ key \in [Client -> Key] /\ body \in [Client -> Body]
  /\ answer \in [Client -> Answers \union {NoAnswer}]
  /\ delivered \in SUBSET [key : Key, body : Body, answer : Answers]
  /\ runs \in 0..MaxRuns /\ failures \in Nat

Init ==
  /\ rows = [k \in Key |-> NoRow]
  /\ effects = [k \in Key |-> {}]
  /\ pc = [c \in Client |-> "idle"]
  /\ key \in [Client -> Key] /\ body \in [Client -> Body]
  /\ answer = [c \in Client |-> NoAnswer]
  /\ delivered = {}
  /\ runs = 0 /\ failures = 0
-----------------------------------------------------------------------------
(* A caller sends a request, for the first time or once more.                 *)
Call(c, k, b) ==
  /\ pc[c] = "idle"
  /\ pc' = [pc EXCEPT ![c] = "insert"]
  /\ key' = [key EXCEPT ![c] = k]
  /\ body' = [body EXCEPT ![c] = b]
  /\ UNCHANGED <<rows, effects, answer, delivered, runs, failures>>

(* The request has been answered with an error, or not at all.                *)
EndRequest(c) ==
  /\ pc' = [pc EXCEPT ![c] = "idle"]
  /\ answer' = [answer EXCEPT ![c] = NoAnswer]

(* The unique index: an insert waits for the transaction that has inserted    *)
(* the same key and not ended yet.                                            *)
HasInserted(c, k) == key[c] = k /\ pc[c] \in {"handle", "update"}
(* Mutant: the key is looked up, and inserted with the response.              *)
KeyNotHeld(k) == TRUE
KeyFree(k) == \A c \in Client : ~HasInserted(c, k)

(* INSERT ... ON CONFLICT DO NOTHING.                                         *)
InsertKey(c) ==
  /\ pc[c] = "insert" /\ KeyFree(key[c])
  /\ pc' = [pc EXCEPT ![c] = IF rows[key[c]] = NoRow THEN "handle" ELSE "read"]
  /\ UNCHANGED <<rows, effects, key, body, answer, delivered, runs, failures>>

(* The handler does its work in the transaction, and answers something no     *)
(* other run answers: it has made a ticket, a ledger row, a round.            *)
HandlerSucceeds(c) ==
  /\ pc[c] = "handle" /\ runs < MaxRuns
  /\ runs' = runs + 1
  /\ answer' = [answer EXCEPT ![c] = runs']
  /\ pc' = [pc EXCEPT ![c] = "update"]
  /\ UNCHANGED <<rows, effects, key, body, delivered, failures>>

(* It refuses the request with an exception: everything is rolled back, the   *)
(* key with it.                                                               *)
HandlerThrows(c) ==
  /\ pc[c] = "handle"
  /\ EndRequest(c)
  /\ UNCHANGED <<rows, effects, key, body, delivered, runs, failures>>

(* Mutant: the transaction commits and the response is stored after it.       *)
CommitWithoutResponse(c) ==
  /\ pc[c] = "update"
  /\ rows' = [rows EXCEPT ![key[c]] = [request_hash |-> body[c], response_body |-> NoAnswer]]
  /\ effects' = [effects EXCEPT ![key[c]] = @ \union {answer[c]}]
  /\ pc' = [pc EXCEPT ![c] = "answer"]
  /\ UNCHANGED <<key, body, answer, delivered, runs, failures>>

(* The response is stored with the key, and the transaction commits.          *)
StoreResponse(c) ==
  /\ pc[c] = "update"
  /\ rows' = [rows EXCEPT ![key[c]] = [request_hash |-> body[c], response_body |-> answer[c]]]
  /\ effects' = [effects EXCEPT ![key[c]] = @ \union {answer[c]}]
  /\ pc' = [pc EXCEPT ![c] = "answer"]
  /\ UNCHANGED <<key, body, answer, delivered, runs, failures>>

(* readExisting: another body is refused, this one gets the stored response.  *)
(* Mutant: the hash of the body is not compared.                              *)
anyRequestHash(c) == TRUE
sameRequestHash(c) == rows[key[c]].request_hash = body[c]

(* Mutant: a caller that finds the key in use waits for the response.         *)
ReadExistingAndWait(c) ==
  /\ pc[c] = "read"
  /\ sameRequestHash(c)
  /\ rows[key[c]].response_body # NoAnswer
  /\ pc' = [pc EXCEPT ![c] = "answer"]
  /\ answer' = [answer EXCEPT ![c] = rows[key[c]].response_body]
  /\ UNCHANGED <<rows, effects, key, body, delivered, runs, failures>>

ReadExisting(c) ==
  LET row == rows[key[c]] IN
  /\ pc[c] = "read"
  /\ \/ /\ sameRequestHash(c) /\ row.response_body # NoAnswer
        /\ pc' = [pc EXCEPT ![c] = "answer"]
        /\ answer' = [answer EXCEPT ![c] = row.response_body]
     \/ /\ ~sameRequestHash(c) \/ row.response_body = NoAnswer
        /\ EndRequest(c)
  /\ UNCHANGED <<rows, effects, key, body, delivered, runs, failures>>

(* The answer reaches the caller.                                             *)
Deliver(c) ==
  /\ pc[c] = "answer"
  /\ delivered' = delivered \union {[key |-> key[c], body |-> body[c], answer |-> answer[c]]}
  /\ EndRequest(c)
  /\ UNCHANGED <<rows, effects, key, body, runs, failures>>

(* The transaction fails or the process dies before the commit, or the answer *)
(* is lost after it.                                                          *)
Fails(c) ==
  /\ pc[c] # "idle" /\ failures < MaxFailures
  /\ failures' = failures + 1
  /\ EndRequest(c)
  /\ UNCHANGED <<rows, effects, key, body, delivered, runs>>

RequestRuns(c) ==
  InsertKey(c) \/ HandlerSucceeds(c) \/ HandlerThrows(c) \/ StoreResponse(c) \/ ReadExisting(c) \/ Deliver(c)

Next ==
  \E c \in Client :
    \/ \E k \in Key, b \in Body : Call(c, k, b)
    \/ RequestRuns(c)
    \/ Fails(c)

Spec == Init /\ [][Next]_vars

(* A request goes on, and gets to insert its key when it is free again and    *)
(* again: the insert that waits is woken by the end of the one before it.     *)
FairSpec ==
  /\ Spec
  /\ \A c \in Client : WF_vars(RequestRuns(c)) /\ SF_vars(InsertKey(c))
-----------------------------------------------------------------------------
(* A key has at most one committed effect, however often its request is sent, *)
(* fails or loses its answer, and the effect is the stored response.          *)
EffectPerKey ==
  \A k \in Key : effects[k] = IF rows[k] = NoRow THEN {} ELSE {rows[k].response_body}

EffectOf(k) ==
  IF rows[k] = NoRow THEN NoRow ELSE [body |-> rows[k].request_hash, answer |-> rows[k].response_body]

(* Whoever sends a request under a key that has been used gets the first      *)
(* one's answer or none, and one with another body gets none.                 *)
Promise == INSTANCE OncePerKey WITH
  Answer <- Answers, NoEffect <- NoRow, effect <- [k \in Key |-> EffectOf(k)]
ImplementsOncePerKey == Promise!Spec

(* Every request comes to an end: with an answer, an error or a conflict.     *)
RequestsEnd == \A c \in Client : pc[c] # "idle" ~> pc[c] = "idle"
=============================================================================
