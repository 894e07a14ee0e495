-------------------------- MODULE IdempotencyProofs --------------------------
(* Theorems about Idempotency, for any number of requests, keys and bodies.   *)
EXTENDS Idempotency, TLAPS

(* A key that is inserted and not committed is held by one request and has no *)
(* row yet.                                                                   *)
HeldApart ==
  \A c, d \in Client, k \in Key : HasInserted(c, k) /\ HasInserted(d, k) => c = d

HeldFresh == \A c \in Client : pc[c] \in {"handle", "update"} => rows[key[c]] = NoRow

(* A request that is to read a row or to give an answer has one.              *)
ReadsARow == \A c \in Client : pc[c] = "read" => rows[key[c]] # NoRow

HasAnswer == \A c \in Client : pc[c] = "update" => answer[c] \in Answers

AnswersAsStored ==
  \A c \in Client : pc[c] = "answer" =>
    rows[key[c]] = [request_hash |-> body[c], response_body |-> answer[c]] /\ answer[c] \in Answers

KeyInv == HeldApart /\ HeldFresh /\ ReadsARow /\ HasAnswer /\ AnswersAsStored

Inv == TypeOK /\ KeyInv /\ EffectPerKey

(* A row is not the absence of one.                                           *)
LEMMA RowIsNotNoRow == Row \intersect {NoRow} = {}
BY IdempotencyAssumption DEF Row, Answers

LEMMA InitInv == Init => Inv
<1>1. Init => TypeOK
  BY IdempotencyAssumption DEF Init, TypeOK
<1>2. Init => KeyInv /\ EffectPerKey
  BY DEF Init, KeyInv, HeldApart, HeldFresh, ReadsARow, HasAnswer, AnswersAsStored, EffectPerKey, HasInserted
<1>3. QED
  BY <1>1, <1>2 DEF Inv

(* Requests that end, or go on without touching the tables.                   *)
LEMMA InvStep == Inv /\ [Next]_vars => Inv'
<1> SUFFICES ASSUME Inv, [Next]_vars PROVE Inv'
  OBVIOUS
<1>0. TypeOK /\ HeldApart /\ HeldFresh /\ ReadsARow /\ HasAnswer /\ AnswersAsStored /\ EffectPerKey
  BY DEF Inv, KeyInv
<1> USE DEF EndRequest
<1>1. ASSUME NEW c \in Client, NEW k \in Key, NEW b \in Body, Call(c, k, b) PROVE Inv'
  <2>1. TypeOK'
    BY <1>0, <1>1 DEF Call, TypeOK
  <2>2. KeyInv' /\ EffectPerKey'
    BY <1>0, <1>1 DEF Call, TypeOK, KeyInv, HeldApart, HeldFresh, ReadsARow, HasAnswer, AnswersAsStored,
       EffectPerKey, HasInserted
  <2>3. QED
    BY <2>1, <2>2 DEF Inv
<1>2. ASSUME NEW c \in Client, InsertKey(c) PROVE Inv'
  <2>1. TypeOK'
    BY <1>0, <1>2 DEF InsertKey, TypeOK
  <2>2. HeldApart'
    BY <1>0, <1>2 DEF InsertKey, TypeOK, HeldApart, HasInserted, KeyFree
  <2>3. (HeldFresh /\ ReadsARow /\ HasAnswer /\ AnswersAsStored /\ EffectPerKey)'
    BY <1>0, <1>2 DEF InsertKey, TypeOK, HeldFresh, ReadsARow, HasAnswer, AnswersAsStored, EffectPerKey
  <2>4. QED
    BY <2>1, <2>2, <2>3 DEF Inv, KeyInv
<1>3. ASSUME NEW c \in Client, HandlerSucceeds(c) PROVE Inv'
  <2>1. runs' \in Answers
    BY <1>0, <1>3, IdempotencyAssumption DEF HandlerSucceeds, TypeOK, Answers
  <2>2. TypeOK'
    BY <1>0, <1>3, <2>1, IdempotencyAssumption DEF HandlerSucceeds, TypeOK, Answers
  <2>3. KeyInv' /\ EffectPerKey'
    BY <1>0, <1>3, <2>1 DEF HandlerSucceeds, TypeOK, KeyInv, HeldApart, HeldFresh, ReadsARow, HasAnswer,
       AnswersAsStored, EffectPerKey, HasInserted
  <2>4. QED
    BY <2>2, <2>3 DEF Inv
<1>4. ASSUME NEW c \in Client, StoreResponse(c) PROVE Inv'
  <2> DEFINE row == [request_hash |-> body[c], response_body |-> answer[c]]
  <2>1. /\ pc[c] = "update" /\ rows[key[c]] = NoRow /\ answer[c] \in Answers
        /\ key[c] \in Key /\ row \in Row /\ row # NoRow
    BY <1>0, <1>4, RowIsNotNoRow DEF StoreResponse, HeldFresh, HasAnswer, TypeOK, Row
  <2>2. /\ rows' = [rows EXCEPT ![key[c]] = row]
        /\ effects' = [effects EXCEPT ![key[c]] = @ \union {answer[c]}]
        /\ pc' = [pc EXCEPT ![c] = "answer"]
        /\ UNCHANGED <<key, body, answer, delivered, runs, failures>>
    BY <1>4 DEF StoreResponse
  <2> HIDE DEF row
  <2>3. TypeOK'
    BY <1>0, <2>1, <2>2 DEF TypeOK
  (* Nobody else holds this key, and who reads or answers another row keeps it. *)
  <2>4. \A d \in Client \ {c} : pc'[d] = pc[d] /\ (pc[d] \in {"handle", "update", "answer"} => key[d] # key[c])
    <3>1. ASSUME NEW d \in Client \ {c}, pc[d] \in {"handle", "update"}, key[d] = key[c] PROVE FALSE
      BY <1>0, <2>1, <3>1 DEF HeldApart, HasInserted
    <3>2. ASSUME NEW d \in Client \ {c}, pc[d] = "answer", key[d] = key[c] PROVE FALSE
      <4>1. /\ body[d] \in Body /\ answer[d] \in Answers
            /\ rows[key[d]] = [request_hash |-> body[d], response_body |-> answer[d]]
        BY <1>0, <3>2 DEF AnswersAsStored, TypeOK
      <4>2. rows[key[d]] \in Row
        BY <4>1 DEF Row
      <4>3. QED
        BY <2>1, <3>2, <4>2, RowIsNotNoRow
    <3>3. QED
      BY <1>0, <2>2, <3>1, <3>2 DEF TypeOK
  <2>5. HeldApart' /\ HeldFresh'
    BY <1>0, <2>1, <2>2, <2>4 DEF HeldApart, HeldFresh, HasInserted, TypeOK
  <2>6. ReadsARow' /\ HasAnswer'
    BY <1>0, <2>1, <2>2, <2>4 DEF ReadsARow, HasAnswer, TypeOK
  <2>7. AnswersAsStored'
    BY <1>0, <2>1, <2>2, <2>4 DEF AnswersAsStored, TypeOK, row
  <2>8. EffectPerKey'
    BY <1>0, <2>1, <2>2 DEF EffectPerKey, TypeOK, row
  <2>9. QED
    BY <2>3, <2>5, <2>6, <2>7, <2>8 DEF Inv, KeyInv
<1>5. ASSUME NEW c \in Client, ReadExisting(c) PROVE Inv'
  <2>1. rows[key[c]] \in Row
    BY <1>0, <1>5 DEF ReadExisting, ReadsARow, TypeOK
  <2>2. \/ /\ sameRequestHash(c)
           /\ pc' = [pc EXCEPT ![c] = "answer"]
           /\ answer' = [answer EXCEPT ![c] = rows[key[c]].response_body]
           /\ UNCHANGED <<rows, effects, key, body, delivered, runs, failures>>
        \/ EndRequest(c) /\ UNCHANGED <<rows, effects, key, body, delivered, runs, failures>>
    BY <1>5 DEF ReadExisting
  <2>3. TypeOK'
    BY <1>0, <2>1, <2>2 DEF TypeOK, Row
  <2>4. (HeldApart /\ HeldFresh /\ ReadsARow /\ HasAnswer /\ EffectPerKey)'
    BY <1>0, <2>2 DEF TypeOK, HeldApart, HeldFresh, ReadsARow, HasAnswer, EffectPerKey, HasInserted
  <2>5. AnswersAsStored'
    BY <1>0, <2>1, <2>2 DEF TypeOK, AnswersAsStored, sameRequestHash, Row
  <2>6. QED
    BY <2>3, <2>4, <2>5 DEF Inv, KeyInv
<1>6. ASSUME NEW c \in Client, HandlerThrows(c) \/ Deliver(c) \/ Fails(c) PROVE Inv'
  <2>1. /\ EndRequest(c) /\ UNCHANGED <<rows, effects, key, body, runs>>
        /\ failures' \in Nat
        /\ \/ delivered' = delivered
           \/ delivered' = delivered \union {[key |-> key[c], body |-> body[c], answer |-> answer[c]]} /\ pc[c] = "answer"
    BY <1>0, <1>6 DEF HandlerThrows, Deliver, Fails, TypeOK
  <2>2. pc[c] = "answer" =>
          [key |-> key[c], body |-> body[c], answer |-> answer[c]] \in [key : Key, body : Body, answer : Answers]
    BY <1>0 DEF TypeOK, AnswersAsStored
  <2>3. TypeOK'
    BY <1>0, <2>1, <2>2 DEF TypeOK
  <2>4. KeyInv' /\ EffectPerKey'
    BY <1>0, <2>1 DEF TypeOK, KeyInv, HeldApart, HeldFresh, ReadsARow, HasAnswer, AnswersAsStored,
       EffectPerKey, HasInserted
  <2>5. QED
    BY <2>3, <2>4 DEF Inv
<1>7. CASE UNCHANGED vars
  BY <1>0, <1>7 DEF vars, Inv, TypeOK, KeyInv, HeldApart, HeldFresh, ReadsARow, HasAnswer,
     AnswersAsStored, EffectPerKey, HasInserted
<1>8. QED
  BY <1>1, <1>2, <1>3, <1>4, <1>5, <1>6, <1>7 DEF Next, RequestRuns

(* Every variable keeps its type; above all, no key is committed without its  *)
(* response (IdempotencyService.run).                                         *)
THEOREM TypeCorrect == Spec => []TypeOK
<1>1. Inv => TypeOK
  BY DEF Inv
<1>2. QED
  BY InitInv, InvStep, <1>1, PTL DEF Spec

(* A key has one committed effect at most, the one its row tells of, however  *)
(* many requests with it run at once, fail and are repeated.                  *)
THEOREM EffectsHappenOnce == Spec => []EffectPerKey
<1>1. Inv => EffectPerKey
  BY DEF Inv
<1>2. QED
  BY InitInv, InvStep, <1>1, PTL DEF Spec
-----------------------------------------------------------------------------
(* The service keeps the promise of OncePerKey: a commit of the key performs  *)
(* the request, an answer delivers what was performed, nothing else shows.    *)
THEOREM KeepsPromise == Spec => ImplementsOncePerKey
<1>1. Init => Promise!Init
  BY DEF Init, Promise!Init, EffectOf
<1>2. Inv /\ Inv' /\ [Next]_vars => [Promise!Next]_<<[k \in Key |-> EffectOf(k)], delivered>>
  <2> SUFFICES ASSUME Inv, Inv', [Next]_vars
               PROVE  [Promise!Next]_<<[k \in Key |-> EffectOf(k)], delivered>>
    OBVIOUS
  <2>0. TypeOK /\ HeldFresh /\ HasAnswer /\ AnswersAsStored
    BY DEF Inv, KeyInv
  <2>1. ASSUME NEW c \in Client, StoreResponse(c)
        PROVE  Promise!Perform(key[c], body[c], answer[c])
    <3>1. rows[key[c]] = NoRow /\ key[c] \in Key /\ body[c] \in Body /\ answer[c] \in Answers
      BY <2>0, <2>1 DEF StoreResponse, HeldFresh, HasAnswer, TypeOK
    <3>2. /\ rows' = [rows EXCEPT ![key[c]] = [request_hash |-> body[c], response_body |-> answer[c]]]
          /\ delivered' = delivered
      BY <2>1 DEF StoreResponse
    <3>3. [request_hash |-> body[c], response_body |-> answer[c]] # NoRow
      BY <3>1, RowIsNotNoRow DEF Row
    <3>4. \A k \in Key : k = key[c] => EffectOf(k)' = [body |-> body[c], answer |-> answer[c]]
      <4>1. rows'[key[c]] = [request_hash |-> body[c], response_body |-> answer[c]]
        BY <2>0, <3>1, <3>2 DEF TypeOK
      <4>2. QED
        BY <3>3, <4>1 DEF EffectOf
    <3>5. \A k \in Key \ {key[c]} : EffectOf(k)' = EffectOf(k)
      BY <2>0, <3>2 DEF EffectOf, TypeOK
    <3>6. [k \in Key |-> EffectOf(k)]' =
            [[k \in Key |-> EffectOf(k)] EXCEPT ![key[c]] = [body |-> body[c], answer |-> answer[c]]]
      <4>1. [k \in Key |-> EffectOf(k)]' = [k \in Key |-> EffectOf(k)']
        OBVIOUS
      <4>2. QED
        BY <3>1, <3>4, <3>5, <4>1
    <3>7. [k \in Key |-> EffectOf(k)][key[c]] = NoRow
      BY <3>1 DEF EffectOf
    <3>8. QED
      BY <3>2, <3>6, <3>7 DEF Promise!Perform
  <2>2. ASSUME NEW c \in Client, Deliver(c)
        PROVE  Promise!Deliver(key[c], body[c], answer[c])
    <3>1. /\ key[c] \in Key /\ answer[c] \in Answers /\ body[c] \in Body
          /\ rows[key[c]] = [request_hash |-> body[c], response_body |-> answer[c]]
      BY <2>0, <2>2 DEF Deliver, AnswersAsStored, TypeOK
    <3>2. EffectOf(key[c]) = [body |-> body[c], answer |-> answer[c]]
      BY <3>1, RowIsNotNoRow DEF EffectOf, Row
    <3>3. [k \in Key |-> EffectOf(k)]' = [k \in Key |-> EffectOf(k)]
      BY <2>2 DEF Deliver, EffectOf
    <3>4. QED
      BY <2>2, <3>1, <3>2, <3>3 DEF Deliver, Promise!Deliver
  <2>3. ASSUME UNCHANGED <<rows, delivered>>
        PROVE  UNCHANGED <<[k \in Key |-> EffectOf(k)], delivered>>
    BY <2>3 DEF EffectOf
  <2>4. ASSUME NEW c \in Client PROVE key[c] \in Key /\ body[c] \in Body
    BY <2>0 DEF TypeOK
  <2>5. ASSUME NEW c \in Client, StoreResponse(c) \/ Deliver(c) PROVE answer[c] \in Answers
    BY <2>0, <2>5 DEF StoreResponse, Deliver, HasAnswer, AnswersAsStored
  <2>6. \/ \E c \in Client : StoreResponse(c) \/ Deliver(c)
        \/ UNCHANGED <<rows, delivered>>
    BY DEF Next, RequestRuns, vars, Call, InsertKey, HandlerSucceeds, HandlerThrows, ReadExisting, Fails
  <2>7. QED
    BY <2>1, <2>2, <2>3, <2>4, <2>5, <2>6 DEF Promise!Next
<1>3. QED
  BY InitInv, InvStep, <1>1, <1>2, PTL DEF Spec, ImplementsOncePerKey, Promise!Spec
-----------------------------------------------------------------------------
(* What follows from the promise.  The effect of a key, as OncePerKey sees it,*)
(* is the one every answer given under the key tells of.                      *)
EffectOfKey == [k \in Key |-> EffectOf(k)]

AnswersKnown ==
  \A x \in delivered :
    /\ x \in [key : Key, body : Body, answer : Answers]
    /\ EffectOfKey[x.key] = [body |-> x.body, answer |-> x.answer]

LEMMA EffectsStayStep ==
  ASSUME [Promise!Next]_<<EffectOfKey, delivered>>, NEW k \in Key, EffectOfKey[k] # NoRow
  PROVE  EffectOfKey'[k] = EffectOfKey[k]
<1>1. DOMAIN EffectOfKey = Key
  BY DEF EffectOfKey
<1>2. \/ EffectOfKey' = EffectOfKey
      \/ \E j \in Key, e \in Promise!Effect :
           EffectOfKey[j] = NoRow /\ EffectOfKey' = [EffectOfKey EXCEPT ![j] = e]
  BY DEF Promise!Next, Promise!Perform, Promise!Deliver, Promise!Effect, EffectOfKey
<1> HIDE DEF EffectOfKey
<1>3. QED
  BY <1>1, <1>2

LEMMA AnswersKnownStep ==
  ASSUME AnswersKnown, [Promise!Next]_<<EffectOfKey, delivered>>
  PROVE  AnswersKnown'
<1>1. ASSUME NEW x \in delivered
      PROVE  x \in [key : Key, body : Body, answer : Answers]
             /\ EffectOfKey'[x.key] = [body |-> x.body, answer |-> x.answer]
  <2>1. x \in [key : Key, body : Body, answer : Answers]
        /\ EffectOfKey[x.key] = [body |-> x.body, answer |-> x.answer]
    BY DEF AnswersKnown
  <2>2. x.key \in Key /\ EffectOfKey[x.key] # NoRow
    BY <2>1, IdempotencyAssumption DEF Answers
  <2>3. QED
    BY <2>1, <2>2, EffectsStayStep
<1>2. ASSUME NEW k \in Key, NEW b \in Body, NEW a \in Answers, Promise!Deliver(k, b, a) PROVE AnswersKnown'
  <2>1. /\ EffectOfKey[k] = [body |-> b, answer |-> a] /\ EffectOfKey' = EffectOfKey
        /\ delivered' = delivered \union {[key |-> k, body |-> b, answer |-> a]}
    BY <1>2 DEF Promise!Deliver, EffectOfKey
  <2>2. SUFFICES ASSUME NEW x \in delivered'
                 PROVE  x \in [key : Key, body : Body, answer : Answers]
                        /\ EffectOfKey'[x.key] = [body |-> x.body, answer |-> x.answer]
    BY DEF AnswersKnown
  <2>3. CASE x \in delivered
    BY <1>1, <2>3
  <2>4. CASE x = [key |-> k, body |-> b, answer |-> a]
    BY <2>1, <2>4
  <2>5. QED
    BY <2>1, <2>3, <2>4
<1>3. CASE delivered' = delivered
  BY <1>1, <1>3 DEF AnswersKnown
<1>4. QED
  BY <1>2, <1>3 DEF Promise!Next, Promise!Perform

(* Two successful answers under one key are one answer to one body, whoever   *)
(* sent the requests and however often (IdempotencyService.run, readExisting).*)
THEOREM AnswersStayTheSame == Spec => []Promise!AnswersAgree
<1>1. Promise!Init => AnswersKnown
  BY DEF Promise!Init, AnswersKnown
<1>2. AnswersKnown /\ [Promise!Next]_<<EffectOfKey, delivered>> => AnswersKnown'
  BY AnswersKnownStep
<1>3. AnswersKnown => Promise!AnswersAgree
  <2> SUFFICES ASSUME AnswersKnown, NEW x \in delivered, NEW y \in delivered, x.key = y.key PROVE x = y
    BY DEF Promise!AnswersAgree
  <2>1. [body |-> x.body, answer |-> x.answer] = [body |-> y.body, answer |-> y.answer]
    BY DEF AnswersKnown
  <2>2. x.body = y.body /\ x.answer = y.answer
    BY <2>1
  <2>3. x \in [key : Key, body : Body, answer : Answers] /\ y \in [key : Key, body : Body, answer : Answers]
    BY DEF AnswersKnown
  <2>4. /\ x = [key |-> x.key, body |-> x.body, answer |-> x.answer]
        /\ y = [key |-> y.key, body |-> y.body, answer |-> y.answer]
    BY <2>3
  <2>5. QED
    BY <2>2, <2>4
<1>4. QED
  BY <1>1, <1>2, <1>3, KeepsPromise, PTL DEF ImplementsOncePerKey, Promise!Spec, EffectOfKey

(* What a key's first request has done is not undone and not done again by    *)
(* any later one.                                                             *)
THEOREM EffectsAreKept == Spec => Promise!EffectsStay
<1>1. [Promise!Next]_<<EffectOfKey, delivered>> =>
        [\A k \in Key : EffectOfKey[k] # NoRow => EffectOfKey'[k] = EffectOfKey[k]]_<<EffectOfKey, delivered>>
  BY EffectsStayStep
<1>2. QED
  BY <1>1, KeepsPromise, PTL DEF ImplementsOncePerKey, Promise!Spec, Promise!EffectsStay, EffectOfKey

=============================================================================
