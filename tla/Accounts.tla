------------------------------ MODULE Accounts ------------------------------
(* What the credit accounts promise whatever works on them: entries are added *)
(* to the ledger of a user one after the other, each taking the balance from  *)
(* where the last one left it, and never below zero.                          *)
EXTENDS Integers, Sequences

CONSTANTS
  User,   \* manual users, each with one credit account
  Delta   \* amounts an entry may add

VARIABLES
  balance, \* the balance of each user
  ledger   \* the entries of each user, in the order they were committed

Entry(before, d) == [delta |-> d, before |-> before, after |-> before + d]

Init ==
  /\ balance = [u \in User |-> 0]
  /\ ledger = [u \in User |-> <<>>]

(* An entry is added and the balance follows it.                              *)
Post(u, d) ==
  /\ balance[u] + d >= 0
  /\ ledger' = [ledger EXCEPT ![u] = Append(@, Entry(balance[u], d))]
  /\ balance' = [balance EXCEPT ![u] = @ + d]

Next == \E u \in User, d \in Delta : Post(u, d)

Spec == Init /\ [][Next]_<<balance, ledger>>
-----------------------------------------------------------------------------
(* The entries of a user form a chain: the first begins at zero, each begins  *)
(* where the one before ended and ends its delta further on, none ends below  *)
(* zero, and the balance is where the last one ended.                         *)
Chained(u) ==
  LET n == Len(ledger[u]) IN
  /\ \A i \in 1..n :
       /\ ledger[u][i].before = IF i = 1 THEN 0 ELSE ledger[u][i - 1].after
       /\ ledger[u][i].after = ledger[u][i].before + ledger[u][i].delta
       /\ ledger[u][i].after >= 0
  /\ balance[u] = IF n = 0 THEN 0 ELSE ledger[u][n].after

LedgerIsChain == \A u \in User : Chained(u)
=============================================================================
