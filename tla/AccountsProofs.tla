--------------------------- MODULE AccountsProofs ---------------------------
(* What follows from the specification of the accounts alone.                 *)
EXTENDS Accounts, SequenceTheorems, TLAPS

EntryRecord == [delta : Int, before : Int, after : Int]
AccountsType == balance \in [User -> Int] /\ ledger \in [User -> Seq(EntryRecord)]

(* Whoever keeps to Accounts has ledgers that are chains: every entry starts  *)
(* from the balance the one before it left, so that the balance can be told   *)
(* from the entries and was never below zero.                                 *)
THEOREM LedgersAreChains ==
  ASSUME Delta \subseteq Int
  PROVE  Spec => []LedgerIsChain
<1>1. Init => AccountsType /\ LedgerIsChain
  BY DEF Init, AccountsType, LedgerIsChain, Chained
<1>2. AccountsType /\ LedgerIsChain /\ [Next]_<<balance, ledger>> => (AccountsType /\ LedgerIsChain)'
  <2> SUFFICES ASSUME AccountsType, LedgerIsChain, [Next]_<<balance, ledger>>
               PROVE  AccountsType' /\ LedgerIsChain'
    OBVIOUS
  <2>1. ASSUME NEW u \in User, NEW d \in Delta, Post(u, d) PROVE AccountsType' /\ LedgerIsChain'
    <3> DEFINE e == Entry(balance[u], d)
    <3> DEFINE n == Len(ledger[u])
    <3>1. /\ d \in Int /\ balance[u] \in Int /\ ledger[u] \in Seq(EntryRecord) /\ n \in Nat
          /\ e \in EntryRecord
          /\ e.before = balance[u] /\ e.after = balance[u] + d /\ e.delta = d /\ balance[u] + d >= 0
      BY <2>1 DEF AccountsType, Post, Entry, EntryRecord
    <3>2. /\ balance' = [balance EXCEPT ![u] = @ + d]
          /\ ledger' = [ledger EXCEPT ![u] = Append(@, e)]
      BY <2>1 DEF Post
    <3> HIDE DEF e
    <3>3. /\ Append(ledger[u], e) \in Seq(EntryRecord)
          /\ Len(Append(ledger[u], e)) = n + 1
          /\ \A i \in 1..n : Append(ledger[u], e)[i] = ledger[u][i]
          /\ Append(ledger[u], e)[n + 1] = e
      BY <3>1, AppendProperties
    <3>4. AccountsType'
      BY <3>1, <3>2, <3>3 DEF AccountsType
    <3>5. /\ Len(ledger'[u]) = n + 1
          /\ \A i \in 1..n : ledger'[u][i] = ledger[u][i]
          /\ ledger'[u][n + 1] = e
          /\ balance'[u] = balance[u] + d
          /\ \A v \in User \ {u} : ledger'[v] = ledger[v] /\ balance'[v] = balance[v]
      BY <3>2, <3>3 DEF AccountsType
    <3>6. /\ \A i \in 1..n :
               /\ ledger[u][i].before = IF i = 1 THEN 0 ELSE ledger[u][i - 1].after
               /\ ledger[u][i].after = ledger[u][i].before + ledger[u][i].delta
               /\ ledger[u][i].after >= 0
          /\ balance[u] = IF n = 0 THEN 0 ELSE ledger[u][n].after
      BY DEF LedgerIsChain, Chained
    <3> HIDE DEF n
    <3>7. ASSUME NEW i \in 1..(n + 1)
          PROVE  /\ ledger'[u][i].before = IF i = 1 THEN 0 ELSE ledger'[u][i - 1].after
                 /\ ledger'[u][i].after = ledger'[u][i].before + ledger'[u][i].delta
                 /\ ledger'[u][i].after >= 0
      <4>1. CASE i = n + 1
        <5>1. i # 1 => i - 1 \in 1..n /\ i - 1 = n
          BY <3>1, <4>1
        <5>2. QED
          BY <3>1, <3>5, <3>6, <4>1, <5>1
      <4>2. CASE i # n + 1
        <5>1. i \in 1..n /\ (i # 1 => i - 1 \in 1..n)
          BY <3>1, <4>2
        <5>2. QED
          BY <3>5, <3>6, <5>1
      <4>3. QED
        BY <4>1, <4>2
    <3>8. balance'[u] = ledger'[u][n + 1].after /\ n + 1 # 0
      BY <3>1, <3>5
    <3>9. Chained(u)'
      BY <3>5, <3>7, <3>8 DEF Chained
    <3>10. \A v \in User \ {u} : Chained(v)'
      BY <3>5 DEF LedgerIsChain, Chained
    <3>11. QED
      BY <3>4, <3>9, <3>10 DEF LedgerIsChain
  <2>2. CASE UNCHANGED <<balance, ledger>>
    BY <2>2 DEF AccountsType, LedgerIsChain, Chained
  <2>3. QED
    BY <2>1, <2>2 DEF Next
<1>3. QED
  BY <1>1, <1>2, PTL DEF Spec
=============================================================================
