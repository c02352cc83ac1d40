------------------------ MODULE BalanceServiceProofs ------------------------
(***************************************************************************)
(* Proofs about the balance service, for every width of a balance, every   *)
(* threshold and any number of failing queries.                            *)
(***************************************************************************)
EXTENDS BalanceService, TLAPS

\* The unsigned difference of two balances is again a balance, and it is the
\* difference of the integers when the balance has not fallen.
LEMMA MinusGrowth ==
    ASSUME NEW a \in Balances, NEW b \in Balances
    PROVE  /\ Minus(a, b) \in Nat
           /\ b <= a => Minus(a, b) = a - b
BY BalanceAssumption DEF Balances, Minus

\* The initial states satisfy the inductive invariant.
LEMMA InitInd == Init => IndInv
<1> SUFFICES ASSUME Init PROVE IndInv
  OBVIOUS
<1> USE BalanceAssumption DEF Init
<1>1. TypeOK
  <2>1. reports \in Seq(Balances \X Balances) /\ Len(reports) <= 1
    OBVIOUS
  <2>2. ledger \in Balances /\ current \in Balances /\ old \in Balances
    BY DEF Balances
  <2>3. status \in 0..2 /\ failures \in 0..MaxFailures
    OBVIOUS
  <2> QED
    BY <2>1, <2>2, <2>3, Zenon DEF TypeOK
<1>2. SeenGrows /\ GrowthNoticed
  BY DEF SeenGrows, GrowthNoticed, NotifyMeansThreshold
<1> QED
  BY <1>1, <1>2 DEF IndInv

\* Every step keeps the inductive invariant.
LEMMA NextInd == IndInv /\ [Next]_vars => IndInv'
<1> SUFFICES ASSUME IndInv, [Next]_vars PROVE IndInv'
  OBVIOUS
<1> USE BalanceAssumption
<1>0. TypeOK /\ SeenGrows /\ GrowthNoticed
  BY DEF IndInv
<1>1. CASE Transfer
  <2>1. TypeOK'
    BY <1>0, <1>1 DEF TypeOK, Transfer, Balances
  <2>2. SeenGrows'
    <3>1. ASSUME ~fell' PROVE ~fell /\ ledger <= ledger'
      <4>1. ~fell /\ ~(ledger' < ledger)
        BY <1>1, <3>1, Zenon DEF Transfer
      <4> QED
        BY <1>0, <2>1, <4>1 DEF TypeOK, Balances
    <3>2. Minus(current', old') = Minus(current, old)
      BY <1>1 DEF Transfer
    <3> QED
      BY <1>0, <1>1, <3>1, <3>2 DEF TypeOK, SeenGrows, Transfer, Balances
  <2>3. GrowthNoticed'
    BY <1>0, <1>1 DEF GrowthNoticed, NotifyMeansThreshold, Transfer, TypeOK
  <2> QED
    BY <2>1, <2>2, <2>3 DEF IndInv
<1>2. CASE Start \/ Stop \/ JoinAndFree
  <2>1. TypeOK'
    BY <1>0, <1>2 DEF TypeOK, Start, Stop, JoinAndFree
  <2>2. SeenGrows'
    <3>1. Minus(current', old') = Minus(current, old)
      BY <1>2 DEF Start, Stop, JoinAndFree
    <3>2. reports # <<>> => pc = "ended"
      BY <1>0 DEF SeenGrows
    <3> QED
      BY <1>0, <1>2, <3>1, <3>2 DEF TypeOK, SeenGrows, Start, Stop, JoinAndFree
  <2>3. GrowthNoticed'
    BY <1>0, <1>2 DEF GrowthNoticed, NotifyMeansThreshold, SeenGrows, TypeOK,
                      Start, Stop, JoinAndFree
  <2> QED
    BY <2>1, <2>2, <2>3 DEF IndInv
<1>3. CASE First \/ FirstFails \/ Mark \/ Query \/ QueryBreaks
  <2>1. TypeOK'
    BY <1>0, <1>3 DEF TypeOK, First, FirstFails, Mark, Query, QueryBreaks,
                      QueryFails
  <2>2. SeenGrows'
    BY <1>0, <1>3 DEF TypeOK, SeenGrows, First, FirstFails, Mark, Query,
                      QueryBreaks, QueryFails, Balances, Minus
  <2>3. GrowthNoticed'
    BY <1>0, <1>3 DEF GrowthNoticed, NotifyMeansThreshold, SeenGrows, TypeOK,
                      First, FirstFails, Mark, Query, QueryBreaks, QueryFails
  <2> QED
    BY <2>1, <2>2, <2>3 DEF IndInv
<1>4. CASE Test \/ Awake
  <2>1. TypeOK'
    BY <1>0, <1>4 DEF TypeOK, Test, Awake
  <2>2. SeenGrows'
    <3>1. Minus(current, old) \in Nat
      BY <1>0, MinusGrowth DEF TypeOK
    <3>2. Minus(current', old') = Minus(current, old)
      BY <1>4 DEF Test, Awake
    <3>3. pc' = "notify" /\ owner' = "started" /\ failures' = 0
             => Threshold <= Minus(current, old)
      BY <1>0, <1>4, <3>1 DEF SeenGrows, Test, Awake
    <3>4. reports' = <<>>
      BY <1>0, <1>4 DEF SeenGrows, Test, Awake
    <3> QED
      BY <1>0, <1>4, <3>2, <3>3, <3>4 DEF TypeOK, SeenGrows, Test, Awake
  <2>3. GrowthNoticed'
    BY <1>0, <1>4 DEF GrowthNoticed, NotifyMeansThreshold, TypeOK, Test, Awake
  <2> QED
    BY <2>1, <2>2, <2>3 DEF IndInv
<1>5. CASE Notify
  <2>0. reports = <<>> /\ reports' = <<<<old, current>>>>
    <3>1. reports = <<>> /\ reports' = Append(reports, <<old, current>>)
      BY <1>0, <1>5, Zenon DEF SeenGrows, Notify
    <3> QED
      BY <3>1
  <2>1. TypeOK'
    BY <1>0, <1>5, <2>0 DEF TypeOK, Notify
  <2>2. SeenGrows'
    BY <1>0, <1>5 DEF TypeOK, SeenGrows, Notify
  <2>3. GrowthNoticed'
    <3> SUFFICES ASSUME ~fell', owner' = "started", failures' = 0
                 PROVE  reports'[1][1] + Threshold <= reports'[1][2]
      BY DEF GrowthNoticed, NotifyMeansThreshold
    <3>1. old <= current /\ Threshold <= Minus(current, old)
      BY <1>0, <1>5 DEF SeenGrows, Notify
    <3>2. Minus(current, old) = current - old
      BY <1>0, <3>1, MinusGrowth DEF TypeOK
    <3>3. old + Threshold <= current
      BY <1>0, <3>1, <3>2 DEF TypeOK, Balances
    <3> QED
      BY <2>0, <3>3
  <2> QED
    BY <2>1, <2>2, <2>3 DEF IndInv
<1>6. CASE UNCHANGED vars
  BY <1>0, <1>6 DEF IndInv, TypeOK, SeenGrows, GrowthNoticed,
                    NotifyMeansThreshold, vars
<1> QED
  BY <1>1, <1>2, <1>3, <1>4, <1>5, <1>6 DEF Next, Owner, Thread

\* The inductive invariant holds in every reachable state.
LEMMA Inductive == Spec => []IndInv
BY InitInd, NextInd, PTL DEF Spec

\* The variables of the service keep their types, and the callback is called at
\* most once (wallet.c, balance_service).
THEOREM TypeCorrect == Spec => []TypeOK
<1>1. IndInv => TypeOK
  BY DEF IndInv
<1> QED
  BY <1>1, Inductive, PTL

\* Whatever the width of a balance, while the balance of the address does not go
\* down a callback that was not caused by a stop or a failed query means growth
\* by the threshold (wallet.c:234).
THEOREM ServiceGrowth == Spec => []GrowthNoticed
<1>1. IndInv => GrowthNoticed
  BY DEF IndInv
<1> QED
  BY <1>1, Inductive, PTL
=============================================================================
