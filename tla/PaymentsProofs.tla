--------------------------- MODULE PaymentsProofs ---------------------------
(***************************************************************************)
(* Proofs about the payments, for every number of slots, every interval    *)
(* and time-out and any set of transactions.                               *)
(***************************************************************************)
EXTENDS Payments, SequenceTheorems, WellFoundedInduction, TLAPS

\* The first slot of a set of slots, which the loops of the plugin stop at.
LEMMA LeastSlot ==
    ASSUME NEW S \in SUBSET Entries, S # {}
    PROVE  (CHOOSE s \in S : \A u \in S : s <= u) \in S
<1>1. S \subseteq Nat
  BY PaymentsAssumption DEF Entries
<1>2. PICK s \in S : \A u \in S : ~(<<u, s>> \in OpToRel(<, Nat))
  BY <1>1, NatLessThanWellFounded, WFMin, Zenon
<1>3. ASSUME NEW u \in S PROVE s <= u
  <2>1. ~(u < s)
    BY <1>1, <1>2, Zenon DEF OpToRel
  <2> QED
    BY <1>1, <2>1
<1> QED
  BY <1>3, Zenon

\* What the node says of a transaction is true when it says yes.
LEMMA Answers ==
    ASSUME NEW t, NEW ok \in CheckConfirmation(t)
    PROVE  ok \in BOOLEAN /\ (ok => t \in confirmed)
BY Zenon DEF CheckConfirmation

\* What is left of a sequence behind its first k elements.
LEMMA BehindFirst ==
    ASSUME NEW S, NEW b \in Seq(S), NEW k \in Nat
    PROVE  LET d == SubSeq(b, k + 1, Len(b))
           IN  /\ d \in Seq(S)
               /\ Len(b) <= k => d = << >>
               /\ k < Len(b) => Len(d) = Len(b) - k
               /\ \A i \in 1..(Len(b) - k) : d[i] = b[k + i]
<1> DEFINE d == SubSeq(b, k + 1, Len(b))
           n == Len(b)
           m == Len(d)
<1>1. n \in Nat /\ DOMAIN b = 1..n
  OBVIOUS
<1>2. \A i \in (k + 1)..Len(b) : b[i] \in S
  OBVIOUS
<1>3. /\ d \in Seq(S)
      /\ \A i \in 1..(n - (k + 1) + 1) : d[i] = b[k + 1 + i - 1]
  BY <1>1, <1>2, SubSeqProperties
<1>4. m = IF k + 1 <= n THEN n - (k + 1) + 1 ELSE 0
  BY <1>1, <1>2, SubSeqProperties
<1>5. d # << >> => m \in Nat \ {0}
  BY <1>3, EmptySeq, Zenon
<1> HIDE DEF d, n, m
<1>6. /\ n <= k => d = << >>
      /\ k < n => m = n - k
  BY <1>1, <1>4, <1>5
<1>7. ASSUME NEW i \in 1..(n - k) PROVE d[i] = b[k + i]
  <2>1. i \in 1..(n - (k + 1) + 1) /\ k + 1 + i - 1 = k + i
    BY <1>1
  <2> QED
    BY <1>3, <2>1, Zenon
<1> QED
  BY <1>3, <1>6, <1>7 DEF d, n, m

\* What fwrite makes of a file when it is written from its start: the new content
\* as far as it goes, and the old one behind it.
LEMMA Overwritten ==
    ASSUME NEW S, NEW c \in Seq(S), NEW b \in Seq(S)
    PROVE  LET r == c \o SubSeq(b, Len(c) + 1, Len(b))
           IN  /\ r \in Seq(S)
               /\ Len(b) <= Len(c) => r = c
               /\ \A i \in DOMAIN r : \/ i \in DOMAIN c /\ r[i] = c[i]
                                      \/ i \in DOMAIN b /\ r[i] = b[i]
<1> DEFINE k == Len(c)
           n == Len(b)
           d == SubSeq(b, k + 1, n)
<1>1. k \in Nat /\ n \in Nat /\ DOMAIN c = 1..k /\ DOMAIN b = 1..n
  OBVIOUS
<1>2. /\ d \in Seq(S)
      /\ n <= k => d = << >>
      /\ k < n => Len(d) = n - k
      /\ \A i \in 1..(n - k) : d[i] = b[k + i]
  BY BehindFirst
<1> HIDE DEF d
<1>3. CASE n <= k
  <2>1. c \o d = c
    BY <1>2, <1>3
  <2> QED
    BY <2>1 DEF d
<1>4. CASE k < n
  <2>1. /\ c \o d \in Seq(S) /\ Len(c \o d) = k + Len(d)
        /\ \A i \in 1..(k + Len(d)) :
              (c \o d)[i] = IF i <= k THEN c[i] ELSE d[i - k]
    BY <1>2, ConcatProperties
  <2>2. DOMAIN (c \o d) = 1..n
    <3>1. k + (n - k) = n
      BY <1>1
    <3> QED
      BY <1>2, <1>4, <2>1, <3>1, LenProperties
  <2> HIDE DEF k, n
  <2>3. ASSUME NEW i \in 1..n
        PROVE  \/ i \in 1..k /\ (c \o d)[i] = c[i]
               \/ i \in 1..n /\ (c \o d)[i] = b[i]
    <3>1. i \in 1..(k + Len(d))
      BY <1>1, <1>2, <1>4
    <3>2. CASE i <= k
      BY <1>1, <2>1, <3>1, <3>2
    <3>3. CASE ~(i <= k)
      <4>1. i - k \in 1..(n - k) /\ k + (i - k) = i
        BY <1>1, <3>3
      <4>2. (c \o d)[i] = d[i - k]
        BY <2>1, <3>1, <3>3
      <4> QED
        BY <1>2, <4>1, <4>2
    <3> QED
      BY <3>2, <3>3
  <2>4. ~(n <= k)
    BY <1>1, <1>4
  <2> QED
    BY <1>1, <2>1, <2>2, <2>3, <2>4, Zenon DEF d, k, n
<1>5. n <= k \/ k < n
  BY <1>1
<1> QED
  BY <1>3, <1>4, <1>5, Zenon

\* What the update changes in its copy: the flag of the first record.
LEMMA MarkedFile ==
    ASSUME bill \in Files, bill # <<>>, NEW ok \in BOOLEAN
    PROVE  /\ Marked(ok) \in Files
           /\ Names(Marked(ok)) = Names(bill)
           /\ OnlyFirst(bill)
                 => OnlyFirst(Marked(ok)) /\ (Verified(Marked(ok)) => ok)
<1> DEFINE r == [bill[1] EXCEPT !.validated = ok]
           m == [i \in 1..Len(bill) |-> IF i = 1 THEN r ELSE bill[i]]
<1>1. /\ Len(bill) \in Nat \ {0} /\ DOMAIN bill = 1..Len(bill) /\ 1 \in DOMAIN bill
      /\ \A i \in 1..Len(bill) : bill[i] \in Records
  BY DEF Files
<1>2. Marked(ok) = m
  <2>1. Marked(ok) = [bill EXCEPT ![1] = r]
    BY Zenon DEF Marked
  <2> QED
    BY <1>1, <2>1
<1>3. r \in Records /\ r.id = bill[1].id /\ r.validated = ok
  BY <1>1 DEF Records
<1> HIDE DEF r
<1>4. \A i \in 1..Len(bill) : m[i] \in Records /\ m[i].id = bill[i].id
  BY <1>1, <1>3
<1>5. m \in Files
  BY <1>1, <1>4 DEF Files
<1>6. Names(m) = Names(bill)
  BY <1>1, <1>4 DEF Names
<1>7. ASSUME OnlyFirst(bill), NEW i \in DOMAIN m, m[i].validated
      PROVE  i = 1 /\ ok
  <2>1. CASE i = 1
    BY <1>1, <1>3, <1>7, <2>1
  <2>2. CASE i # 1
    <3>1. i \in DOMAIN bill /\ m[i] = bill[i]
      BY <1>1, <2>2
    <3> QED
      BY <1>7, <2>2, <3>1, Zenon DEF OnlyFirst
  <2> QED
    BY <2>1, <2>2
<1> HIDE DEF m
<1>8. OnlyFirst(bill) => OnlyFirst(m) /\ (Verified(m) => ok)
  BY <1>7, Zenon DEF OnlyFirst, Verified
<1> QED
  BY <1>2, <1>5, <1>6, <1>8, Zenon

\* The bill stays complete when no step of an update is made.
LEMMA CompleteKept ==
    ASSUME Complete, UNCHANGED <<bill, copy, paid, raced>>,
           \A w \in Threads : /\ pc[w] = "write" <=> pc'[w] = "write"
                              /\ pc'[w] = "trunc" => pc[w] = "trunc"
    PROVE  Complete'
<1>1. Names(bill)' = Names(bill) /\ Owed' = Owed
  BY DEF Names, Owed
<1>2. \A w \in Threads : Names(copy[w])' = Names(copy[w])
  BY DEF Names
<1> QED
  BY <1>1, <1>2 DEF Complete, Updating

\* What is said to be confirmed stays so when no step of an update is made and
\* nothing is asked of the node.
LEMMA CausedKept ==
    ASSUME IndInv, UNCHANGED <<bill, copy, confirmed, paid, result>>,
           \A w \in Threads : pc'[w] \in {"trunc", "write"} =>
                                  pc[w] \in {"trunc", "write"},
           pc'[Net] \in {"read", "trunc", "write"} =>
               pc[Net] \in {"read", "trunc", "write"} /\ cur' = cur
    PROVE  Caused'
<1>1. \A t \in confirmed' : Stored(t)'
  BY DEF IndInv, Caused, Stored
<1>2. \A t \in Txs : result'[t] => t \in confirmed'
  BY Zenon DEF IndInv, Caused
<1>3. pc'[Net] \in {"read", "trunc", "write"} => cur'[1] \in confirmed'
  BY DEF IndInv, Caused
<1>4. OnlyFirst(bill)'
  BY DEF IndInv, Caused, OnlyFirst
<1>5. ASSUME NEW w \in Threads, Updating(w)' PROVE Earned(w)'
  <2>1. Updating(w) /\ (w = Net => cur' = cur)
    BY <1>5 DEF Updating
  <2>2. Earned(w)
    BY <2>1 DEF IndInv, Caused
  <2> QED
    BY <2>1, <2>2 DEF Earned, OnlyFirst, Verified, Own
<1> QED
  BY <1>1, <1>2, <1>3, <1>4, <1>5, Zenon DEF Caused

\* A step on a NULL pointer changes nothing but that the process is dead.
LEMMA DiesInd == ASSUME IndInv, Dies PROVE IndInv'
<1>1. TypeOK'
  BY Zenon DEF IndInv, TypeOK, Dies, servVars, histVars
<1>2. Progress' /\ Tracked' /\ Filled'
  BY DEF IndInv, Progress, Tracked, Filled, Stored, Running, Dies, servVars,
         histVars
<1>3. Caused' /\ Complete'
  BY CausedKept, CompleteKept DEF IndInv, Dies, servVars, histVars
<1> QED
  BY <1>1, <1>2, <1>3 DEF IndInv

\* The Tangle confirms a transaction.
LEMMA ConfirmInd == ASSUME IndInv, NEW t \in Txs, Confirm(t) PROVE IndInv'
<1>1. TypeOK'
  BY DEF IndInv, TypeOK, Confirm, servVars, histVars
<1>2. Progress' /\ Tracked' /\ Filled'
  BY DEF IndInv, Progress, Tracked, Filled, Stored, Running, Confirm, servVars,
         histVars
<1>3. Caused'
  <2>0. /\ Stored(t) /\ confirmed' = confirmed \cup {t}
        /\ UNCHANGED <<bill, copy, pc, cur, paid, result>>
    BY DEF Confirm, Stored, servVars, histVars
  <2>1. \A u \in confirmed' : Stored(u)'
    BY <2>0 DEF IndInv, Caused, Stored
  <2>2. \A u \in Txs : result'[u] => u \in confirmed'
    BY <2>0, Zenon DEF IndInv, Caused
  <2>3. /\ pc'[Net] \in {"read", "trunc", "write"} => cur'[1] \in confirmed'
        /\ OnlyFirst(bill)'
    BY <2>0 DEF IndInv, Caused, OnlyFirst
  <2>4. \A w \in Threads : Updating(w)' => Earned(w)'
    BY <2>0 DEF IndInv, Caused, Updating, Earned, OnlyFirst, Verified, Own
  <2> QED
    BY <2>1, <2>2, <2>3, <2>4, Zenon DEF Caused
<1>4. Complete'
  BY CompleteKept DEF IndInv, Confirm, histVars
<1> QED
  BY <1>1, <1>2, <1>3, <1>4 DEF IndInv

\* A record is appended to the bill: when nobody is updating the file, behind all
\* the others; otherwise raced is set.
LEMMA StoreInd ==
    ASSUME IndInv, NEW t \in Txs, NEW p \in Ids, Store(t, p)
    PROVE  IndInv'
<1> DEFINE r == [id |-> p, validated |-> FALSE]
<1> USE PaymentsAssumption
<1>0. /\ bill \in Files /\ paid \in Seq(Txs \X Ids) /\ pc[Net] = "idle"
      /\ cur' = <<t, p>> /\ pc' = [pc EXCEPT ![Net] = "check"]
      /\ bill' = Append(bill, r) /\ paid' = Append(paid, <<t, p>>)
      /\ raced' = (raced \/ \E w \in Txs : Updating(w))
      /\ UNCHANGED <<alive, confirmed, slot, index, serv, time, result, place, copy,
                     faults>>
  BY DEF IndInv, TypeOK, Store, Goto, servVars
<1>1. /\ bill' \in Files /\ Len(bill') = Len(bill) + 1
      /\ bill'[Len(bill) + 1] = r /\ \A i \in 1..Len(bill) : bill'[i] = bill[i]
  <2>1. r \in Records
    BY DEF Records
  <2> HIDE DEF r
  <2> QED
    BY <1>0, <2>1, AppendProperties DEF Files
<1>2. /\ paid' \in Seq(Txs \X Ids) /\ Len(paid') = Len(paid) + 1
      /\ paid'[Len(paid) + 1] = <<t, p>>
      /\ \A i \in 1..Len(paid) : paid'[i] = paid[i]
  <2>1. <<t, p>> \in Txs \X Ids
    OBVIOUS
  <2> QED
    BY <1>0, <2>1, AppendProperties
<1>3. Stored(t)' /\ \A u : Stored(u) => Stored(u)'
  <2>1. /\ Len(paid) \in Nat /\ DOMAIN paid = 1..Len(paid)
        /\ DOMAIN paid' = 1..(Len(paid) + 1)
    BY <1>0, <1>2
  <2>2. paid'[Len(paid) + 1][1] = t /\ Len(paid) + 1 \in DOMAIN paid'
    BY <1>2, <2>1
  <2>3. \A i \in DOMAIN paid : i \in DOMAIN paid' /\ paid'[i] = paid[i]
    BY <1>2, <2>1
  <2> QED
    BY <2>2, <2>3, Zenon DEF Stored
<1>4. pc[t] = "none"
  BY DEF IndInv, Progress, Stored, Store
<1>5. TypeOK'
  <2>1. raced' \in BOOLEAN
    BY <1>0, Zenon
  <2> QED
    BY <1>0, <1>1, <1>2, <2>1 DEF IndInv, TypeOK, Threads
<1>6. Progress'
  BY <1>0, <1>3, <1>4 DEF IndInv, TypeOK, Progress, Threads, Net
<1>7. Tracked' /\ Filled'
  BY <1>0 DEF IndInv, TypeOK, Progress, Tracked, Filled, Running, Threads, Net
<1>8. Caused'
  <2>1. \A u \in confirmed : Stored(u)'
    BY <1>3 DEF IndInv, Caused
  <2>2. ASSUME NEW i \in DOMAIN bill', bill'[i].validated PROVE i = 1
    <3>1. i # Len(bill) + 1
      BY <1>1, <2>2
    <3>2. i \in DOMAIN bill /\ bill'[i] = bill[i]
      BY <1>0, <1>1, <3>1 DEF Files
    <3> QED
      BY <2>2, <3>2, Zenon DEF IndInv, Caused, OnlyFirst
  <2>3. OnlyFirst(bill)'
    BY <2>2, Zenon DEF OnlyFirst
  <2> HIDE DEF r
  <2>4. /\ pc'[Net] = "check" /\ ~Updating(Net)'
        /\ \A w \in Threads : w # Net => pc'[w] = pc[w]
    BY <1>0 DEF IndInv, TypeOK, Threads, Updating
  <2>5. ASSUME NEW w \in Threads, Updating(w)' PROVE Earned(w)'
    <3>1. w # Net /\ Updating(w)
      BY <2>4, <2>5 DEF Updating
    <3> QED
      BY <1>0, <3>1 DEF IndInv, Caused, Earned, OnlyFirst, Verified, Own
  <2>6. \A u \in Txs : result'[u] => u \in confirmed'
    BY <1>0, Zenon DEF IndInv, Caused
  <2> QED
    BY <1>0, <2>1, <2>3, <2>4, <2>5, <2>6 DEF Caused
<1>9. Complete'
  <2> SUFFICES ASSUME ~raced'
               PROVE  /\ \A w \in Threads : ~Updating(w)'
                      /\ Names(bill)' = Owed'
    BY DEF Complete
  <2>1. ~raced /\ \A w \in Threads : ~Updating(w)
    BY <1>0 DEF Updating, Threads
  <2>2. \A w \in Threads : ~Updating(w)'
    BY <1>0, <2>1 DEF IndInv, TypeOK, Updating, Threads
  <2>3. Names(bill) = Owed
    BY <2>1 DEF IndInv, Complete, Updating
  <2>4. Len(bill) = Len(paid) /\ \A i \in 1..Len(bill) : bill[i].id = paid[i][2]
    BY <1>0, <2>3 DEF Names, Owed, Files
  <2>5. Names(bill)' = Owed'
    BY <1>1, <1>2, <2>4 DEF Names, Owed, Files
  <2> QED
    BY <2>2, <2>5
<1> QED
  BY <1>5, <1>6, <1>7, <1>8, <1>9 DEF IndInv

\* The other steps of the network thread that leave the slots alone.
LEMMA CallInd ==
    ASSUME IndInv,
           StoreFails \/ (\E p \in Ids : IsStored(p)) \/ StoreChecks \/ Limit
    PROVE  IndInv'
<1> USE PaymentsAssumption
<1>1. CASE StoreFails
  <2>1. TypeOK'
    BY <1>1 DEF IndInv, TypeOK, StoreFails, Fault, servVars, histVars
  <2>2. Progress' /\ Tracked' /\ Filled'
    BY <1>1 DEF IndInv, Progress, Tracked, Filled, Stored, Running, StoreFails,
                servVars, histVars
  <2>3. Caused' /\ Complete'
    BY <1>1, CausedKept, CompleteKept DEF IndInv, StoreFails, servVars, histVars
  <2> QED
    BY <2>1, <2>2, <2>3 DEF IndInv
<1>2. ASSUME NEW p \in Ids, IsStored(p) PROVE IndInv'
  <2>1. TypeOK'
    BY <1>2 DEF IndInv, TypeOK, IsStored, Goto, Threads, servVars, histVars
  <2>2. Progress'
    BY <1>2 DEF IndInv, TypeOK, Progress, Stored, IsStored, Goto, Threads, Net,
                histVars
  <2>3. Tracked' /\ Filled'
    BY <1>2 DEF IndInv, TypeOK, Progress, Tracked, Filled, Running, IsStored, Goto,
                Threads, Net, servVars
  <2>4. Caused'
    BY <1>2, CausedKept DEF IndInv, TypeOK, IsStored, Goto, Threads, servVars,
                            histVars
  <2>5. Complete'
    BY <1>2, CompleteKept DEF IndInv, TypeOK, IsStored, Goto, Threads, histVars
  <2> QED
    BY <2>1, <2>2, <2>3, <2>4, <2>5 DEF IndInv
<1>3. CASE StoreChecks
  <2>1. PICK ok \in CheckConfirmation(cur[1]) :
           IF ok THEN Goto(Net, "read") /\ index' = index
                 ELSE Goto(Net, "clear") /\ index' = 1
    BY <1>3 DEF StoreChecks
  <2>2. ok \in BOOLEAN /\ (ok => cur[1] \in confirmed)
    BY <2>1, Answers
  <2>3. PICK x \in {"read", "clear"} :
           /\ pc' = [pc EXCEPT ![Net] = x] /\ index' \in {1, index}
           /\ x = "read" => cur[1] \in confirmed
    BY <2>1, <2>2 DEF Goto
  <2>4. /\ pc[Net] = "check"
        /\ UNCHANGED <<alive, confirmed, bill, slot, cur, serv, time, result, place,
                       copy, faults, paid, raced>>
    BY <1>3 DEF StoreChecks, servVars, histVars
  <2>5. TypeOK'
    BY <2>3, <2>4 DEF IndInv, TypeOK, Threads
  <2>6. Progress'
    BY <2>3, <2>4 DEF IndInv, TypeOK, Progress, Stored, Threads, Net
  <2>7. Tracked' /\ Filled'
    BY <2>3, <2>4 DEF IndInv, TypeOK, Progress, Tracked, Filled, Running, Threads, Net
  <2>8. Caused'
    <3>1. CASE x = "clear"
      BY <2>3, <2>4, <3>1, CausedKept DEF IndInv, TypeOK, Threads
    <3>2. CASE x = "read"
      <4>1. /\ pc'[Net] = "read" /\ ~Updating(Net)' /\ cur'[1] \in confirmed'
            /\ \A w \in Threads : w # Net => pc'[w] = pc[w]
        BY <2>3, <2>4, <3>2 DEF IndInv, TypeOK, Threads, Updating
      <4>2. ASSUME NEW w \in Threads, Updating(w)' PROVE Earned(w)'
        <5>1. w # Net /\ Updating(w)
          BY <4>1, <4>2 DEF Updating
        <5> QED
          BY <2>4, <5>1 DEF IndInv, Caused, Earned, OnlyFirst, Verified, Own
      <4>3. /\ \A u \in confirmed' : Stored(u)'
            /\ OnlyFirst(bill)'
        BY <2>4 DEF IndInv, Caused, Stored, OnlyFirst
      <4>4. \A u \in Txs : result'[u] => u \in confirmed'
        BY <2>4, Zenon DEF IndInv, Caused
      <4> QED
        BY <4>1, <4>2, <4>3, <4>4, Zenon DEF Caused
    <3> QED
      BY <3>1, <3>2
  <2>9. Complete'
    BY <2>3, <2>4, CompleteKept DEF IndInv, TypeOK, Threads
  <2> QED
    BY <2>5, <2>6, <2>7, <2>8, <2>9 DEF IndInv
<1>4. CASE Limit
  <2>1. TypeOK'
    BY <1>4 DEF IndInv, TypeOK, Limit, Return, NoCall, Goto, Threads, servVars,
                histVars
  <2>2. Progress'
    BY <1>4 DEF IndInv, TypeOK, Progress, Stored, Limit, Return, NoCall, Goto,
                Threads, Net, histVars
  <2>3. Tracked' /\ Filled'
    BY <1>4 DEF IndInv, TypeOK, Progress, Tracked, Filled, Running, Limit, Return,
                Goto, Threads, Net, servVars
  <2>4. Caused'
    BY <1>4, CausedKept DEF IndInv, TypeOK, Limit, Return, Goto, Threads,
                            servVars, histVars
  <2>5. Complete'
    BY <1>4, CompleteKept DEF IndInv, TypeOK, Limit, Return, Goto, Threads, histVars
  <2> QED
    BY <2>1, <2>2, <2>3, <2>4, <2>5 DEF IndInv
<1> QED
  BY <1>1, <1>2, <1>3, <1>4

\* A slot that is done is cleared: its thread has ended, so that no callback
\* loses its slot, and no thread its service.
LEMMA ClearInd == ASSUME IndInv, Clear PROVE IndInv'
<1> USE PaymentsAssumption
<1> DEFINE t == slot[index].service
<1>0. /\ pc[Net] = "clear" /\ index \in Entries /\ index' = index + 1
      /\ UNCHANGED <<alive, confirmed, bill, pc, cur, time, result, place, copy,
                     faults, paid, raced>>
  BY DEF Clear, histVars
<1>1. Caused' /\ Complete'
  <2>1. Caused'
    BY <1>0, CausedKept
  <2>2. Complete'
    BY <1>0, CompleteKept DEF IndInv
  <2> QED
    BY <2>1, <2>2
<1>2. CASE slot[index].done
  <2>1. t \in Txs /\ pc[t] = "ended"
    BY <1>0, <1>2 DEF IndInv, TypeOK, SlotValues, Filled, Clear
  <2>2. /\ serv' = [serv EXCEPT ![t] = "freed"]
        /\ slot' = [slot EXCEPT ![index] =
                       [service |-> None, id |-> "freed", done |-> FALSE]]
    BY <1>2 DEF Clear
  <2> HIDE DEF t
  <2>3. TypeOK'
    <3>1. slot' \in [Entries -> SlotValues]
      BY <1>0, <2>2 DEF IndInv, TypeOK, SlotValues
    <3>2. index' \in 1..(Slots + 1)
      BY <1>0 DEF Entries
    <3> QED
      BY <1>0, <2>1, <2>2, <3>1, <3>2 DEF IndInv, TypeOK
  <2>4. \A s \in Entries : slot'[s].service =
                               IF s = index THEN None ELSE slot[s].service
    BY <1>0, <2>2 DEF IndInv, TypeOK
  <2>5. Progress'
    BY <1>0, <2>4 DEF IndInv, Progress, Stored
  <2>6. Tracked'
    BY <1>0, <2>1, <2>2, <2>4 DEF IndInv, TypeOK, Progress, Tracked, Running, t
  <2>7. Filled'
    BY <1>0, <2>2 DEF IndInv, TypeOK, Filled
  <2> QED
    BY <1>1, <2>3, <2>5, <2>6, <2>7 DEF IndInv
<1>3. CASE ~slot[index].done
  <2>1. serv' = serv /\ slot' = slot
    BY <1>3 DEF Clear
  <2>2. TypeOK'
    <3>1. index' \in 1..(Slots + 1)
      BY <1>0 DEF Entries
    <3> QED
      BY <1>0, <2>1, <3>1 DEF IndInv, TypeOK
  <2>3. Progress' /\ Tracked' /\ Filled'
    BY <1>0, <2>1 DEF IndInv, Progress, Tracked, Filled, Stored, Running
  <2> QED
    BY <1>1, <2>2, <2>3 DEF IndInv
<1> QED
  BY <1>2, <1>3

\* The first free slot is chosen, and a thread started for it or not.
LEMMA ChooseSlotInd == ASSUME IndInv, Start \/ StartFails PROVE IndInv'
<1> USE PaymentsAssumption
<1>0. /\ pc[Net] = "clear" /\ index' \in Entries /\ slot[index'].service = None
      /\ UNCHANGED <<alive, confirmed, bill, slot, cur, time, result, place, copy,
                     paid, raced>>
  <2>1. Free \in SUBSET Entries /\ Free # {}
    BY DEF Start, StartFails, Free
  <2>2. index' \in Free
    BY <2>1, LeastSlot DEF Start, StartFails
  <2> QED
    BY <2>2 DEF Free, Start, StartFails, servVars, histVars
<1>1. cur[1] \in Txs /\ Stored(cur[1]) /\ pc[cur[1]] = "none"
  BY <1>0 DEF IndInv, Progress
<1>2. CASE Start
  <2>1. /\ serv' = [serv EXCEPT ![cur[1]] = "alive"] /\ faults' = faults
        /\ pc' = [pc EXCEPT ![Net] = "assign", ![cur[1]] = "first"]
    BY <1>2 DEF Start
  <2>2. /\ \A w \in Threads : pc'[w] = IF w = cur[1] THEN "first"
                                     ELSE IF w = Net THEN "assign" ELSE pc[w]
        /\ pc' \in [Threads -> {"idle", "none", "check", "read", "trunc", "write",
                       "clear", "assign", "fill", "verified", "first", "loop",
                       "find", "flag", "ended"}]
    BY <1>1, <2>1 DEF IndInv, TypeOK, Threads
  <2>3. TypeOK'
    <3>1. serv' \in [Txs -> {"none", "alive", "freed"}]
      BY <1>1, <2>1 DEF IndInv, TypeOK
    <3>2. index' \in 1..(Slots + 1)
      BY <1>0 DEF Entries
    <3> QED
      BY <1>0, <2>1, <2>2, <3>1, <3>2 DEF IndInv, TypeOK
  <2>4. pc'[Net] = "assign" /\ pc'[cur[1]] = "first" /\ cur[1] # Net
    BY <1>1, <2>2 DEF Threads, Net
  <2>5. \A t \in Txs : t # cur[1] => pc'[t] = pc[t] /\ serv'[t] = serv[t]
    BY <1>1, <2>1, <2>2 DEF IndInv, TypeOK, Threads, Net
  <2>6. Progress'
    <3>1. \A s \in Entries : slot[s].service # cur[1]
      BY <1>1 DEF IndInv, Tracked
    <3>2. \A t \in Txs :
            /\ pc'[t] \in {"none", "first", "loop", "find", "read", "trunc",
                           "write", "flag", "ended"}
            /\ pc'[t] # "none" => Stored(t)'
      BY <1>0, <1>1, <2>4, <2>5 DEF IndInv, Progress, Stored
    <3> QED
      BY <1>0, <1>1, <2>4, <3>1, <3>2 DEF Progress
  <2>7. Tracked'
    <3>1. serv'[cur[1]] = "alive"
      BY <1>1, <2>1 DEF IndInv, TypeOK
    <3>2. \A t \in Txs : Running(t)' =>
            /\ serv'[t] = "alive"
            /\ (\E s \in Entries : slot[s].service = t) \/ cur[1] = t
      BY <1>0, <2>5, <3>1 DEF IndInv, Tracked, Running
    <3> QED
      BY <1>0, <1>1, <2>4, <2>5, <3>2 DEF IndInv, Tracked
  <2>8. Filled' /\ Caused'
    <3>1. Filled'
      BY <1>0, <1>1, <2>2 DEF IndInv, Filled, Threads, Net
    <3>2. Caused'
      BY <1>0, <2>2, <2>4, CausedKept
    <3> QED
      BY <3>1, <3>2
  <2>9. Complete'
    BY <1>0, <1>1, <2>2, CompleteKept DEF IndInv
  <2> QED
    BY <2>3, <2>6, <2>7, <2>8, <2>9 DEF IndInv
<1>3. CASE StartFails
  <2>1. pc' = [pc EXCEPT ![Net] = "fill"] /\ serv' = serv /\ faults' \in 0..MaxFaults
    BY <1>3 DEF IndInv, TypeOK, StartFails, Goto, Fault, servVars
  <2>2. TypeOK'
    BY <1>0, <2>1 DEF IndInv, TypeOK, Threads, Entries
  <2>3. Progress'
    BY <1>0, <2>1 DEF IndInv, TypeOK, Progress, Stored, Threads, Net
  <2>4. Tracked' /\ Filled'
    BY <1>0, <2>1 DEF IndInv, TypeOK, Progress, Tracked, Filled, Running, Threads,
                      Net
  <2>5. Caused'
    BY <1>0, <2>1, CausedKept DEF IndInv, TypeOK, Threads
  <2>6. Complete'
    BY <1>0, <2>1, CompleteKept DEF IndInv, TypeOK, Threads
  <2> QED
    BY <2>2, <2>3, <2>4, <2>5, <2>6 DEF IndInv
<1> QED
  BY <1>2, <1>3

\* The service is assigned to the slot that was free, and the slot is filled.
LEMMA FillSlotInd == ASSUME IndInv, Assign \/ Fill PROVE IndInv'
<1> USE PaymentsAssumption
<1>1. CASE Assign
  <2>0. /\ pc[Net] = "assign" /\ pc' = [pc EXCEPT ![Net] = "fill"]
        /\ slot' = [slot EXCEPT ![index].service = cur[1]]
        /\ UNCHANGED <<alive, confirmed, bill, cur, index, serv, time, result,
                       place, copy, faults, paid, raced>>
    BY <1>1 DEF Assign, Goto, servVars, histVars
  <2>1. /\ cur[1] \in Txs /\ index \in Entries /\ slot[index].service = None
        /\ \A s \in Entries : slot[s].service # cur[1]
    BY <2>0 DEF IndInv, Progress
  <2>2. slot' \in [Entries -> SlotValues]
    <3> DEFINE r == [slot[index] EXCEPT !.service = cur[1]]
    <3>1. slot' = [slot EXCEPT ![index] = r]
      BY <2>0, <2>1 DEF IndInv, TypeOK
    <3>2. slot[index] \in SlotValues
      BY <2>1 DEF IndInv, TypeOK
    <3>3. r \in SlotValues
      BY <2>1, <3>2 DEF SlotValues
    <3> HIDE DEF r
    <3> QED
      BY <3>1, <3>3 DEF IndInv, TypeOK
  <2>3. \A s \in Entries :
          /\ slot'[s].service = IF s = index THEN cur[1] ELSE slot[s].service
          /\ slot'[s].id = slot[s].id /\ slot'[s].done = slot[s].done
    BY <2>0, <2>1 DEF IndInv, TypeOK, SlotValues
  <2>4. TypeOK'
    BY <2>0, <2>2 DEF IndInv, TypeOK, Threads
  <2>5. Progress'
    BY <2>0, <2>1, <2>3 DEF IndInv, TypeOK, Progress, Stored, Threads, Net
  <2>6. Tracked'
    BY <2>0, <2>1, <2>3 DEF IndInv, TypeOK, Progress, Tracked, Running, Threads, Net
  <2>7. Filled'
    BY <2>0, <2>1, <2>3 DEF IndInv, TypeOK, Progress, Filled, Threads, Net
  <2>8. Caused'
    BY <2>0, CausedKept DEF IndInv, TypeOK, Threads
  <2>9. Complete'
    BY <2>0, CompleteKept DEF IndInv, TypeOK, Threads
  <2> QED
    BY <2>4, <2>5, <2>6, <2>7, <2>8, <2>9 DEF IndInv
<1>2. CASE Fill
  <2>0. /\ pc[Net] = "fill" /\ pc' = [pc EXCEPT ![Net] = "idle"]
        /\ slot' = [slot EXCEPT ![index].id = "unset", ![index].done = FALSE]
        /\ cur' = <<None, None>>
        /\ UNCHANGED <<alive, confirmed, bill, index, serv, time, result, place,
                       copy, faults, paid, raced>>
    BY <1>2 DEF Fill, Return, NoCall, Goto, servVars, histVars
  <2>1. index \in Entries
    BY <2>0 DEF IndInv, Progress
  <2>2. slot' \in [Entries -> SlotValues]
    <3> DEFINE r == [slot[index] EXCEPT !.id = "unset", !.done = FALSE]
    <3>1. slot' = [slot EXCEPT ![index] = r]
      BY <2>0, <2>1 DEF IndInv, TypeOK
    <3>2. slot[index] \in SlotValues
      BY <2>1 DEF IndInv, TypeOK
    <3>3. r \in SlotValues
      BY <2>1, <3>2 DEF SlotValues
    <3> HIDE DEF r
    <3> QED
      BY <3>1, <3>3 DEF IndInv, TypeOK
  <2>3. \A s \in Entries :
          /\ slot'[s].service = slot[s].service
          /\ slot'[s].id = IF s = index THEN "unset" ELSE slot[s].id
          /\ slot'[s].done => slot[s].done
    BY <2>0, <2>1 DEF IndInv, TypeOK, SlotValues
  <2>4. TypeOK'
    BY <2>0, <2>2 DEF IndInv, TypeOK, Threads
  <2>5. Progress'
    BY <2>0, <2>3 DEF IndInv, TypeOK, Progress, Stored, Threads, Net
  <2>6. Tracked'
    <3>1. \A t \in Txs : pc'[t] = pc[t]
      BY <2>0 DEF IndInv, TypeOK, Threads, Net
    <3>2. \A t \in Txs : place[t] \in Entries
      BY DEF IndInv, TypeOK
    <3>3. \A s \in Entries : slot'[s].service = slot[s].service
      BY <2>3
    <3>4. pc[Net] = "fill" /\ serv' = serv /\ place' = place
      BY <2>0
    <3> QED
      BY <3>1, <3>2, <3>3, <3>4 DEF IndInv, Tracked, Running
  <2>7. Filled'
    BY <2>0, <2>1, <2>3 DEF IndInv, TypeOK, Filled, Threads, Net
  <2>8. Caused'
    BY <2>0, CausedKept DEF IndInv, TypeOK, Threads
  <2>9. Complete'
    BY <2>0, CompleteKept DEF IndInv, TypeOK, Threads
  <2> QED
    BY <2>4, <2>5, <2>6, <2>7, <2>8, <2>9 DEF IndInv
<1> QED
  BY <1>1, <1>2

\* Where a step of an update leaves the network thread: nobody else moves, and
\* neither the slots nor the services change.
LEMMA NetMoves ==
    ASSUME IndInv, NEW x \in {"idle", "trunc", "write"},
           pc[Net] \in {"read", "trunc", "write"}, pc' = [pc EXCEPT ![Net] = x],
           UNCHANGED <<slot, index, serv, place, paid>>
    PROVE  Progress' /\ Tracked' /\ Filled'
<1>1. pc'[Net] = x /\ \A t \in Txs : pc'[t] = pc[t]
  BY PaymentsAssumption DEF IndInv, TypeOK, Threads, Net
<1> QED
  BY <1>1 DEF IndInv, Progress, Tracked, Filled, Stored, Running

\* The same for a thread that waits for a transaction.
LEMMA ThreadMoves ==
    ASSUME IndInv, NEW t \in Txs, NEW x \in {"trunc", "write", "flag", "ended"},
           pc[t] \in {"read", "trunc", "write"}, pc' = [pc EXCEPT ![t] = x],
           UNCHANGED <<slot, index, cur, serv, place, paid>>
    PROVE  Progress' /\ Tracked' /\ Filled'
<1>1. /\ pc'[Net] = pc[Net] /\ pc'[t] = x
      /\ \A u \in Txs : u # t => pc'[u] = pc[u]
  BY PaymentsAssumption DEF IndInv, TypeOK, Threads, Net
<1>2. Progress'
  BY <1>1 DEF IndInv, Progress, Stored
<1>3. Tracked'
  BY <1>1 DEF IndInv, Progress, Tracked, Running
<1>4. Filled'
  BY <1>1 DEF IndInv, Filled
<1> QED
  BY <1>2, <1>3, <1>4

\* The file is read and its first record marked in memory.
LEMMA UpdateReadInd ==
    ASSUME IndInv, NEW w \in Threads, NEW ok \in BOOLEAN, pc[w] = "read",
           ok => Own(w) \in confirmed, bill # <<>>, UpdateRead(w, ok)
    PROVE  IndInv'
<1> USE PaymentsAssumption
<1>0. /\ pc' = [pc EXCEPT ![w] = "trunc"] /\ copy' = [copy EXCEPT ![w] = Marked(ok)]
      /\ UNCHANGED <<alive, confirmed, bill, slot, cur, index, serv, time, result,
                     place, faults, paid, raced>>
  BY DEF UpdateRead, Goto, servVars, histVars
<1>1. bill \in Files /\ copy \in [Threads -> Files]
  BY DEF IndInv, TypeOK
<1>2. /\ Marked(ok) \in Files /\ Names(Marked(ok)) = Names(bill)
      /\ OnlyFirst(Marked(ok)) /\ (Verified(Marked(ok)) => ok)
  BY <1>1, MarkedFile DEF IndInv, Caused
<1> DEFINE m == Marked(ok)
<1> HIDE DEF m
<1>3. /\ copy' = [copy EXCEPT ![w] = m] /\ m \in Files /\ Names(m) = Names(bill)
      /\ OnlyFirst(m) /\ (Verified(m) => ok)
  BY <1>0, <1>2 DEF m
<1>4. TypeOK'
  BY <1>0, <1>3 DEF IndInv, TypeOK
<1>5. Progress' /\ Tracked' /\ Filled'
  <2>1. CASE w = Net
    BY <1>0, <2>1, NetMoves
  <2>2. CASE w \in Txs
    BY <1>0, <2>2, ThreadMoves
  <2> QED
    BY <2>1, <2>2 DEF Threads
<1>6. \A v \in Threads : copy'[v] = IF v = w THEN m ELSE copy[v]
  BY <1>1, <1>3
<1>7. Caused'
  <2>1. \A t \in confirmed : Stored(t)'
    BY <1>0 DEF IndInv, Caused, Stored
  <2>2. ASSUME NEW v \in Threads, Updating(v)' PROVE Earned(v)'
    <3>1. CASE v = w
      <4>1. copy'[v] = m
        BY <1>6, <3>1
      <4> QED
        BY <1>0, <1>3, <3>1, <4>1 DEF Earned, OnlyFirst, Verified, Own
    <3>2. CASE v # w
      <4>1. Updating(v) /\ copy'[v] = copy[v]
        BY <1>0, <1>6, <2>2, <3>2 DEF Updating, IndInv, TypeOK
      <4>2. Earned(v)
        BY <4>1 DEF IndInv, Caused
      <4> QED
        BY <1>0, <4>1, <4>2 DEF Earned, OnlyFirst, Verified, Own
    <3> QED
      BY <3>1, <3>2
  <2>3. pc'[Net] \in {"read", "trunc", "write"} =>
           pc[Net] \in {"read", "trunc", "write"}
    BY <1>0 DEF IndInv, TypeOK, Threads
  <2>4. OnlyFirst(bill)'
    BY <1>0 DEF IndInv, Caused, OnlyFirst
  <2>5. \A t \in Txs : result'[t] => t \in confirmed'
    BY <1>0, Zenon DEF IndInv, Caused
  <2>6. pc'[Net] \in {"read", "trunc", "write"} => cur'[1] \in confirmed'
    BY <1>0, <2>3 DEF IndInv, Caused
  <2> QED
    BY <1>0, <2>1, <2>2, <2>4, <2>5, <2>6 DEF Caused
<1>8. Complete'
  <2> SUFFICES ASSUME ~raced
               PROVE  /\ \A v \in Threads : Updating(v)' => Names(copy'[v]) = Owed
                      /\ \/ Names(bill) = Owed
                         \/ bill = <<>> /\ \E v \in Threads : pc'[v] = "write"
    BY <1>0 DEF Complete, Names, Owed
  <2>1. Names(bill) = Owed
    BY DEF IndInv, Complete
  <2>2. ASSUME NEW v \in Threads, Updating(v)' PROVE Names(copy'[v]) = Owed
    <3>1. CASE v = w
      BY <1>3, <1>6, <2>1, <3>1
    <3>2. CASE v # w
      <4>1. Updating(v) /\ copy'[v] = copy[v]
        BY <1>0, <1>6, <2>2, <3>2 DEF Updating, IndInv, TypeOK
      <4> QED
        BY <4>1 DEF IndInv, Complete
    <3> QED
      BY <3>1, <3>2
  <2> QED
    BY <2>1, <2>2
<1> QED
  BY <1>4, <1>5, <1>7, <1>8 DEF IndInv

\* The file is truncated: whoever has done so is going to write all of it.
LEMMA UpdateTruncateInd ==
    ASSUME IndInv, NEW w \in Threads, UpdateTruncate(w)
    PROVE  IndInv'
<1> USE PaymentsAssumption
<1>0. /\ pc[w] = "trunc" /\ pc' = [pc EXCEPT ![w] = "write"] /\ bill' = <<>>
      /\ UNCHANGED <<alive, confirmed, copy, slot, cur, index, serv, time, result,
                     place, faults, paid, raced>>
  BY DEF UpdateTruncate, Goto, servVars, histVars
<1>1. TypeOK'
  <2>1. bill' \in Files
    BY <1>0 DEF Files
  <2> QED
    BY <1>0, <2>1 DEF IndInv, TypeOK
<1>2. Progress' /\ Tracked' /\ Filled'
  <2>1. CASE w = Net
    BY <1>0, <2>1, NetMoves
  <2>2. CASE w \in Txs
    BY <1>0, <2>2, ThreadMoves
  <2> QED
    BY <2>1, <2>2 DEF Threads
<1>3. Caused'
  <2>1. /\ \A t \in confirmed' : Stored(t)'
        /\ OnlyFirst(bill)'
    BY <1>0 DEF IndInv, Caused, Stored, OnlyFirst
  <2>2. \A t \in Txs : result'[t] => t \in confirmed'
    BY <1>0, Zenon DEF IndInv, Caused
  <2>3. pc'[Net] \in {"read", "trunc", "write"} =>
           pc[Net] \in {"read", "trunc", "write"}
    BY <1>0 DEF IndInv, TypeOK, Threads
  <2>4. pc'[Net] \in {"read", "trunc", "write"} => cur'[1] \in confirmed'
    BY <1>0, <2>3 DEF IndInv, Caused
  <2>5. ASSUME NEW v \in Threads, Updating(v)' PROVE Earned(v)'
    <3>1. Updating(v)
      BY <1>0, <2>5 DEF Updating, IndInv, TypeOK
    <3>2. Earned(v)
      BY <3>1 DEF IndInv, Caused
    <3> QED
      BY <1>0, <3>2 DEF Earned, OnlyFirst, Verified, Own
  <2> QED
    BY <2>1, <2>2, <2>4, <2>5, Zenon DEF Caused
<1>4. Complete'
  <2>1. \E v \in Threads : pc'[v] = "write"
    BY <1>0 DEF IndInv, TypeOK
  <2>2. \A v \in Threads : Updating(v)' => Updating(v)
    BY <1>0 DEF IndInv, TypeOK, Updating
  <2>3. Owed' = Owed /\ \A v \in Threads : Names(copy[v])' = Names(copy[v])
    BY <1>0 DEF Owed, Names
  <2> QED
    BY <1>0, <2>1, <2>2, <2>3 DEF IndInv, Complete
<1> QED
  BY <1>1, <1>2, <1>3, <1>4 DEF IndInv

\* The copy is written: over a file of the same records, or over an empty one, it
\* is what the file holds afterwards.
LEMMA UpdateWriteInd ==
    ASSUME IndInv, NEW w \in Threads, UpdateWrite(w)
    PROVE  IndInv'
<1> USE PaymentsAssumption
<1>0. PICK x \in {"idle", "flag"} :
      /\ w = Net <=> x = "idle"
      /\ pc[w] = "write" /\ pc' = [pc EXCEPT ![w] = x]
      /\ w = Net => cur' = <<None, None>>
      /\ w # Net => cur' = cur
      /\ bill' = copy[w] \o SubSeq(bill, Len(copy[w]) + 1, Len(bill))
      /\ copy' = [copy EXCEPT ![w] = <<>>]
      /\ UNCHANGED <<alive, confirmed, slot, index, serv, time, result, place,
                     faults, paid, raced>>
  <2>1. CASE w = Net
    BY <2>1 DEF UpdateWrite, Updated, Return, NoCall, Goto, servVars, histVars
  <2>2. CASE w # Net
    BY <2>2 DEF UpdateWrite, Updated, Goto, servVars, histVars
  <2> QED
    BY <2>1, <2>2
<1>2. bill \in Files /\ copy[w] \in Files /\ copy \in [Threads -> Files]
  BY DEF IndInv, TypeOK
<1>3. /\ bill' \in Files
      /\ Len(bill) <= Len(copy[w]) => bill' = copy[w]
      /\ \A i \in DOMAIN bill' : \/ i \in DOMAIN copy[w] /\ bill'[i] = copy[w][i]
                                 \/ i \in DOMAIN bill /\ bill'[i] = bill[i]
  <2> DEFINE r == copy[w] \o SubSeq(bill, Len(copy[w]) + 1, Len(bill))
  <2>1. /\ r \in Files
        /\ Len(bill) <= Len(copy[w]) => r = copy[w]
        /\ \A i \in DOMAIN r : \/ i \in DOMAIN copy[w] /\ r[i] = copy[w][i]
                               \/ i \in DOMAIN bill /\ r[i] = bill[i]
    BY <1>2, Overwritten DEF Files
  <2>2. bill' = r
    BY <1>0
  <2> HIDE DEF r
  <2> QED
    BY <2>1, <2>2, Zenon
<1>4. TypeOK'
  <2>1. cur' \in (Txs \cup {None}) \X (Ids \cup {None})
    BY <1>0 DEF IndInv, TypeOK
  <2>2. copy' \in [Threads -> Files]
    BY <1>0, <1>2 DEF Files
  <2> QED
    BY <1>0, <1>3, <2>1, <2>2 DEF IndInv, TypeOK
<1>5. Progress' /\ Tracked' /\ Filled'
  <2>1. CASE w = Net
    BY <1>0, <2>1, NetMoves
  <2>2. CASE w \in Txs
    <3>1. w # Net
      BY <2>2 DEF Net
    <3> QED
      BY <1>0, <2>2, <3>1, ThreadMoves
  <2> QED
    BY <2>1, <2>2 DEF Threads
<1>6. \A v \in Threads : copy'[v] = IF v = w THEN <<>> ELSE copy[v]
  BY <1>0, <1>2
<1>7. Caused'
  <2>1. \A t \in confirmed : Stored(t)'
    BY <1>0 DEF IndInv, Caused, Stored
  <2>2. OnlyFirst(bill)'
    <3>1. OnlyFirst(copy[w])
      BY <1>0 DEF IndInv, Caused, Updating, Earned
    <3> QED
      BY <1>3, <3>1, Zenon DEF IndInv, Caused, OnlyFirst
  <2>3. ASSUME NEW v \in Threads, Updating(v)' PROVE Earned(v)'
    <3>1. v # w
      BY <1>0, <2>3 DEF IndInv, TypeOK, Updating
    <3>2. /\ Updating(v) /\ copy'[v] = copy[v] /\ confirmed' = confirmed
          /\ v = Net => cur' = cur
      BY <1>0, <1>6, <2>3, <3>1 DEF IndInv, TypeOK, Updating
    <3>3. Earned(v)
      BY <3>2 DEF IndInv, Caused
    <3> QED
      BY <3>2, <3>3 DEF Earned, OnlyFirst, Verified, Own
  <2>4. pc'[Net] \in {"read", "trunc", "write"} => cur'[1] \in confirmed'
    <3>1. CASE w = Net
      BY <1>0, <3>1 DEF IndInv, TypeOK, Threads
    <3>2. CASE w # Net
      BY <1>0, <3>2 DEF IndInv, TypeOK, Threads, Caused
    <3> QED
      BY <3>1, <3>2
  <2>5. \A t \in Txs : result'[t] => t \in confirmed'
    BY <1>0, Zenon DEF IndInv, Caused
  <2> QED
    BY <1>0, <2>1, <2>2, <2>3, <2>4, <2>5 DEF Caused
<1>8. Complete'
  <2> SUFFICES ASSUME ~raced
               PROVE  /\ \A v \in Threads : Updating(v)' => Names(copy'[v]) = Owed
                      /\ Names(bill') = Owed
    BY <1>0 DEF Complete, Names, Owed
  <2>1. Names(copy[w]) = Owed
    BY <1>0 DEF IndInv, Complete, Updating
  <2>2. Len(bill) <= Len(copy[w])
    <3>1. CASE Names(bill) = Owed
      <4>1. DOMAIN bill = DOMAIN copy[w]
        BY <2>1, <3>1 DEF Names
      <4> QED
        BY <1>2, <4>1 DEF Files
    <3>2. CASE bill = <<>>
      BY <1>2, <3>2 DEF Files
    <3> QED
      BY <3>1, <3>2 DEF IndInv, Complete
  <2>3. ASSUME NEW v \in Threads, Updating(v)' PROVE Names(copy'[v]) = Owed
    <3>1. v # w
      BY <1>0, <2>3 DEF IndInv, TypeOK, Updating
    <3>2. Updating(v) /\ copy'[v] = copy[v]
      BY <1>0, <1>6, <2>3, <3>1 DEF IndInv, TypeOK, Updating
    <3> QED
      BY <3>2 DEF IndInv, Complete
  <2> QED
    BY <1>3, <2>1, <2>2, <2>3
<1> QED
  BY <1>4, <1>5, <1>7, <1>8 DEF IndInv

\* The file cannot be opened: the copy is given up, and the file is as it was.
LEMMA UpdateFailsInd ==
    ASSUME IndInv, NEW w \in Threads, UpdateFails(w)
    PROVE  IndInv'
<1> USE PaymentsAssumption
<1>0. PICK x \in {"idle", "ended"} :
      /\ w = Net <=> x = "idle"
      /\ pc[w] \in {"read", "trunc"} /\ pc' = [pc EXCEPT ![w] = x]
      /\ w = Net => cur' = <<None, None>>
      /\ w # Net => cur' = cur
      /\ copy' = [copy EXCEPT ![w] = <<>>]
      /\ UNCHANGED <<alive, confirmed, bill, slot, index, serv, time, result, place,
                     paid, raced>>
  <2>1. CASE w = Net
    BY <2>1 DEF UpdateFails, Updated, Return, NoCall, Goto, servVars, histVars
  <2>2. CASE w # Net
    BY <2>2 DEF UpdateFails, Updated, Goto, servVars, histVars
  <2> QED
    BY <2>1, <2>2
<1>2. copy \in [Threads -> Files]
  BY DEF IndInv, TypeOK
<1>3. \A v \in Threads : copy'[v] = IF v = w THEN <<>> ELSE copy[v]
  BY <1>0, <1>2
<1>4. TypeOK'
  <2>1. cur' \in (Txs \cup {None}) \X (Ids \cup {None})
    BY <1>0 DEF IndInv, TypeOK
  <2>2. copy' \in [Threads -> Files]
    BY <1>0, <1>2 DEF Files
  <2>3. faults' \in 0..MaxFaults
    BY DEF IndInv, TypeOK, UpdateFails, Fault
  <2> QED
    BY <1>0, <2>1, <2>2, <2>3 DEF IndInv, TypeOK
<1>5. Progress' /\ Tracked' /\ Filled'
  <2>1. CASE w = Net
    BY <1>0, <2>1, NetMoves
  <2>2. CASE w \in Txs
    <3>1. w # Net
      BY <2>2 DEF Net
    <3> QED
      BY <1>0, <2>2, <3>1, ThreadMoves
  <2> QED
    BY <2>1, <2>2 DEF Threads
<1>6. Caused'
  <2>1. \A t \in confirmed : Stored(t)'
    BY <1>0 DEF IndInv, Caused, Stored
  <2>2. OnlyFirst(bill)'
    BY <1>0 DEF IndInv, Caused, OnlyFirst
  <2>3. ASSUME NEW v \in Threads, Updating(v)' PROVE Earned(v)'
    <3>1. v # w
      BY <1>0, <2>3 DEF IndInv, TypeOK, Updating
    <3>2. /\ Updating(v) /\ copy'[v] = copy[v] /\ confirmed' = confirmed
          /\ v = Net => cur' = cur
      BY <1>0, <1>3, <2>3, <3>1 DEF IndInv, TypeOK, Updating
    <3>3. Earned(v)
      BY <3>2 DEF IndInv, Caused
    <3> QED
      BY <3>2, <3>3 DEF Earned, OnlyFirst, Verified, Own
  <2>4. pc'[Net] \in {"read", "trunc", "write"} => cur'[1] \in confirmed'
    <3>1. CASE w = Net
      BY <1>0, <3>1 DEF IndInv, TypeOK, Threads
    <3>2. CASE w # Net
      BY <1>0, <3>2 DEF IndInv, TypeOK, Threads, Caused
    <3> QED
      BY <3>1, <3>2
  <2>5. \A t \in Txs : result'[t] => t \in confirmed'
    BY <1>0, Zenon DEF IndInv, Caused
  <2> QED
    BY <1>0, <2>1, <2>2, <2>3, <2>4, <2>5 DEF Caused
<1>7. Complete'
  <2>1. /\ pc[w] # "write" /\ ~Updating(w)'
        /\ \A v \in Threads : v # w => pc'[v] = pc[v] /\ copy'[v] = copy[v]
    BY <1>0, <1>3 DEF IndInv, TypeOK, Updating
  <2>2. \A v \in Threads : v # w => Names(copy[v])' = Names(copy[v])
    BY <2>1 DEF Names
  <2>3. Names(bill)' = Names(bill) /\ Owed' = Owed
    BY <1>0 DEF Names, Owed
  <2> QED
    BY <1>0, <2>1, <2>2, <2>3 DEF IndInv, Complete, Updating
<1> QED
  BY <1>4, <1>5, <1>6, <1>7 DEF IndInv

\* The thread asks the node, or has waited long enough.
LEMMA PollInd ==
    ASSUME IndInv, NEW t \in Txs, FirstCheck(t) \/ Poll(t) \/ TimedOut(t)
    PROVE  IndInv'
<1> USE PaymentsAssumption
<1>0. PICK ok \in BOOLEAN, x \in {"find", "loop"}, d \in {0, Interval} :
         /\ pc[t] \in {"first", "loop"} /\ pc' = [pc EXCEPT ![t] = x]
         /\ ok => t \in confirmed
         /\ result' = [result EXCEPT ![t] = ok] \/ result' = result
         /\ d = Interval => time[t] < Timeout
         /\ time' = [time EXCEPT ![t] = @ + d]
         /\ UNCHANGED <<alive, confirmed, bill, slot, cur, index, serv, place, copy,
                        faults, paid, raced>>
  <2>0. time[t] + 0 = time[t] /\ time = [time EXCEPT ![t] = @]
    BY DEF IndInv, TypeOK
  <2>1. CASE FirstCheck(t)
    BY <2>0, <2>1 DEF FirstCheck, CheckConfirmation, Goto, histVars
  <2>2. CASE Poll(t)
    BY <2>0, <2>2 DEF Poll, CheckConfirmation, Goto, histVars
  <2>3. CASE TimedOut(t)
    BY <2>0, <2>3 DEF TimedOut, Goto, servVars, histVars
  <2> QED
    BY <2>1, <2>2, <2>3
<1>1. TypeOK'
  <2>1. result' \in [Txs -> BOOLEAN]
    BY <1>0, Zenon DEF IndInv, TypeOK
  <2>2. time' \in [Txs -> 0..(Timeout + Interval - 1)]
    BY <1>0 DEF IndInv, TypeOK
  <2> QED
    BY <1>0, <2>1, <2>2 DEF IndInv, TypeOK, Threads
<1>2. /\ pc'[Net] = pc[Net] /\ pc'[t] = x
      /\ \A u \in Txs : u # t => pc'[u] = pc[u]
  BY <1>0 DEF IndInv, TypeOK, Threads, Net
<1>3. Progress' /\ Tracked' /\ Filled'
  BY <1>0, <1>2 DEF IndInv, Progress, Tracked, Filled, Stored, Running
<1>4. Caused'
  <2>1. \A u \in confirmed : Stored(u)'
    BY <1>0 DEF IndInv, Caused, Stored
  <2>2. \A u \in Txs : result'[u] => u \in confirmed'
    BY <1>0 DEF IndInv, TypeOK, Caused
  <2>3. /\ OnlyFirst(bill)'
        /\ pc'[Net] \in {"read", "trunc", "write"} => cur'[1] \in confirmed'
    BY <1>0, <1>2 DEF IndInv, Caused, OnlyFirst
  <2>4. ASSUME NEW v \in Threads, Updating(v)' PROVE Earned(v)'
    <3>1. Updating(v)
      BY <1>0, <2>4 DEF IndInv, TypeOK, Updating
    <3>2. Earned(v)
      BY <3>1 DEF IndInv, Caused
    <3> QED
      BY <1>0, <3>2 DEF Earned, OnlyFirst, Verified, Own
  <2> QED
    BY <1>0, <2>1, <2>2, <2>3, <2>4 DEF Caused
<1>5. Complete'
  BY <1>0, CompleteKept DEF IndInv, TypeOK, Threads
<1> QED
  BY <1>1, <1>3, <1>4, <1>5 DEF IndInv

\* The callback looks for its slot: it finds the right one, or it meets an empty
\* slot first and the process dies.
LEMMA FindInd == ASSUME IndInv, NEW t \in Txs, Find(t) PROVE IndInv'
<1> USE PaymentsAssumption
<1> DEFINE stops == {s \in Entries : slot[s].service \in {None, t}}
           first == CHOOSE s \in stops : \A u \in stops : s <= u
<1>0. pc[t] = "find"
  BY DEF Find
<1>1. first \in Entries
  <2>1. Running(t)
    BY <1>0 DEF Running
  <2>2. stops # {}
    BY <2>1 DEF IndInv, Progress, Tracked
  <2> QED
    BY <2>2, LeastSlot
<1>2. CASE slot[first].service = t
  <2>0. PICK f \in Entries :
          /\ slot[f].service = t /\ place' = [place EXCEPT ![t] = f]
          /\ pc' = [pc EXCEPT ![t] = "read"]
          /\ UNCHANGED <<alive, confirmed, bill, slot, cur, index, serv, time,
                         result, copy, faults, paid, raced>>
    BY <1>1, <1>2 DEF Find, Goto, histVars
  <2>1. TypeOK'
    BY <2>0 DEF IndInv, TypeOK, Threads
  <2>2. /\ pc'[Net] = pc[Net] /\ pc'[t] = "read" /\ place'[t] = f
        /\ \A u \in Txs : u # t => pc'[u] = pc[u] /\ place'[u] = place[u]
    BY <2>0 DEF IndInv, TypeOK, Threads, Net
  <2>3. Progress' /\ Filled'
    BY <1>0, <2>0, <2>2 DEF IndInv, Progress, Filled, Stored
  <2>4. Tracked'
    BY <1>0, <2>0, <2>2 DEF IndInv, Tracked, Running
  <2>5. Caused'
    BY <2>0, <2>2, CausedKept DEF IndInv, TypeOK, Threads
  <2>6. Complete'
    BY <1>0, <2>0, CompleteKept DEF IndInv, TypeOK, Threads
  <2> QED
    BY <2>1, <2>3, <2>4, <2>5, <2>6 DEF IndInv
<1>3. CASE slot[first].service # t
  BY <1>3, DiesInd DEF Find
<1> QED
  BY <1>2, <1>3

\* The callback of a slot that has no policy id yet returns.
LEMMA NoIdInd == ASSUME IndInv, NEW t \in Txs, NoId(t) PROVE IndInv'
<1>0. /\ pc[t] = "read" /\ pc' = [pc EXCEPT ![t] = "ended"]
      /\ UNCHANGED <<alive, confirmed, bill, slot, cur, index, serv, time, result,
                     place, copy, faults, paid, raced>>
  BY DEF NoId, Goto, servVars, histVars
<1>1. TypeOK'
  BY <1>0 DEF IndInv, TypeOK, Threads
<1>2. Progress' /\ Tracked' /\ Filled'
  BY <1>0, ThreadMoves
<1>3. Caused'
  BY <1>0, CausedKept, PaymentsAssumption DEF IndInv, TypeOK, Threads, Net
<1>4. Complete'
  BY <1>0, CompleteKept DEF IndInv, TypeOK, Threads
<1> QED
  BY <1>1, <1>2, <1>3, <1>4 DEF IndInv

\* The callback marks its slot as done: the slot it has found is still its own.
LEMMA FlagInd == ASSUME IndInv, NEW t \in Txs, Flag(t) PROVE IndInv'
<1> USE PaymentsAssumption
<1> DEFINE f == place[t]
<1>0. /\ pc[t] = "flag" /\ pc' = [pc EXCEPT ![t] = "ended"]
      /\ slot' = [slot EXCEPT ![f].done = TRUE]
      /\ UNCHANGED <<alive, confirmed, bill, cur, index, serv, time, result, place,
                     copy, faults, paid, raced>>
  BY DEF Flag, Goto, servVars, histVars
<1>1. f \in Entries /\ slot[f].service = t /\ slot[f] \in SlotValues
  BY <1>0 DEF IndInv, TypeOK, Tracked
<1> HIDE DEF f
<1>2. slot' \in [Entries -> SlotValues]
  <2> DEFINE r == [slot[f] EXCEPT !.done = TRUE]
  <2>1. slot' = [slot EXCEPT ![f] = r]
    BY <1>0, <1>1 DEF IndInv, TypeOK
  <2>2. r \in SlotValues
    BY <1>1 DEF SlotValues
  <2> HIDE DEF r
  <2> QED
    BY <2>1, <2>2 DEF IndInv, TypeOK
<1>3. \A s \in Entries :
        /\ slot'[s].service = slot[s].service /\ slot'[s].id = slot[s].id
        /\ s # f => slot'[s] = slot[s]
  BY <1>0, <1>1 DEF IndInv, TypeOK, SlotValues
<1>4. /\ pc'[Net] = pc[Net] /\ pc'[t] = "ended"
      /\ \A u \in Txs : u # t => pc'[u] = pc[u]
  BY <1>0 DEF IndInv, TypeOK, Threads, Net
<1>5. TypeOK'
  BY <1>0, <1>2 DEF IndInv, TypeOK, Threads
<1>6. Progress'
  <2>1. pc[Net] = "assign" => index \in Entries
    BY DEF IndInv, Progress
  <2> QED
    BY <1>0, <1>3, <1>4, <2>1 DEF IndInv, Progress, Stored
<1>7. Tracked'
  <2>1. \A u \in Txs : place[u] \in Entries
    BY DEF IndInv, TypeOK
  <2>2. \A s \in Entries : slot'[s].service = slot[s].service
    BY <1>3
  <2>3. serv' = serv /\ place' = place /\ cur' = cur
    BY <1>0
  <2> QED
    BY <1>0, <1>4, <2>1, <2>2, <2>3 DEF IndInv, Tracked, Running
<1>8. Filled'
  <2>1. t # None
    OBVIOUS
  <2> QED
    BY <1>0, <1>1, <1>3, <1>4, <2>1 DEF IndInv, Filled
<1>9. Caused' /\ Complete'
  <2>1. Caused'
    BY <1>0, <1>4, CausedKept DEF IndInv, TypeOK, Threads
  <2>2. Complete'
    BY <1>0, CompleteKept DEF IndInv, TypeOK, Threads
  <2> QED
    BY <2>1, <2>2
<1> QED
  BY <1>5, <1>6, <1>7, <1>8, <1>9 DEF IndInv

\* The steps of the PIP's second look at the file, and of the marking of a record
\* by the network thread and by a callback.
LEMMA MarkInd ==
    ASSUME IndInv,
           IsVerified \/ StoreMarks \/ \E t \in Txs : CallbackMarks(t)
    PROVE  IndInv'
<1> USE PaymentsAssumption
<1>1. CASE IsVerified /\ ~Dies
  <2>0. /\ pc[Net] = "verified" /\ pc' = [pc EXCEPT ![Net] = "idle"]
        /\ cur' = <<None, None>>
        /\ UNCHANGED <<alive, confirmed, bill, slot, index, serv, time, result,
                       place, copy, faults, paid, raced>>
    BY <1>1 DEF IsVerified, Return, NoCall, Goto, servVars, histVars
  <2>1. TypeOK'
    BY <2>0 DEF IndInv, TypeOK, Threads
  <2>2. pc'[Net] = "idle" /\ \A t \in Txs : pc'[t] = pc[t]
    BY <2>0 DEF IndInv, TypeOK, Threads, Net
  <2>3. Progress' /\ Tracked' /\ Filled'
    BY <2>0, <2>2 DEF IndInv, Progress, Tracked, Filled, Stored, Running
  <2>4. Caused'
    BY <2>0, <2>2, CausedKept DEF IndInv, TypeOK, Threads
  <2>5. Complete'
    BY <2>0, CompleteKept DEF IndInv, TypeOK, Threads
  <2> QED
    BY <2>1, <2>3, <2>4, <2>5 DEF IndInv
<1>2. CASE StoreMarks /\ ~Dies
  <2>1. pc[Net] = "read" /\ bill # <<>> /\ UpdateRead(Net, TRUE)
    BY <1>2 DEF StoreMarks, Sees
  <2>2. Own(Net) \in confirmed /\ Net \in Threads
    BY <2>1 DEF IndInv, Caused, Threads, Own
  <2> QED
    BY <2>1, <2>2, UpdateReadInd
<1>3. ASSUME NEW t \in Txs, CallbackMarks(t), ~Dies PROVE IndInv'
  <2>1. pc[t] = "read" /\ bill # <<>> /\ UpdateRead(t, result[t])
    BY <1>3 DEF CallbackMarks
  <2>2. result[t] \in BOOLEAN /\ (result[t] => t \in confirmed) /\ t \in Threads
    BY Zenon DEF IndInv, TypeOK, Caused, Threads
  <2>3. Own(t) = t
    BY DEF Own, Net
  <2> QED
    BY <2>1, <2>2, <2>3, UpdateReadInd
<1>4. CASE Dies
  BY <1>4, DiesInd
<1> QED
  BY <1>1, <1>2, <1>3, <1>4

\* The initial states satisfy the inductive invariant.
LEMMA InitInd == Init => IndInv
<1> SUFFICES ASSUME Init PROVE IndInv
  OBVIOUS
<1> USE PaymentsAssumption
<1>1. TypeOK
  <2>1. slot \in [Entries -> SlotValues]
    BY DEF Init, SlotValues
  <2>2. alive \in BOOLEAN /\ raced \in BOOLEAN
    BY Zenon DEF Init
  <2>3. /\ bill \in Files /\ copy \in [Threads -> Files]
        /\ paid \in Seq(Txs \X Ids)
    BY DEF Init, Files
  <2>4. /\ time \in [Txs -> 0..(Timeout + Interval - 1)] /\ faults \in 0..MaxFaults
        /\ index \in 1..(Slots + 1) /\ place \in [Txs -> Entries]
    BY DEF Init, Entries
  <2>5. /\ confirmed \subseteq Txs /\ serv \in [Txs -> {"none", "alive", "freed"}]
        /\ cur \in (Txs \cup {None}) \X (Ids \cup {None})
    BY DEF Init, NoCall
  <2>6. result \in [Txs -> BOOLEAN]
    BY DEF Init
  <2>7. pc \in [Threads -> {"idle", "none", "check", "read", "trunc", "write",
                 "clear", "assign", "fill", "verified", "first", "loop", "find",
                 "flag", "ended"}]
    BY DEF Init
  <2> QED
    BY <2>1, <2>2, <2>3, <2>4, <2>5, <2>6, <2>7 DEF TypeOK
<1>2. pc[Net] = "idle" /\ \A t \in Txs : pc[t] = "none"
  BY DEF Init, Threads, Net
<1>3. Progress
  BY <1>2 DEF Progress
<1>4. Tracked /\ Filled
  BY <1>2 DEF Init, Tracked, Filled, Running
<1>5. Caused
  BY <1>2 DEF Init, Caused, OnlyFirst, Updating, Threads
<1>6. Complete
  BY <1>2 DEF Init, Complete, Updating, Threads, Names, Owed
<1> QED
  BY <1>1, <1>3, <1>4, <1>5, <1>6 DEF IndInv

\* A step that changes nothing.
LEMMA StutterInd == ASSUME IndInv, UNCHANGED vars PROVE IndInv'
<1>1. TypeOK'
  BY DEF IndInv, TypeOK, vars
<1>2. Progress' /\ Tracked' /\ Filled'
  BY DEF IndInv, Progress, Tracked, Filled, Stored, Running, vars
<1>3. Caused'
  BY CausedKept DEF vars
<1>4. Complete'
  BY CompleteKept DEF IndInv, vars
<1> QED
  BY <1>1, <1>2, <1>3, <1>4 DEF IndInv

\* Every step keeps the inductive invariant.
LEMMA NextInd == IndInv /\ [Next]_vars => IndInv'
<1> SUFFICES ASSUME IndInv, [Next]_vars PROVE IndInv'
  OBVIOUS
<1>1. ASSUME NEW t \in Txs, NEW p \in Ids, Store(t, p) PROVE IndInv'
  BY <1>1, StoreInd
<1>2. CASE StoreFails \/ \E p \in Ids : IsStored(p)
  BY <1>2, CallInd, Zenon
<1>3. CASE Network
  <2>1. CASE UpdateTruncate(Net) \/ UpdateWrite(Net) \/ UpdateFails(Net)
    <3>1. Net \in Threads
      BY DEF Threads
    <3> QED
      BY <2>1, <3>1, UpdateTruncateInd, UpdateWriteInd, UpdateFailsInd, Zenon
  <2>2. CASE StoreChecks \/ Limit
    BY <2>2, CallInd, Zenon
  <2>3. CASE StoreMarks \/ IsVerified
    BY <2>3, MarkInd, Zenon
  <2>4. CASE Clear \/ Start \/ StartFails \/ Assign \/ Fill
    BY <2>4, ClearInd, ChooseSlotInd, FillSlotInd, Zenon
  <2> QED
    BY <1>3, <2>1, <2>2, <2>3, <2>4, Zenon DEF Network
<1>4. ASSUME NEW t \in Txs, Confirmation(t) PROVE IndInv'
  <2>1. CASE UpdateTruncate(t) \/ UpdateWrite(t) \/ UpdateFails(t)
    <3>1. t \in Threads
      BY DEF Threads
    <3> QED
      BY <2>1, <3>1, UpdateTruncateInd, UpdateWriteInd, UpdateFailsInd, Zenon
  <2>2. CASE FirstCheck(t) \/ Poll(t) \/ TimedOut(t)
    BY <2>2, PollInd, Zenon
  <2>3. CASE Find(t) \/ NoId(t) \/ Flag(t)
    BY <2>3, FindInd, NoIdInd, FlagInd, Zenon
  <2>4. CASE CallbackMarks(t)
    BY <2>4, MarkInd, Zenon
  <2> QED
    BY <1>4, <2>1, <2>2, <2>3, <2>4, Zenon DEF Confirmation
<1>5. ASSUME NEW t \in Txs, Confirm(t) PROVE IndInv'
  BY <1>5, ConfirmInd
<1>6. CASE UNCHANGED vars
  BY <1>6, StutterInd
<1> QED
  BY <1>1, <1>2, <1>3, <1>4, <1>5, <1>6, Zenon DEF Next

\* The inductive invariant holds in every reachable state.
LEMMA Inductive == Spec => []IndInv
BY InitInd, NextInd, PTL DEF Spec

\* The variables of the plugins, of the bill and of the threads keep their types:
\* the time waited for never exceeds the time-out by a whole interval (wallet.c).
THEOREM TypeCorrect == Spec => []TypeOK
<1>1. IndInv => TypeOK
  BY DEF IndInv
<1> QED
  BY <1>1, Inductive, PTL

\* However many slots there are, a running confirmation thread has its service and
\* exactly one slot (pep_plugin_wallet.c, transaction_store_transaction): the
\* clearing loop frees and empties a slot only after it has joined the thread.
THEOREM PaymentsTracked == Spec => []ThreadsTracked
<1>1. ASSUME IndInv PROVE ThreadsTracked
  <2> SUFFICES ASSUME NEW t \in Txs, Running(t)
               PROVE  /\ serv[t] = "alive"
                      /\ \/ \E s \in Entries :
                                {u \in Entries : slot[u].service = t} = {s}
                         \/ pc[Net] = "assign" /\ cur[1] = t
    BY DEF ThreadsTracked
  <2>1. /\ serv[t] = "alive"
        /\ \/ \E s \in Entries : slot[s].service = t
           \/ pc[Net] = "assign" /\ cur[1] = t
    BY <1>1 DEF IndInv, Tracked
  <2>2. ASSUME NEW s \in Entries, slot[s].service = t
        PROVE  {u \in Entries : slot[u].service = t} = {s}
    BY <1>1, <2>2, PaymentsAssumption DEF IndInv, Tracked
  <2> QED
    BY <2>1, <2>2
<1> QED
  BY <1>1, Inductive, PTL

\* The clearing loop of pep_plugin_wallet.c never joins or frees what is not
\* there, although a callback may come before its slot is filled.
THEOREM PaymentsClearedOnce == Spec => []ClearedOnce
<1>1. IndInv => ClearedOnce
  BY DEF IndInv, Filled, ClearedOnce
<1> QED
  BY <1>1, Inductive, PTL

\* A step other than the write of an update turns no bill to verified.
LEMMA TurnsByWrite ==
    ASSUME IndInv, [Next]_vars, ~Verified(bill), Verified(bill')
    PROVE  \E w \in Threads : UpdateWrite(w)
<1>1. ASSUME NEW t \in Txs, NEW p \in Ids, Store(t, p) PROVE FALSE
  <2> DEFINE r == [id |-> p, validated |-> FALSE]
  <2>1. r \in Records /\ ~r.validated /\ bill \in Files /\ bill' = Append(bill, r)
    BY <1>1 DEF Records, Store, IndInv, TypeOK
  <2> HIDE DEF r
  <2>2. PICK i \in DOMAIN bill' : bill'[i].validated
    BY Zenon DEF Verified
  <2>3. CASE i = Len(bill) + 1
    BY <2>1, <2>2, <2>3, AppendProperties DEF Files
  <2>4. CASE i # Len(bill) + 1
    <3>1. i \in DOMAIN bill /\ bill'[i] = bill[i]
      BY <2>1, <2>4, AppendProperties DEF Files
    <3> QED
      BY <2>2, <3>1, Zenon DEF Verified
  <2> QED
    BY <2>3, <2>4
<1>2. ASSUME NEW w \in Threads, UpdateTruncate(w) PROVE FALSE
  BY <1>2 DEF UpdateTruncate, Verified
<1>3. bill' # bill
  OBVIOUS
<1>4. CASE \E t \in Txs : Confirmation(t)
  <2>1. PICK t \in Txs : Confirmation(t)
    BY <1>4
  <2>2. t \in Threads
    BY DEF Threads
  <2>3. UpdateTruncate(t) \/ UpdateWrite(t)
    BY <1>3, <2>1 DEF Confirmation, FirstCheck, TimedOut, Poll, Find, NoId,
         CallbackMarks, UpdateRead, Flag, UpdateFails, Dies
  <2> QED
    BY <1>2, <2>2, <2>3
<1>5. CASE Network
  <2>1. UpdateTruncate(Net) \/ UpdateWrite(Net)
    BY <1>3, <1>5 DEF Network, StoreChecks, StoreMarks, UpdateRead, Clear, Limit,
         Start, Assign, Fill, StartFails, IsVerified, UpdateFails, Dies
  <2> QED
    BY <1>2, <2>1 DEF Threads
<1>6. CASE StoreFails \/ (\E p \in Ids : IsStored(p)) \/ \E t \in Txs : Confirm(t)
  BY <1>3, <1>6 DEF StoreFails, IsStored, Confirm
<1>7. CASE UNCHANGED vars
  BY <1>3, <1>7 DEF vars
<1> QED
  BY <1>1, <1>4, <1>5, <1>6, <1>7, Zenon DEF Next

\* Whatever times out, however updates interleave and whatever memory the policy
\* id of a slot holds, the bill (posix.c) turns to verified only by an update made
\* for a transaction that the Tangle has confirmed.
THEOREM PaymentsCaused == Spec => VerifiedHasCause
<1>1. ASSUME IndInv, [Next]_vars, ~Verified(bill), Verified(bill')
      PROVE  \E w \in Threads :
                 pc[w] = "write" /\ pc'[w] # "write" /\ Own(w) \in confirmed
  <2>1. PICK w \in Threads : UpdateWrite(w)
    BY <1>1, TurnsByWrite, Zenon
  <2>2. /\ pc[w] = "write" /\ Earned(w)
        /\ bill' = copy[w] \o SubSeq(bill, Len(copy[w]) + 1, Len(bill))
    BY <1>1, <2>1 DEF UpdateWrite, IndInv, Caused, Updating
  <2>3. pc'[w] # "write"
    BY <1>1, <2>1 DEF UpdateWrite, Updated, Return, Goto, IndInv, TypeOK
  <2>4. Verified(copy[w])
    <3> DEFINE r == copy[w] \o SubSeq(bill, Len(copy[w]) + 1, Len(bill))
    <3>1. \A i \in DOMAIN r : \/ i \in DOMAIN copy[w] /\ r[i] = copy[w][i]
                              \/ i \in DOMAIN bill /\ r[i] = bill[i]
      <4>1. copy[w] \in Seq(Records) /\ bill \in Seq(Records)
        BY <1>1 DEF IndInv, TypeOK, Files
      <4> QED
        BY <4>1, Overwritten
    <3>2. bill' = r
      BY <2>2
    <3> HIDE DEF r
    <3> QED
      BY <1>1, <3>1, <3>2, Zenon DEF Verified
  <2> QED
    BY <2>2, <2>3, <2>4, Zenon DEF Earned
<1>2. IndInv /\ [Next]_vars =>
        [~Verified(bill) /\ Verified(bill') =>
           \E w \in Threads :
               pc[w] = "write" /\ pc'[w] # "write" /\ Own(w) \in confirmed]_vars
  BY <1>1, Zenon
<1> QED
  BY <1>2, Inductive, PTL DEF Spec, VerifiedHasCause

\* As long as no record is appended during an update, no sequence of concurrent
\* updates of the bill loses or reorders a record (posix.c,
\* posix_transaction_update_payment_status).
THEOREM PaymentsRecordsKept == Spec => []RecordsKept
<1>1. IndInv => RecordsKept
  BY DEF IndInv, Complete, RecordsKept, Names, Owed
<1> QED
  BY <1>1, Inductive, PTL
=============================================================================
