------------------------- MODULE PolicyStoreProofs -------------------------
(***************************************************************************)
(* What PolicyStore promises, proved for every set of policies and         *)
(* contents and every number of crashes and failing calls.                 *)
(***************************************************************************)
EXTENDS PolicyStore, SequenceTheorems, TLAPS

\* RemoveAt(s, k) is s without its k-th element, position by position.
LEMMA RemoveAtProperties ==
    ASSUME NEW S, NEW s \in Seq(S), NEW k \in 1..Len(s)
    PROVE  /\ RemoveAt(s, k) \in Seq(S)
           /\ Len(RemoveAt(s, k)) = Len(s) - 1
           /\ \A i \in 1..(Len(s) - 1) :
                 RemoveAt(s, k)[i] = IF i < k THEN s[i] ELSE s[i + 1]
<1> DEFINE l == SubSeq(s, 1, k - 1)
           r == SubSeq(s, k + 1, Len(s))
<1>1. /\ l \in Seq(S)
      /\ Len(l) = k - 1
      /\ \A i \in 1..(k - 1) : l[i] = s[i]
    <2>1. \A i \in 1..(k - 1) : s[i] \in S
        OBVIOUS
    <2> QED BY <2>1, SubSeqProperties
<1>2. /\ r \in Seq(S)
      /\ Len(r) = Len(s) - k
      /\ \A i \in 1..(Len(s) - k) : r[i] = s[k + i]
    <2>1. \A i \in (k + 1)..Len(s) : s[i] \in S
        OBVIOUS
    <2> QED BY <2>1, SubSeqProperties
<1>3. RemoveAt(s, k) = l \o r
    BY DEF RemoveAt
<1> HIDE DEF l, r
<1>4. /\ l \o r \in Seq(S)
      /\ Len(l \o r) = Len(s) - 1
      /\ \A i \in 1..(Len(s) - 1) :
            (l \o r)[i] = IF i <= k - 1 THEN l[i] ELSE r[i - (k - 1)]
    BY <1>1, <1>2, ConcatProperties
<1>5. ASSUME NEW i \in 1..(Len(s) - 1)
      PROVE  (l \o r)[i] = IF i < k THEN s[i] ELSE s[i + 1]
    <2>1. CASE i < k
        BY <1>1, <1>4, <2>1
    <2>2. CASE ~(i < k)
        <3>1. i - (k - 1) \in 1..(Len(s) - k) /\ k + (i - (k - 1)) = i + 1
            BY <2>2
        <3>2. r[i - (k - 1)] = s[k + (i - (k - 1))]
            BY <1>2, <3>1
        <3> QED BY <1>4, <2>2, <3>1, <3>2
    <2> QED BY <2>1, <2>2
<1> QED BY <1>3, <1>4, <1>5

\* Removing one element from a sequence leaves every other one in it: flush
\* unlists no policy but its own.
LEMMA RemoveAtKeeps ==
    ASSUME NEW S, NEW s \in Seq(S), NEW k \in 1..Len(s),
           NEW d, d # s[k], Contains(s, d)
    PROVE  Contains(RemoveAt(s, k), d)
<1>1. PICK i \in 1..Len(s) : s[i] = d
    BY DEF Contains
<1> DEFINE t == RemoveAt(s, k)
<1>2. /\ Len(t) = Len(s) - 1
      /\ \A j \in 1..(Len(s) - 1) : t[j] = IF j < k THEN s[j] ELSE s[j + 1]
    BY RemoveAtProperties
<1> HIDE DEF t
<1>3. CASE i < k
    <2>1. i \in 1..Len(t) /\ t[i] = d
        BY <1>1, <1>2, <1>3
    <2> QED BY <2>1 DEF Contains, t
<1>4. CASE i > k
    <2>1. i - 1 \in 1..Len(t) /\ t[i - 1] = d
        BY <1>1, <1>2, <1>4
    <2> QED BY <2>1 DEF Contains, t
<1> QED BY <1>1, <1>3, <1>4

\* Appending to a sequence keeps what is in it and adds the new element.
LEMMA AppendContains ==
    ASSUME NEW S, NEW s \in Seq(S), NEW e \in S
    PROVE  /\ Append(s, e) \in Seq(S)
           /\ Contains(Append(s, e), e)
           /\ \A d : Contains(s, d) => Contains(Append(s, e), d)
BY DEF Contains

-----------------------------------------------------------------------------

\* The invariant of the store holds at the start.
LEMMA InitInv == Init => IndInv
<1> SUFFICES ASSUME Init PROVE IndInv
    OBVIOUS
<1> USE DEF Init
<1>1. TypeOK
    <2>1. faults \in 0..MaxFaults
        BY ContentsDistinct
    <2>2. index \in Seq(Ids) /\ snapshot \in Seq(Ids)
        OBVIOUS
    <2>3. file \in [Ids -> Contents] /\ committed \in [Ids -> Objs \cup {Absent}]
        BY DEF Contents
    <2> QED BY <2>1, <2>2, <2>3 DEF TypeOK
<1>2. Durable /\ Listed /\ InFlight
    BY DEF Durable, Listed, InFlight, DelPcs
<1> QED BY <1>1, <1>2 DEF IndInv

\* The steps of the reading thread change nothing the invariant speaks of.
LEMMA ReadInv ==
    ASSUME IndInv, NEW id \in Ids, Has(id) \/ Get(id) \/ GetAll
    PROVE  IndInv'
BY DEF Has, Get, GetAll, IndInv, TypeOK, Durable, Listed, InFlight, BusyWith,
       disk, ghost

\* An operation that stops where it stands leaves the invariant intact.
LEMMA AbandonInv ==
    ASSUME IndInv, Abandon, wpc # "idle", UNCHANGED <<file, index>>,
           indexExists' \in BOOLEAN, indexExists => indexExists', wret' \in BOOLEAN,
           faults' \in 0..MaxFaults
    PROVE  IndInv'
<1> USE DEF IndInv, Abandon, Lost
<1>1. TypeOK'
    BY DEF TypeOK
<1>2. Durable'
    BY DEF Durable, BusyWith, TypeOK
<1>3. Listed'
    BY DEF Listed, TypeOK
<1>4. InFlight'
    BY DEF InFlight, DelPcs
<1> QED BY <1>1, <1>2, <1>3, <1>4

\* So does the death of the process.
LEMMA DieInv ==
    ASSUME IndInv, Die, UNCHANGED <<file, index, wret>>,
           indexExists' \in BOOLEAN, indexExists => indexExists',
           faults' \in 0..MaxFaults
    PROVE  IndInv'
<1>1. CASE wpc # "idle" /\ Abandon
    BY <1>1, AbandonInv DEF IndInv, TypeOK
<1>2. CASE wpc = "idle" /\ UNCHANGED <<wpc, wid, wobj, snapshot, ghost>>
    BY <1>2 DEF IndInv, TypeOK, Durable, Listed, InFlight, BusyWith, ghost
<1> QED BY <1>1, <1>2 DEF Die

\* Every step of the store preserves the invariant.
LEMMA NextInv == IndInv /\ [Next]_vars => IndInv'
<1> SUFFICES ASSUME IndInv, [Next]_vars
             PROVE  IndInv'
    OBVIOUS
<1>0. Contents = Objs \cup {Absent, Torn}
    BY DEF Contents
<1>1. CASE PutRefused
    BY <1>1 DEF PutRefused, IndInv, TypeOK, Durable, Listed, InFlight, BusyWith,
                disk, ghost
<1>2. ASSUME NEW id \in Ids, NEW obj \in Objs, PutOpen(id, obj)
      PROVE  IndInv'
    <2> USE <1>2 DEF PutOpen, IndInv, ghost
    <2>1. TypeOK'
        BY <1>0 DEF TypeOK, PutPcs
    <2>2. Durable'
        BY DEF Durable, BusyWith, TypeOK
    <2>3. Listed'
        BY DEF Listed
    <2>4. InFlight'
        BY DEF InFlight, DelPcs
    <2> QED BY <2>1, <2>2, <2>3, <2>4
<1>3. CASE PutWrite
    <2> USE <1>3 DEF PutWrite, IndInv, ghost
    <2>1. TypeOK'
        BY <1>0 DEF TypeOK, PutPcs
    <2>2. Durable'
        BY DEF Durable, BusyWith, TypeOK
    <2>3. Listed'
        BY DEF Listed
    <2>4. InFlight'
        BY DEF InFlight, DelPcs, TypeOK
    <2> QED BY <2>1, <2>2, <2>3, <2>4
<1>4. CASE PutAppend
    <2> USE <1>4 DEF PutAppend, IndInv
    <2>1. index \in Seq(Ids) /\ wid \in Ids
        BY DEF TypeOK
    <2>2. TypeOK'
        BY <2>1, AppendContains DEF TypeOK
    <2>3. Durable'
        BY DEF Durable, BusyWith, TypeOK, InFlight
    <2>4. Listed'
        BY <2>1, AppendContains DEF Listed, TypeOK
    <2>5. InFlight'
        BY DEF InFlight, DelPcs
    <2> QED BY <2>2, <2>3, <2>4, <2>5
<1>5. ASSUME NEW id \in Ids, DelMissing(id)
      PROVE  IndInv'
    BY <1>5 DEF DelMissing, IndInv, TypeOK, Durable, Listed, InFlight, BusyWith,
                disk, ghost
<1>6. ASSUME NEW id \in Ids, DelRemove(id)
      PROVE  IndInv'
    <2> USE <1>6 DEF DelRemove, IndInv, ghost
    <2>1. TypeOK'
        BY <1>0 DEF TypeOK, DelPcs
    <2>2. Durable'
        BY DEF Durable, BusyWith, TypeOK
    <2>3. Listed'
        BY DEF Listed
    <2>4. id \notin fileCut => committed[id] # Absent
        BY DEF Durable, BusyWith
    <2>5. InFlight'
        BY <2>4 DEF InFlight, DelPcs, TypeOK
    <2> QED BY <2>1, <2>2, <2>3, <2>5
<1>7. CASE DelNoIndex
    BY <1>7, AbandonInv DEF DelNoIndex, disk, IndInv, TypeOK
<1>8. CASE DelRead
    <2> USE <1>8 DEF DelRead, IndInv, disk, ghost
    <2>1. TypeOK'
        BY DEF TypeOK, DelPcs
    <2>2. Durable'
        BY DEF Durable, BusyWith
    <2>3. Listed'
        BY DEF Listed
    <2>4. InFlight'
        BY DEF InFlight, DelPcs
    <2> QED BY <2>1, <2>2, <2>3, <2>4
<1>9. CASE DelUnlisted
    BY <1>9, DieInv DEF DelUnlisted, disk, IndInv, TypeOK
<1>10. CASE DelTrunc
    <2> USE <1>10 DEF DelTrunc, IndInv, ghost
    <2>1. TypeOK'
        BY DEF TypeOK, DelPcs
    <2>2. Durable'
        BY DEF Durable, BusyWith
    <2>3. Listed'
        BY DEF Listed
    <2>4. InFlight'
        BY DEF InFlight, DelPcs, Listed
    <2> QED BY <2>1, <2>2, <2>3, <2>4
<1>11. CASE DelWrite
    <2> USE <1>11 DEF DelWrite, IndInv
    <2>1. PICK i \in FirstAt(snapshot, wid) : index' = RemoveAt(snapshot, i)
        OBVIOUS
    <2>2. i \in 1..Len(snapshot) /\ snapshot[i] = wid
        BY DEF FirstAt
    <2>3. snapshot \in Seq(Ids) /\ wid \in Ids
        BY DEF TypeOK
    <2>4. TypeOK'
        <3>1. index' \in Seq(Ids)
            BY <2>1, <2>2, <2>3, RemoveAtProperties
        <3> QED BY <3>1 DEF TypeOK
    <2>5. Durable'
        BY DEF Durable, BusyWith, TypeOK, InFlight, DelPcs
    <2>6. Listed'
        <3>1. ASSUME NEW j \in Ids \ listCut', committed'[j] # Absent
              PROVE  Contains(index', j)
            <4>1. j # wid /\ committed[j] # Absent /\ j \notin listCut
                BY <3>1 DEF TypeOK
            <4>2. Contains(snapshot, j)
                BY <4>1 DEF InFlight
            <4> QED BY <2>1, <2>2, <2>3, <4>1, <4>2, RemoveAtKeeps
        <3> QED BY <3>1 DEF Listed
    <2>7. InFlight'
        BY DEF InFlight, DelPcs
    <2> QED BY <2>4, <2>5, <2>6, <2>7
<1>12. ASSUME NEW id \in Ids, Has(id) \/ Get(id) \/ GetAll
       PROVE  IndInv'
    BY <1>12, ReadInv
<1>13. ASSUME NEW id \in Ids, GetTorn(id)
       PROVE  IndInv'
    BY <1>13, DieInv DEF GetTorn, disk, IndInv, TypeOK
<1>14. CASE OpenFails
    <2>1. faults' \in 0..MaxFaults
        BY <1>14, ContentsDistinct DEF OpenFails, IndInv, TypeOK
    <2> QED BY <1>14, <2>1, AbandonInv DEF OpenFails, disk, IndInv, TypeOK
<1>15. CASE Crash
    <2>1. faults' \in 0..MaxFaults
        BY <1>15, ContentsDistinct DEF Crash, IndInv, TypeOK
    <2>2. indexExists' \in BOOLEAN /\ (indexExists => indexExists')
        BY <1>15 DEF Crash, IndInv, TypeOK
    <2> QED BY <1>15, <2>1, <2>2, DieInv DEF Crash
<1>16. CASE GetAll
    <2>1. wid \in Ids
        BY DEF IndInv, TypeOK
    <2> QED BY <1>16, <2>1, ReadInv
<1>17. CASE UNCHANGED vars
    BY <1>17 DEF vars, IndInv, TypeOK, Durable, Listed, InFlight, BusyWith
<1> QED
    BY <1>1, <1>2, <1>3, <1>4, <1>5, <1>6, <1>7, <1>8, <1>9, <1>10, <1>11,
       <1>12, <1>13, <1>14, <1>15, <1>16, <1>17 DEF Next, Writer, Reader

\* And so it holds always.
LEMMA Invariance == Spec => []IndInv
BY InitInv, NextInv, PTL DEF Spec

\* Type correctness of the store (pap_plugin_posix.c), for all constants.
THEOREM TypeCorrect == Spec => []TypeOK
<1>1. IndInv => TypeOK
    BY DEF IndInv
<1> QED BY <1>1, Invariance, PTL

\* posix_store_policy and posix_flush_policy, crashed or failed at any point,
\* damage no policy but the one they were called for.
THEOREM StoreDurable == Spec => []Durable
<1>1. IndInv => Durable
    BY DEF IndInv
<1> QED BY <1>1, Invariance, PTL

\* Every stored policy is in the index file, except for what a cut operation
\* is known to have cost.
THEOREM StoreListed == Spec => []Listed
<1>1. IndInv => Listed
    BY DEF IndInv
<1> QED BY <1>1, Invariance, PTL

\* posix_flush_policy never searches the index in vain unless an earlier
\* operation was cut short.
THEOREM FlushFinds == Spec => []FlushFindsId
<1>1. IndInv => FlushFindsId
    BY DEF IndInv, TypeOK, InFlight, Listed, FlushFindsId, DelPcs
<1> QED BY <1>1, Invariance, PTL

\* has_cb, get_cb and get_all_cb tell the truth about every policy that is not
\* being changed and was not damaged by a cut operation.
THEOREM ReadersTold == Spec => ReaderTold
<1> DEFINE Told(id) ==
        /\ Has(id) /\ ~BusyWith(id) /\ id \notin fileCut
              => rres'.value = (committed[id] # Absent)
        /\ Get(id) /\ ~BusyWith(id) /\ id \notin fileCut
              => rres'.value = committed[id]
        /\ GetAll /\ wpc # "delWrite" /\ id \notin listCut /\ committed[id] # Absent
              => Contains(rres'.value, id)
<1>1. ASSUME IndInv, NEW id \in Ids
      PROVE  Told(id)
    <2>1. ASSUME Has(id), ~BusyWith(id), id \notin fileCut
          PROVE  rres'.value = (committed[id] # Absent)
        BY <1>1, <2>1 DEF Has, IndInv, Durable
    <2>2. ASSUME Get(id), ~BusyWith(id), id \notin fileCut
          PROVE  rres'.value = committed[id]
        BY <1>1, <2>2 DEF Get, IndInv, Durable
    <2>3. ASSUME GetAll, wpc # "delWrite", id \notin listCut, committed[id] # Absent
          PROVE  Contains(rres'.value, id)
        <3>1. Contains(index, id)
            BY <1>1, <2>3 DEF IndInv, Listed
        <3>2. indexExists
            BY <1>1, <3>1 DEF IndInv, InFlight, Contains
        <3> QED BY <2>3, <3>1, <3>2 DEF GetAll
    <2> QED BY <2>1, <2>2, <2>3
<1>2. IndInv => [\A id \in Ids : Told(id)]_rres
    BY <1>1
<1> QED BY <1>2, Invariance, PTL DEF ReaderTold

=============================================================================
