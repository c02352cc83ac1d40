------------------------- MODULE PolicyLoaderProofs -------------------------
(***************************************************************************)
(* What PolicyLoader promises, proved for every set of policies, every     *)
(* choice of lists and any number of failures, restarts and publications.  *)
(***************************************************************************)
EXTENDS PolicyLoader, TLAPS

\* One round of receive_policies takes the id whose turn it is off the ids
\* that are still to be asked for, and no other.
LEMMA OneRound ==
    ASSUME pending \in Nat, pending > 0, pending' = pending - 1,
           reply \in Replies, reply' = reply
    PROVE  PendingIds \subseteq PendingIds' \cup Due
<1> SUFFICES ASSUME NEW i \in 1..pending \cap DOMAIN reply.ids
             PROVE  reply.ids[i] \in PendingIds' \cup Due
    BY DEF PendingIds
<1>1. CASE i = pending
    BY <1>1 DEF Due
<1>2. CASE i # pending
    <2>1. i \in 1..pending'
        BY <1>2
    <2> QED BY <2>1 DEF PendingIds
<1> QED BY <1>1, <1>2

\* What is asked for and what is still to be asked for are policy ids.
LEMMA PendingAreIds ==
    ASSUME reply \in Replies
    PROVE  PendingIds \subseteq Ids /\ Due \subseteq Ids /\ Requested \subseteq Ids
BY DEF Replies, PendingIds, Due, Requested, ListIds

\* They are ids of the list.
LEMMA RequestedListed ==
    ASSUME IndInv
    PROVE  Requested \subseteq listed
BY DEF Requested, Due, ListIds, IndInv, OnlyListed

\* The invariant of the loader holds at the start.
LEMMA InitInv == Init => IndInv
<1> SUFFICES ASSUME Init PROVE IndInv
    OBVIOUS
<1> USE DEF Init
<1>1. TypeOK
    <2>1. reply \in Replies
        BY DEF NoList, Replies
    <2>2. /\ faults \in 0..MaxFaults /\ restarts \in 0..MaxRestarts
          /\ requests \in 0..MaxRequests
        BY LoaderAssumption
    <2>3. tries \in 0..(MAX_GET_TRY - 1)
        BY DEF MAX_GET_TRY
    <2>4. listed \subseteq Ids
        BY LoaderAssumption DEF ToSet
    <2> QED BY <2>1, <2>2, <2>3, <2>4 DEF TypeOK
<1>2. CaughtUp /\ PendingInList /\ VersionKnown /\ LoopComplete
    BY DEF CaughtUp, PendingInList, VersionKnown, LoopComplete, NoList
<1>3. OnlyListed /\ SpoiledKnown
    BY DEF OnlyListed, ListIds, NoList, SpoiledKnown
<1> QED BY <1>1, <1>2, <1>3 DEF IndInv

\* What the round of the loop that is due leaves behind: the id whose turn it
\* was is stored, or is among the failed, or nothing is owed for it.
Settled ==
    keyValid => (goal \cap Due) \ BadIds \subseteq stored' \cup failed' \cup spoiled

\* A round that settles the id that is due keeps what is said of all of them.
LEMMA RoundSettles ==
    ASSUME IndInv, pending > 0, pending' = pending - 1, Settled,
           stored \subseteq stored', failed \subseteq failed',
           UNCHANGED <<reply, keyValid, goal, spoiled, fsm, tokens>>
    PROVE  CaughtUp' /\ SpoiledKnown'
<1>0. reply \in Replies /\ pending \in Nat
    BY DEF IndInv, TypeOK
<1>1. PendingIds \subseteq PendingIds' \cup Due
    BY OneRound, <1>0
<1>2. PendingIds' \subseteq PendingIds
    BY <1>0 DEF PendingIds
<1>3. CaughtUp'
    <2> SUFFICES ASSUME keyValid, NEW id \in goal \ BadIds
                 PROVE  id \in stored' \cup failed' \cup spoiled \cup PendingIds'
        BY DEF CaughtUp
    <2>1. id \in stored \cup failed \cup spoiled \cup PendingIds
        BY DEF IndInv, CaughtUp
    <2>2. CASE id \in PendingIds
        BY <1>1, <2>2 DEF Settled
    <2> QED BY <2>1, <2>2
<1>4. SpoiledKnown'
    BY <1>2 DEF IndInv, SpoiledKnown
<1> QED BY <1>3, <1>4

\* A round that adds nothing (SkipPolicy) keeps the invariant.
LEMMA SkipInv ==
    ASSUME IndInv, InLoop, SkipPolicy(NoPolicy), Settled,
           UNCHANGED <<tpsVars, version, reply, newList, tries, tokens, keyValid,
                       end, restarts, requests, goal, spoiled>>,
           failed \subseteq failed', failed' \subseteq Ids,
           faults' \in 0..MaxFaults
    PROVE  IndInv'
<1> USE DEF IndInv, InLoop, SkipPolicy, tpsVars
<1>0. reply \in Replies /\ pending \in Nat
    BY DEF TypeOK
<1>1. TypeOK'
    BY <1>0 DEF TypeOK
<1>2. CaughtUp' /\ SpoiledKnown'
    BY RoundSettles
<1>3. PendingInList' /\ VersionKnown' /\ LoopComplete'
    BY <1>0 DEF PendingInList, VersionKnown, LoopComplete, Replies
<1>4. OnlyListed'
    BY DEF OnlyListed, ListIds
<1> QED BY <1>1, <1>2, <1>3, <1>4

\* So does a round that gives a policy to the PAP, or finds no key to do it.
LEMMA AddInv ==
    ASSUME IndInv, InLoop, NEW id \in Ids, AddPolicy(id), Settled,
           id \in listed,
           UNCHANGED <<tpsVars, version, reply, newList, tries, tokens, keyValid,
                       end, restarts, requests, goal, spoiled>>,
           failed \subseteq failed', failed' \subseteq Ids,
           faults' \in 0..MaxFaults
    PROVE  IndInv'
<1> USE DEF IndInv, InLoop, AddPolicy, tpsVars
<1>0. reply \in Replies /\ pending \in Nat
    BY DEF TypeOK
<1>1. TypeOK'
    BY <1>0 DEF TypeOK
<1>2. CaughtUp' /\ SpoiledKnown'
    <2>1. CASE keyValid
        BY RoundSettles, <2>1
    <2>2. CASE ~keyValid
        BY <2>2 DEF CaughtUp, SpoiledKnown
    <2> QED BY <2>1, <2>2
<1>3. PendingInList' /\ VersionKnown' /\ LoopComplete'
    BY <1>0 DEF PendingInList, VersionKnown, LoopComplete, Replies
<1>4. OnlyListed'
    BY DEF OnlyListed, ListIds
<1> QED BY <1>1, <1>2, <1>3, <1>4

\* When the tokens are a request's, nothing of the list that is due is owed
\* that is not on record as spoiled; nor when there is no id that is due.
LEMMA NonsenseOwesNothing ==
    ASSUME IndInv, InLoop, Nonsense, keyValid
    PROVE  goal \cap Due \subseteq spoiled
<1>1. reply \in Replies /\ pending \in Nat
    BY DEF IndInv, TypeOK
<1>2. Due \subseteq PendingIds
    BY <1>1 DEF Due, PendingIds, InLoop
<1>3. CASE Due = {}
    BY <1>3
<1>4. CASE tokens # "list"
    BY <1>2, <1>4 DEF IndInv, SpoiledKnown, InLoop
<1> QED BY <1>3, <1>4 DEF Nonsense

\* A reply of the TPS at its current version, or none that can be used, is
\* taken into g_policy_list.
LEMMA TakeInv ==
    ASSUME IndInv, fsm = "GET_PL", fsm' = "GET_PL_DONE",
           NEW r \in Replies, r.ver <= tps, TakeReply(r),
           ToSet(r.ids) \subseteq listed, r.kind = "list" => version <= r.ver,
           UNCHANGED <<tpsVars, version, tries, pending, policy, buf, tokens,
                       keyValid, end, stored, restarts, requests, lost>>,
           faults' \in 0..MaxFaults
    PROVE  IndInv'
<1> USE DEF IndInv, TakeReply, tpsVars, lost
<1>0. reply \in Replies
    BY DEF TypeOK
<1>1. TypeOK'
    BY <1>0 DEF TypeOK
<1>2. keyValid => PendingIds = {}
    BY DEF LoopComplete, PendingIds
<1>3. CaughtUp' /\ SpoiledKnown'
    BY <1>2 DEF CaughtUp, SpoiledKnown
<1>4. PendingInList' /\ VersionKnown' /\ LoopComplete'
    BY DEF PendingInList, VersionKnown, LoopComplete, TypeOK
<1>5. OnlyListed'
    BY DEF OnlyListed, ListIds, ToSet
<1> QED BY <1>1, <1>3, <1>4, <1>5

\* A process that starts again satisfies the invariant.
LEMMA RestartedInv ==
    ASSUME IndInv, Restarted, faults' \in 0..MaxFaults, restarts' \in 0..MaxRestarts
    PROVE  IndInv'
<1> USE DEF IndInv, Restarted, Owes, tpsVars
<1>1. TypeOK'
    <2>1. reply' \in Replies
        BY DEF NoList, Replies
    <2>2. tries' \in 0..(MAX_GET_TRY - 1)
        BY DEF MAX_GET_TRY
    <2> QED BY <2>1, <2>2 DEF TypeOK
<1>2. CaughtUp' /\ PendingInList' /\ VersionKnown' /\ LoopComplete'
    BY DEF CaughtUp, PendingInList, VersionKnown, LoopComplete, NoList, TypeOK
<1>3. OnlyListed' /\ SpoiledKnown'
    BY DEF OnlyListed, ListIds, NoList, SpoiledKnown
<1> QED BY <1>1, <1>2, <1>3

\* Every step preserves the invariant.
LEMMA NextInv == IndInv /\ [Next]_vars => IndInv'
<1> SUFFICES ASSUME IndInv, [Next]_vars
             PROVE  IndInv'
    OBVIOUS
<1>0. /\ reply \in Replies /\ pending \in Nat
      /\ faults \in 0..MaxFaults /\ restarts \in 0..MaxRestarts
      /\ faults < MaxFaults => faults + 1 \in 0..MaxFaults
    BY LoaderAssumption DEF IndInv, TypeOK
<1>1. CASE Publish
    <2>1. tpsList' \in Seq(Ids)
        BY <1>1, LoaderAssumption DEF Publish
    <2>2. ToSet(tpsList') \subseteq Ids
        BY <2>1 DEF ToSet
    <2>3. TypeOK'
        BY <1>1, <2>2 DEF Publish, IndInv, TypeOK, loaderVars, lost
    <2>4. CaughtUp' /\ PendingInList' /\ VersionKnown' /\ LoopComplete'
        BY <1>0, <1>1 DEF Publish, IndInv, TypeOK, CaughtUp, PendingIds, PendingInList,
                    VersionKnown, LoopComplete, Replies, loaderVars, lost
    <2>5. OnlyListed' /\ SpoiledKnown'
        BY <1>1 DEF Publish, IndInv, OnlyListed, ListIds, loaderVars, SpoiledKnown,
                    PendingIds, lost
    <2> QED BY <2>3, <2>4, <2>5 DEF IndInv
<1>2. CASE FsmInit
    BY <1>2 DEF FsmInit, IndInv, TypeOK, CaughtUp, PendingIds, PendingInList,
                VersionKnown, LoopComplete, OnlyListed, SpoiledKnown, ListIds,
                tpsVars, lost
<1>3. CASE GetPolicyList
    <2> DEFINE r == IF version = tps THEN Ok
                    ELSE [kind |-> "list", ids |-> tpsList, ver |-> tps]
    <2>1. r \in Replies /\ r.ver <= tps
        <3>1. tps \in Nat /\ tpsList \in Seq(Ids)
            BY LoaderAssumption DEF IndInv, TypeOK
        <3> QED BY <3>1 DEF Ok, Replies
    <2>2. ToSet(r.ids) \subseteq listed
        BY DEF IndInv, OnlyListed, Ok, ToSet
    <2>3. r.kind = "list" => version <= r.ver
        BY DEF IndInv, VersionKnown, Ok
    <2> QED BY <1>0, <1>3, <2>1, <2>2, <2>3, TakeInv DEF GetPolicyList
<1>4. CASE GetPolicyListCut
    <2>1. Bad \in Replies /\ Bad.ver <= tps
        BY DEF Bad, Replies, IndInv, TypeOK
    <2>2. ToSet(Bad.ids) \subseteq listed /\ Bad.kind # "list"
        BY DEF Bad, ToSet
    <2> QED BY <1>0, <1>4, <2>1, <2>2, TakeInv DEF GetPolicyListCut
<1>5. CASE GetPolicyListFails
    BY <1>0, <1>5
       DEF GetPolicyListFails, IndInv, TypeOK, CaughtUp, PendingIds, PendingInList,
           VersionKnown, LoopComplete, OnlyListed, SpoiledKnown, ListIds,
           tpsVars, lost
<1>6. CASE ListMissing
    <2>1. tries' \in 0..(MAX_GET_TRY - 1)
        BY <1>6 DEF ListMissing, IndInv, TypeOK, MAX_GET_TRY
    <2> QED BY <1>6, <2>1
            DEF ListMissing, IndInv, TypeOK, CaughtUp, PendingIds, PendingInList,
                VersionKnown, LoopComplete, OnlyListed, SpoiledKnown, ListIds,
                tpsVars, lost
<1>7. CASE ListParse
    <2> USE <1>7 DEF ListParse, tpsVars, lost
    <2>1. tries' \in 0..(MAX_GET_TRY - 1)
        BY DEF MAX_GET_TRY
    <2>2. TypeOK' /\ OnlyListed'
        BY <2>1 DEF IndInv, TypeOK, OnlyListed, ListIds
    <2>3. CaughtUp' /\ SpoiledKnown'
        BY DEF IndInv, CaughtUp, SpoiledKnown, PendingIds
    <2>4. PendingInList' /\ VersionKnown' /\ LoopComplete'
        BY <1>0 DEF IndInv, PendingInList, VersionKnown, LoopComplete
    <2> QED BY <2>2, <2>3, <2>4 DEF IndInv
<1>8. CASE ListCount
    <2> USE <1>8 DEF ListCount, tpsVars, lost
    <2>1. reply.ids \in Seq(Ids) /\ reply.ver \in Nat
        BY <1>0 DEF Replies
    <2>2. TypeOK'
        BY <2>1 DEF IndInv, TypeOK
    <2>3. keyValid => PendingIds = {}
        BY DEF IndInv, LoopComplete, PendingIds
    <2>4. CaughtUp' /\ SpoiledKnown'
        BY <2>3 DEF IndInv, CaughtUp, SpoiledKnown
    <2>5. PendingInList' /\ VersionKnown' /\ LoopComplete'
        BY <2>1 DEF IndInv, TypeOK, PendingInList, VersionKnown, LoopComplete
    <2>6. OnlyListed'
        BY DEF IndInv, OnlyListed, ListIds
    <2> QED BY <2>2, <2>4, <2>5, <2>6 DEF IndInv
<1>20. CASE ListCountOther
    <2> USE <1>20 DEF ListCountOther, tpsVars, lost
    <2>1. TypeOK'
        BY <1>0, LoaderAssumption DEF IndInv, TypeOK
    <2>2. keyValid => PendingIds = {}
        BY DEF IndInv, LoopComplete, PendingIds
    <2>3. CaughtUp' /\ SpoiledKnown'
        BY <2>2 DEF IndInv, CaughtUp, SpoiledKnown
    <2>4. PendingInList' /\ VersionKnown' /\ LoopComplete'
        BY DEF IndInv, TypeOK, PendingInList, VersionKnown, LoopComplete
    <2>5. OnlyListed'
        BY DEF IndInv, OnlyListed, ListIds
    <2> QED BY <2>1, <2>3, <2>4, <2>5 DEF IndInv
<1>21. CASE ListNothing
    BY <1>21 DEF ListNothing, IndInv, TypeOK, CaughtUp, PendingIds, PendingInList,
                 VersionKnown, LoopComplete, OnlyListed, SpoiledKnown, ListIds,
                 tpsVars, lost
<1>22. CASE ListVersion
    <2> USE <1>22 DEF ListVersion, Owes, tpsVars
    <2>1. reply.ver \in Nat /\ reply.ids \in Seq(Ids) /\ ListIds \subseteq Ids
        BY <1>0 DEF Replies, ListIds
    <2>2. TypeOK'
        BY <2>1 DEF IndInv, TypeOK
    <2>3. tokens = "list" => PendingIds' = ListIds
        BY <2>1 DEF IndInv, OnlyListed, PendingIds, ListIds
    <2>4. CaughtUp' /\ SpoiledKnown'
        BY <2>3 DEF CaughtUp, SpoiledKnown
    <2>5. PendingInList' /\ VersionKnown' /\ LoopComplete'
        BY <2>1 DEF IndInv, TypeOK, PendingInList, VersionKnown, LoopComplete
    <2>6. OnlyListed'
        BY <2>1 DEF IndInv, TypeOK, OnlyListed, ListIds
    <2> QED BY <2>2, <2>4, <2>5, <2>6 DEF IndInv
<1>9. CASE FetchPolicy
    <2>1. PICK id \in Requested : AddPolicy(id)
        BY <1>9 DEF FetchPolicy
    <2>2. id \in Ids /\ id \in listed
        BY <1>0, PendingAreIds, RequestedListed
    <2>3. InLoop /\ UNCHANGED <<failed, spoiled, goal>>
        BY <1>9 DEF FetchPolicy, lost
    <2>4. Settled
        <3>1. CASE tokens = "list" /\ keyValid
            BY <2>1, <3>1 DEF Settled, Requested, Due, AddPolicy
        <3>2. CASE tokens # "list" /\ keyValid
            BY <2>3, <3>2, NonsenseOwesNothing DEF Settled, Nonsense
        <3> QED BY <3>1, <3>2 DEF Settled
    <2>5. failed' \subseteq Ids /\ faults' \in 0..MaxFaults
        BY <1>0, <1>9, <2>3 DEF FetchPolicy, IndInv, TypeOK
    <2> QED BY <1>9, <2>1, <2>2, <2>3, <2>4, <2>5, AddInv DEF FetchPolicy, lost
<1>10. CASE FetchNotFound
    <2>1. Settled
        BY <1>10 DEF FetchNotFound, Settled
    <2>2. failed \subseteq failed' /\ failed' \subseteq Ids
        BY <1>0, <1>10, PendingAreIds DEF FetchNotFound, IndInv, TypeOK
    <2> QED BY <1>0, <1>10, <2>1, <2>2, SkipInv DEF FetchNotFound
<1>11. CASE FetchNonsense
    <2>1. Settled
        BY <1>11, NonsenseOwesNothing DEF FetchNonsense, Settled
    <2>2. failed' = failed /\ failed \subseteq Ids
        BY <1>11 DEF FetchNonsense, lost, IndInv, TypeOK
    <2> QED BY <1>0, <1>11, <2>1, <2>2, SkipInv DEF FetchNonsense, lost
<1>12. CASE FetchFails
    <2>1. /\ policy \in Ids \cup {NoPolicy} /\ faults' \in 0..MaxFaults
          /\ policy # NoPolicy => policy \in listed
        BY <1>0, <1>12 DEF FetchFails, IndInv, TypeOK, OnlyListed
    <2>2. failed \subseteq failed' /\ failed' \subseteq Ids /\ Settled
        BY <1>0, <1>12, PendingAreIds DEF FetchFails, IndInv, TypeOK, Settled
    <2>3. CASE SkipPolicy(NoPolicy)
        BY <1>12, <2>1, <2>2, <2>3, SkipInv DEF FetchFails
    <2>4. CASE policy # NoPolicy /\ AddPolicy(policy)
        BY <1>12, <2>1, <2>2, <2>4, AddInv DEF FetchFails
    <2> QED BY <1>12, <2>3, <2>4 DEF FetchFails
<1>13. CASE ReceiveDone
    BY <1>13 DEF ReceiveDone, IndInv, TypeOK, CaughtUp, PendingIds, PendingInList,
                 VersionKnown, LoopComplete, OnlyListed, SpoiledKnown, ListIds,
                 tpsVars, lost
<1>14. CASE LoaderEnds
    BY <1>14 DEF LoaderEnds, IndInv, TypeOK, CaughtUp, PendingIds, PendingInList,
                 VersionKnown, LoopComplete, OnlyListed, SpoiledKnown, ListIds,
                 tpsVars, lost
<1>15. CASE Stop
    BY <1>15 DEF Stop, IndInv, TypeOK, CaughtUp, PendingIds, PendingInList,
                 VersionKnown, LoopComplete, OnlyListed, SpoiledKnown, ListIds,
                 tpsVars, lost
<1>16. CASE NetworkParses
    <2> USE <1>16 DEF NetworkParses, tpsVars
    <2>1. requests' \in 0..MaxRequests
        BY LoaderAssumption DEF IndInv, TypeOK
    <2>2. TypeOK'
        BY <1>0, <2>1, PendingAreIds DEF IndInv, TypeOK
    <2>3. CaughtUp' /\ SpoiledKnown'
        BY DEF IndInv, CaughtUp, SpoiledKnown, PendingIds
    <2>4. PendingInList' /\ VersionKnown' /\ LoopComplete'
        BY DEF IndInv, TypeOK, PendingInList, VersionKnown, LoopComplete
    <2>5. OnlyListed'
        BY DEF IndInv, OnlyListed, ListIds
    <2> QED BY <2>2, <2>3, <2>4, <2>5 DEF IndInv
<1>17. CASE Abort
    <2>1. faults' \in 0..MaxFaults
        BY <1>0, <1>17 DEF Abort
    <2> QED BY <1>0, <1>17, <2>1, RestartedInv DEF Abort
<1>18. CASE Restart
    <2>1. restarts' \in 0..MaxRestarts
        BY <1>0, <1>18, LoaderAssumption DEF Restart
    <2> QED BY <1>0, <1>18, <2>1, RestartedInv DEF Restart
<1>19. CASE UNCHANGED vars
    BY <1>19 DEF vars, IndInv, TypeOK, CaughtUp, PendingIds, PendingInList,
                 VersionKnown, LoopComplete, OnlyListed, SpoiledKnown, ListIds
<1> QED
    BY <1>1, <1>2, <1>3, <1>4, <1>5, <1>6, <1>7, <1>8, <1>9, <1>10, <1>11,
       <1>12, <1>13, <1>14, <1>15, <1>16, <1>17, <1>18, <1>19, <1>20, <1>21, <1>22
       DEF Next, Loader, Faults

\* And so it holds always.
LEMMA Invariance == Spec => []IndInv
BY InitInv, NextInv, PTL DEF Spec

\* Type correctness of the loader (policy_loader.c), for all constants.
THEOREM TypeCorrect == Spec => []TypeOK
<1>1. IndInv => TypeOK
    BY DEF IndInv
<1> QED BY <1>1, Invariance, PTL

\* receive_policies loses no policy of the list whose version is reported but by
\* a failed call for that policy, or by a request parsed while it was still to
\* be asked for.
THEOREM LoaderCaughtUp == Spec => []CaughtUp
<1>1. IndInv => CaughtUp
    BY DEF IndInv
<1> QED BY <1>1, Invariance, PTL

\* With a usable owner key receive_policies never looks past the end of the list
\* that the token table describes.
THEOREM LoaderPendingInList == Spec => []PendingInList
<1>1. IndInv => PendingInList
    BY DEF IndInv
<1> QED BY <1>1, Invariance, PTL

\* The loader never reports a version the TPS has not had.
THEOREM LoaderVersionKnown == Spec => []VersionKnown
<1>1. IndInv => VersionKnown
    BY DEF IndInv
<1> QED BY <1>1, Invariance, PTL

\* The first state of the loader is one of PolicyDistribution.
LEMMA DistInit == Init => Dist!Init
<1> SUFFICES ASSUME Init PROVE Dist!Init
    OBVIOUS
<1>1. tpsList \in Seq(Ids)
    BY LoaderAssumption DEF Init
<1> QED BY <1>1 DEF Init, Dist!Init, ToSet

\* A round with a policy that was listed delivers it, or leaves the store alone.
LEMMA DistAdd ==
    ASSUME IndInv, NEW id \in listed, AddPolicy(id),
           UNCHANGED <<tps, listed, version>>
    PROVE  [Dist!Next]_(Dist!dvars)
<1>0. id \in Ids
    BY DEF IndInv, TypeOK
<1>1. CASE keyValid /\ id \notin BadIds
    <2>1. Dist!Deliver(id)
        BY <1>1 DEF AddPolicy, Dist!Deliver
    <2> QED BY <1>0, <2>1 DEF Dist!Next
<1>2. CASE ~(keyValid /\ id \notin BadIds)
    <2>1. stored' = stored
        BY <1>2 DEF AddPolicy
    <2> QED BY <2>1 DEF Dist!dvars
<1> QED BY <1>1, <1>2

\* Every step of the loader is one of PolicyDistribution, or leaves it as it is.
LEMMA DistStep == IndInv /\ [Next]_vars => [Dist!Next]_(Dist!dvars)
<1> SUFFICES ASSUME IndInv, [Next]_vars
             PROVE  [Dist!Next]_(Dist!dvars)
    OBVIOUS
<1>1. CASE Publish
    <2>1. tpsList' \in Seq(Ids)
        BY <1>1, LoaderAssumption DEF Publish
    <2>2. listed' \in SUBSET Ids
        BY <1>1, <2>1 DEF Publish, IndInv, TypeOK, ToSet
    <2>3. Dist!Publish
        BY <1>1, <2>2 DEF Publish, Dist!Publish, loaderVars
    <2> QED BY <2>3 DEF Dist!Next
<1>2. CASE ListVersion
    <2>1. CASE tokens = "list"
        <3>1. /\ version' = reply.ver /\ version <= reply.ver /\ reply.ver <= tps
              /\ version \in Nat /\ reply.ver \in Nat /\ tps \in Nat
            BY <1>2, <2>1
               DEF ListVersion, IndInv, TypeOK, Replies, OnlyListed, LoopComplete
        <3>2. UNCHANGED <<tps, listed, stored>>
            BY <1>2 DEF ListVersion, tpsVars
        <3>3. CASE version = reply.ver
            BY <3>1, <3>2, <3>3 DEF Dist!dvars
        <3>4. CASE version # reply.ver
            <4>1. Dist!Adopt
                BY <3>1, <3>2, <3>4 DEF Dist!Adopt
            <4> QED BY <4>1 DEF Dist!Next
        <3> QED BY <3>3, <3>4
    <2>2. CASE tokens # "list"
        BY <1>2, <2>2 DEF ListVersion, tpsVars, Dist!Next, Dist!Forget
    <2> QED BY <2>1, <2>2
<1>3. CASE FetchPolicy
    <2> QED BY <1>3, RequestedListed, DistAdd DEF FetchPolicy, tpsVars
<1>4. CASE FetchFails
    <2>1. CASE SkipPolicy(NoPolicy)
        BY <1>4, <2>1 DEF FetchFails, SkipPolicy, tpsVars, Dist!dvars
    <2>2. CASE policy # NoPolicy /\ AddPolicy(policy)
        <3>1. policy \in listed
            BY <2>2 DEF IndInv, OnlyListed
        <3> QED BY <1>4, <2>2, <3>1, DistAdd DEF FetchFails, tpsVars
    <2> QED BY <1>4, <2>1, <2>2 DEF FetchFails
<1>5. CASE Abort \/ Restart
    BY <1>5 DEF Abort, Restart, Restarted, tpsVars, Dist!Next, Dist!Forget
<1>6. CASE FetchNotFound \/ FetchNonsense
    BY <1>6 DEF FetchNotFound, FetchNonsense, SkipPolicy, tpsVars, Dist!dvars
<1>7. CASE FsmInit \/ GetPolicyList \/ GetPolicyListCut \/ GetPolicyListFails
           \/ ListMissing \/ ListParse
    BY <1>7 DEF FsmInit, GetPolicyList, GetPolicyListCut, GetPolicyListFails,
                ListMissing, ListParse, tpsVars, Dist!dvars
<1>8. CASE ListCount \/ ListCountOther \/ ListNothing \/ ReceiveDone
           \/ LoaderEnds \/ Stop \/ NetworkParses
    BY <1>8 DEF ListCount, ListCountOther, ListNothing, ReceiveDone, LoaderEnds,
                Stop, NetworkParses, tpsVars, Dist!dvars
<1>9. CASE UNCHANGED vars
    BY <1>9 DEF vars, Dist!dvars
<1> QED
    BY <1>1, <1>2, <1>3, <1>4, <1>5, <1>6, <1>7, <1>8, <1>9
       DEF Next, Loader, Faults

\* The loader, with all its failing calls and overwritten tokens, implements
\* PolicyDistribution: what policy_loader.c and policy_updater.c do to the store
\* and the version is what that specification allows.
THEOREM LoaderDistributes == Spec => Distributes
BY DistInit, DistStep, Invariance, PTL DEF Spec, Distributes, Dist!Spec
=============================================================================
