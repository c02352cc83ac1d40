---------------------------- MODULE PolicyLoader ----------------------------
(***************************************************************************)
(* The policy loader thread and the policy updater it calls:               *)
(* policy_loader/policy_loader.c and policy_updater/policy_updater.c.      *)
(*                                                                         *)
(* The thread polls the Tangle Policy Store (TPS, external) with the       *)
(* version of the list it has; the TPS answers "ok" when that is its own   *)
(* version and otherwise sends its version and the ids of its policies,    *)
(* which the loader then asks for one by one, from the last to the first,  *)
(* and gives to the PAP.                                                   *)
(*                                                                         *)
(* Every call over the network may fail.  policyupdater_get_policy does    *)
(* not look whether it did and parses an uninitialized buffer: garbage, or *)
(* what an earlier answer left there.  Replies are read through the token  *)
(* table of the SDK's jsonhelper, which is global and which the network    *)
(* thread overwrites whenever it parses a request.                         *)
(***************************************************************************)
EXTENDS Naturals, Sequences, SequencesExt, FiniteSets

CONSTANTS
    Ids,         \* policy identifiers
    BadIds,      \* policies the PAP refuses (signature, structure)
    Lists,       \* policy lists the TPS may publish
    NoPolicy,    \* an answer from which no policy can be parsed
    OtherSizes,  \* what token 2 of an access request may count
    MaxRequests, \* bound: access requests parsed over the loader's tokens
    MaxVersion,  \* bound: lists published
    MaxFaults,   \* bound: failed calls
    MaxRestarts  \* bound: restarts of the process

ASSUME LoaderAssumption ==
    /\ BadIds \subseteq Ids
    /\ Lists \subseteq Seq(Ids)
    /\ NoPolicy \notin Ids
    /\ OtherSizes \subseteq Nat
    /\ MaxRequests \in Nat
    /\ MaxVersion \in Nat /\ MaxFaults \in Nat /\ MaxRestarts \in Nat

VARIABLES
    (* The TPS *)
    tps,        \* its version; 0 is the loader's "0x0", never the TPS's
    tpsList,    \* the ids it lists under that version
    (* The loader *)
    fsm,        \* g_policy_updater_fsm_state; PARSED, COUNTED and
                \* RECEIVE are places inside its GET_PL_DONE
    version,    \* g_policy_store_version
    reply,      \* g_policy_list
    newList,    \* g_new_policy_list
    tries,      \* g_fsm_try_counter
    pending,    \* num_of_policies
    policy,     \* g_policy: the last answer to get_policy
    buf,        \* policy_buff: "null", or "freed" and still pointing there
    tokens,     \* what jsonhelper's token table describes
    keyValid,   \* the configured owner_public_key can be decoded
    end,        \* g_end
    (* The PAP, as far as it is used here *)
    stored,     \* policies the store holds
    faults, restarts, requests,
    (* History variables *)
    listed,     \* the ids of every list so far
    goal,       \* the ids listed under the version the loader reports
    failed,     \* those of them whose own call failed
    spoiled     \* those of them still to be asked for when a request was parsed

tpsVars    == <<tps, tpsList, listed>>
loaderVars == <<fsm, version, reply, newList, tries, pending, policy, buf,
                tokens, end>>
lost       == <<goal, failed, spoiled>>
vars       == <<tps, tpsList, fsm, version, reply, newList, tries, pending,
                policy, buf, tokens, keyValid, end, stored, faults, restarts,
                requests, goal, failed, spoiled, listed>>

NoList == [kind |-> "none", ids |-> <<>>, ver |-> 0]
Ok     == [kind |-> "ok",   ids |-> <<>>, ver |-> 0]
Bad    == [kind |-> "bad",  ids |-> <<>>, ver |-> 0]

MAX_GET_TRY == 3

\* The ids the loader still has to ask for.
PendingIds == {reply.ids[i] : i \in 1..pending \cap DOMAIN reply.ids}

Init ==
    /\ tps = 1
    /\ tpsList \in Lists
    /\ listed = ToSet(tpsList)
    /\ fsm = "INIT"
    /\ version = 0
    /\ reply = NoList
    /\ newList = FALSE
    /\ tries = 0
    /\ pending = 0
    /\ policy = NoPolicy
    /\ buf = "null"
    /\ tokens = "request"
    /\ keyValid \in BOOLEAN
    /\ end = FALSE
    /\ stored = {}
    /\ faults = 0
    /\ restarts = 0
    /\ requests = 0
    /\ goal = {} /\ failed = {} /\ spoiled = {}

-----------------------------------------------------------------------------
(* The TPS publishes another list. *)

Publish ==
    /\ tps < MaxVersion
    /\ tps' = tps + 1
    /\ tpsList' \in Lists \ {tpsList}
    /\ listed' = listed \cup ToSet(tpsList')
    /\ UNCHANGED <<loaderVars, keyValid, stored, faults, restarts, requests, lost>>

-----------------------------------------------------------------------------
(* cycle_fsm *)

FsmInit ==
    /\ fsm = "INIT" /\ ~end
    /\ fsm' = "GET_PL"
    /\ UNCHANGED <<tpsVars, version, reply, newList, tries, pending, policy, buf,
                   tokens, keyValid, end, stored, faults, restarts, requests, lost>>

\* A reply is copied over g_policy_list.
TakeReply(r) ==
    /\ reply' = r
    /\ newList' = TRUE

\* policyupdater_get_policy_list, answered.
GetPolicyList ==
    /\ fsm = "GET_PL" /\ ~end
    /\ TakeReply(IF version = tps THEN Ok
                 ELSE [kind |-> "list", ids |-> tpsList, ver |-> tps])
    /\ fsm' = "GET_PL_DONE"
    /\ UNCHANGED <<tpsVars, version, tries, pending, policy, buf, tokens,
                   keyValid, end, stored, faults, restarts, requests, lost>>

\* The connection breaks off half-way: the beginning of an answer is taken for
\* the answer.
GetPolicyListCut ==
    /\ fsm = "GET_PL" /\ ~end
    /\ faults < MaxFaults
    /\ TakeReply(Bad)
    /\ fsm' = "GET_PL_DONE"
    /\ faults' = faults + 1
    /\ UNCHANGED <<tpsVars, version, tries, pending, policy, buf, tokens,
                   keyValid, end, stored, restarts, requests, lost>>

\* tcp_send returns 1: the list and the flag are left as they are.
GetPolicyListFails ==
    /\ fsm = "GET_PL" /\ ~end
    /\ faults < MaxFaults
    /\ fsm' = "GET_PL_DONE"
    /\ faults' = faults + 1
    /\ UNCHANGED <<tpsVars, version, reply, newList, tries, pending, policy, buf,
                   tokens, keyValid, end, stored, restarts, requests, lost>>

\* fsm_get_policy_list_done without a new list.  Its result, the state to go
\* to, is ignored by cycle_fsm.
ListMissing ==
    /\ fsm = "GET_PL_DONE" /\ ~end
    /\ ~newList
    /\ tries' = (tries + 1) % MAX_GET_TRY
    /\ fsm' = "RECEIVE"
    /\ buf' = "null"
    /\ UNCHANGED <<tpsVars, version, reply, newList, pending, policy, tokens,
                   keyValid, end, stored, faults, restarts, requests, lost>>

\* fsm_get_policy_list_done with a new list, up to jsonhelper_parser_init.
ListParse ==
    /\ fsm = "GET_PL_DONE" /\ ~end
    /\ newList
    /\ tries' = 0
    /\ newList' = FALSE
    /\ tokens' = "list"
    /\ fsm' = "PARSED"
    /\ UNCHANGED <<tpsVars, version, reply, pending, policy, buf, keyValid, end,
                   stored, faults, restarts, requests, lost>>

ListIds == {reply.ids[i] : i \in DOMAIN reply.ids}

\* Mutant: one policy of the list is not counted.
ListCountOneShort ==
    /\ fsm = "PARSED"
    /\ reply.kind = "list" /\ tokens = "list"
    /\ pending' = IF reply.ids = <<>> THEN 0 ELSE Len(reply.ids) - 1
    /\ fsm' = "COUNTED"
    /\ UNCHANGED <<tpsVars, version, reply, newList, tries, policy, buf, tokens,
                   keyValid, end, stored, faults, restarts, requests, lost>>

\* parse_policy_service_list finds "response" to be an array and counts it.
ListCount ==
    /\ fsm = "PARSED"
    /\ reply.kind = "list" /\ tokens = "list"
    /\ pending' = Len(reply.ids)
    /\ fsm' = "COUNTED"
    /\ UNCHANGED <<tpsVars, version, reply, newList, tries, policy, buf, tokens,
                   keyValid, end, stored, faults, restarts, requests, lost>>

\* The tokens are overwritten after "response" was found: num_of_policies is
\* what token 2 of the network thread's request counts.
ListCountOther ==
    /\ fsm = "PARSED"
    /\ reply.kind \in {"list", "ok"} /\ tokens # "list"
    /\ pending' \in OtherSizes
    /\ fsm' = "COUNTED"
    /\ UNCHANGED <<tpsVars, version, reply, newList, tries, policy, buf, tokens,
                   keyValid, end, stored, faults, restarts, requests, lost>>

\* "ok", an answer that cannot be parsed and one whose tokens were overwritten
\* before "response" was found change nothing.
ListNothing ==
    /\ fsm = "PARSED"
    /\ reply.kind # "list" \/ tokens # "list"
    /\ fsm' = "RECEIVE"
    /\ buf' = "null"
    /\ UNCHANGED <<tpsVars, version, reply, newList, tries, pending, policy,
                   tokens, keyValid, end, stored, faults, restarts, requests, lost>>

\* The loader reports the version of a list from here on: the ids of that list
\* are what it owes the store.
Owes(ids) == goal' = ids /\ failed' = {} /\ spoiled' = {}

\* Mutant: a version is taken over by a loader that has none only.
ListVersionOnce ==
    /\ fsm = "COUNTED"
    /\ version' = IF version = 0 THEN reply.ver ELSE version
    /\ Owes(ListIds)
    /\ fsm' = "RECEIVE"
    /\ buf' = "null"
    /\ UNCHANGED <<tpsVars, reply, newList, tries, pending, policy, tokens,
                   keyValid, end, stored, faults, restarts, requests>>

\* policyStoreId is copied from the list, before any of its policies has been
\* asked for.  If the tokens were overwritten in the meantime the text copied is
\* some other, which no list has as its version (0 stands for such a text, as
\* for the "0x0" of the start).
ListVersion ==
    /\ fsm = "COUNTED"
    /\ \/ /\ tokens = "list"
          /\ version' = reply.ver
          /\ Owes(ListIds)
       \/ /\ tokens # "list"
          /\ version' = 0
          /\ Owes({})
    /\ fsm' = "RECEIVE"
    /\ buf' = "null"
    /\ UNCHANGED <<tpsVars, reply, newList, tries, pending, policy, tokens,
                   keyValid, end, stored, faults, restarts, requests>>

-----------------------------------------------------------------------------
(* receive_policies *)

\* The id whose turn it is, and the one the loader asks for: the text at token
\* 3 + current_policy.  Once the token table describes a request that text is
\* nonsense, unless the place it points at, or a token the request has left
\* alone, happens to be an id of the list.
Due       == {reply.ids[i] : i \in {pending} \cap DOMAIN reply.ids}
Requested == IF tokens = "list" THEN Due ELSE ListIds
Nonsense  == tokens # "list" \/ Due = {}

\* Mutant: the loop is left at the first answer without a policy.
SkipTheRest(answer) ==
    /\ policy' = answer
    /\ fsm' = "GET_PL"
    /\ UNCHANGED <<pending, buf, stored>>

\* Mutant: what parse_policy_struct returns is not looked at.
SkipPolicyAdds(answer) ==
    /\ policy' = answer
    /\ pending' = pending - 1
    /\ stored' = stored \cup {answer}
    /\ UNCHANGED <<fsm, buf>>

\* parse_policy_struct finds no policy in the answer.  policy_buff is freed
\* once more if an earlier round of this loop has left it pointing at what it
\* freed; the allocator stops the process (Abort) or does not notice.
SkipPolicy(answer) ==
    /\ policy' = answer
    /\ pending' = pending - 1
    /\ UNCHANGED <<fsm, buf, stored>>

\* The answer holds policy id: the owner's key is decoded and the policy goes
\* to the PAP, whose verdict is ignored.  Without a key the loop is left with
\* num_of_policies as it is.
AddPolicy(id) ==
    /\ policy' = id
    /\ \/ /\ keyValid
          /\ stored' = stored \cup ({id} \ BadIds)
          /\ buf' = "freed"
          /\ pending' = pending - 1
          /\ UNCHANGED fsm
       \/ /\ ~keyValid
          /\ fsm' = "GET_PL"
          /\ UNCHANGED <<stored, buf, pending>>

InLoop == fsm = "RECEIVE" /\ pending > 0

\* policyupdater_get_policy, answered with the policy.
FetchPolicy ==
    /\ InLoop
    /\ \E id \in Requested : AddPolicy(id)
    /\ UNCHANGED <<tpsVars, version, reply, newList, tries, tokens, keyValid, end,
                   faults, restarts, requests, lost>>

\* Answered with an error: the TPS cannot get the policy.
FetchNotFound ==
    /\ InLoop
    /\ Requested # {}
    /\ faults < MaxFaults
    /\ SkipPolicy(NoPolicy)
    /\ faults' = faults + 1
    /\ failed' = failed \cup Due
    /\ UNCHANGED <<tpsVars, version, reply, newList, tries, tokens, keyValid, end,
                   restarts, requests, goal, spoiled>>

\* What was asked for is not a policy id at all: the TPS answers with an error.
FetchNonsense ==
    /\ InLoop
    /\ Nonsense
    /\ SkipPolicy(NoPolicy)
    /\ UNCHANGED <<tpsVars, version, reply, newList, tries, tokens, keyValid, end,
                   faults, restarts, requests, lost>>

\* tcp_send fails, which nobody looks at: the answer is garbage, or what the
\* call before left in the buffer.
FetchFails ==
    /\ InLoop
    /\ faults < MaxFaults
    /\ faults' = faults + 1
    /\ failed' = failed \cup Due
    /\ \E answer \in {NoPolicy, policy} :
          IF answer = NoPolicy THEN SkipPolicy(NoPolicy) ELSE AddPolicy(answer)
    /\ UNCHANGED <<tpsVars, version, reply, newList, tries, tokens, keyValid, end,
                   restarts, requests, goal, spoiled>>

ReceiveDone ==
    /\ fsm = "RECEIVE" /\ pending = 0
    /\ fsm' = "GET_PL"
    /\ UNCHANGED <<tpsVars, version, reply, newList, tries, pending, policy, buf,
                   tokens, keyValid, end, stored, faults, restarts, requests, lost>>

-----------------------------------------------------------------------------
(* policyloader_stop, the network thread, the death of the process *)

Stop ==
    /\ ~end
    /\ end' = TRUE
    /\ UNCHANGED <<tpsVars, fsm, version, reply, newList, tries, pending, policy,
                   buf, tokens, keyValid, stored, faults, restarts, requests, lost>>

\* Mutant: g_end is looked at before the first cycle only.
LoaderEndsAtStart ==
    /\ end
    /\ fsm = "INIT"
    /\ fsm' = "ended"
    /\ UNCHANGED <<tpsVars, version, reply, newList, tries, pending, policy, buf,
                   tokens, keyValid, end, stored, faults, restarts, requests, lost>>

\* while (!g_end): looked at between two calls of cycle_fsm only.
LoaderEnds ==
    /\ end
    /\ fsm \in {"INIT", "GET_PL", "GET_PL_DONE"}
    /\ fsm' = "ended"
    /\ UNCHANGED <<tpsVars, version, reply, newList, tries, pending, policy, buf,
                   tokens, keyValid, end, stored, faults, restarts, requests, lost>>

\* calculate_decision: jsonhelper_parser_init(*recv_data), over the tokens of
\* the list.
NetworkParses ==
    /\ tokens = "list"
    /\ requests < MaxRequests
    /\ requests' = requests + 1
    /\ tokens' = "request"
    /\ spoiled' = IF fsm = "RECEIVE" THEN spoiled \cup PendingIds ELSE spoiled
    /\ UNCHANGED <<tpsVars, fsm, version, reply, newList, tries, pending, policy,
                   buf, keyValid, end, stored, faults, restarts, goal, failed>>

\* Everything but the store is lost, the version included.
Restarted ==
    /\ fsm' = "INIT"
    /\ version' = 0
    /\ reply' = NoList
    /\ newList' = FALSE
    /\ tries' = 0
    /\ pending' = 0
    /\ policy' = NoPolicy
    /\ buf' = "null"
    /\ tokens' = "request"
    /\ end' = FALSE
    /\ Owes({})
    /\ UNCHANGED <<tpsVars, keyValid, stored, requests>>

\* The second free of policy_buff is noticed.
Abort ==
    /\ InLoop
    /\ buf = "freed"
    /\ faults < MaxFaults \/ Nonsense
    /\ faults' = IF Nonsense THEN faults ELSE faults + 1
    /\ Restarted
    /\ UNCHANGED restarts

Restart ==
    /\ restarts < MaxRestarts
    /\ restarts' = restarts + 1
    /\ Restarted
    /\ UNCHANGED faults

-----------------------------------------------------------------------------

Loader ==
    \/ FsmInit \/ GetPolicyList \/ ListMissing \/ ListParse \/ ListCount
    \/ ListCountOther \/ ListNothing \/ ListVersion
    \/ FetchPolicy \/ FetchNonsense \/ ReceiveDone \/ LoaderEnds

Faults ==
    \/ GetPolicyListCut \/ GetPolicyListFails \/ FetchNotFound \/ FetchFails
    \/ Abort \/ Restart

Next == Publish \/ Loader \/ Faults \/ Stop \/ NetworkParses

Spec == Init /\ [][Next]_vars

\* The loader thread keeps running, and the TPS closes every connection it
\* accepts (get_tcp_response reads until then, without a timeout).
FairSpec == Spec /\ WF_vars(Loader)

-----------------------------------------------------------------------------
(* Properties *)

Replies == [kind : {"none", "ok", "bad", "list"}, ids : Seq(Ids), ver : Nat]

\* Every variable has a value of its type.
TypeOK ==
    /\ tps \in Nat
    /\ tpsList \in Lists
    /\ fsm \in {"INIT", "GET_PL", "GET_PL_DONE", "PARSED", "COUNTED", "RECEIVE",
              "ended"}
    /\ version \in Nat
    /\ reply \in Replies
    /\ newList \in BOOLEAN
    /\ tries \in 0..(MAX_GET_TRY - 1)
    /\ pending \in Nat
    /\ policy \in Ids \cup {NoPolicy}
    /\ buf \in {"null", "freed"}
    /\ tokens \in {"list", "request"}
    /\ keyValid \in BOOLEAN
    /\ end \in BOOLEAN
    /\ stored \subseteq Ids
    /\ faults \in 0..MaxFaults
    /\ restarts \in 0..MaxRestarts
    /\ requests \in 0..MaxRequests
    /\ goal \subseteq Ids /\ failed \subseteq Ids /\ spoiled \subseteq Ids
    /\ listed \subseteq Ids

\* With a usable owner key an acceptable policy of the list whose version the
\* loader reports is in the store or still to be asked for, unless the very call
\* for it failed or a request of the network thread was parsed into the token
\* table while it was still to be asked for.  Nothing else costs a policy: no
\* request before the version was copied, no failed call for another policy, no
\* list that arrives later, and no answer left over from another call.
CaughtUp ==
    keyValid => goal \ BadIds \subseteq stored \cup failed \cup spoiled \cup PendingIds

\* With a usable owner key receive_policies never looks for a policy past the
\* end of the list its token table describes: a count taken from the tokens of
\* an access request is used up before the next list is parsed.
PendingInList ==
    keyValid /\ tokens = "list" /\ pending > 0 =>
        reply.kind = "list" /\ pending <= Len(reply.ids)

\* The version the loader reports is none that the TPS has not reached, and the
\* policies it is asking for are those of the version it will report next: a
\* list is never counted under the version of another.
VersionKnown ==
    /\ version <= tps
    /\ fsm = "RECEIVE" /\ pending > 0 /\ keyValid => version \in {0, reply.ver}

\* Why the three above hold: with a usable key the loop of receive_policies is
\* always run to its end, and a list comes with a version of the TPS.
LoopComplete ==
    /\ keyValid /\ fsm \notin {"COUNTED", "RECEIVE"} => pending = 0
    /\ reply.ver <= tps

\* What the loader has in hand or in store was listed, and a list in hand is not
\* older than the version reported; a list is counted as a whole.
OnlyListed ==
    /\ ToSet(tpsList) \subseteq listed /\ ListIds \subseteq listed
    /\ policy \in listed \cup {NoPolicy}
    /\ stored \subseteq listed
    /\ reply.kind = "list" => version <= reply.ver
    /\ fsm = "COUNTED" /\ tokens = "list" =>
           reply.kind = "list" /\ pending = Len(reply.ids)

\* While the loop runs on the tokens of a request, what is left of the list is
\* on record as spoiled.
SpoiledKnown ==
    keyValid /\ fsm = "RECEIVE" /\ tokens # "list" => goal \cap PendingIds \subseteq spoiled

\* The inductive invariant of the loader.
IndInv ==
    /\ TypeOK /\ CaughtUp /\ PendingInList /\ VersionKnown
    /\ LoopComplete /\ OnlyListed /\ SpoiledKnown

\* The loader implements PolicyDistribution: whatever calls fail, answers are
\* left over from other calls and token tables are overwritten, only listed and
\* acceptable policies reach the store, and the version never falls back to an
\* older one that the loader has seen.
Dist == INSTANCE PolicyDistribution
            WITH Ids <- Ids, BadIds <- BadIds, tps <- tps, listed <- listed,
                 version <- version, stored <- stored

Distributes == Dist!Spec

\* The loader ends up with the version of the TPS, however calls fail.
VersionCatchesUp == <>[](fsm = "ended" \/ version = tps)

\* As long as no call fails and no request is parsed while policies are being
\* asked for, the store ends up holding every policy of the TPS's list that the
\* PAP accepts, across a restart and whatever requests are parsed between the
\* parsing of a list and the copy of its version.
EventuallyStored ==
    <>[](\/ fsm = "ended" \/ faults > 0 \/ ~keyValid \/ spoiled # {}
         \/ ToSet(tpsList) \ BadIds \subseteq stored)

\* policyloader_stop returns: the thread it joins ends.
StopReturns == end ~> (fsm = "ended" \/ ~end)

\* docs/08-apu.md:9 "If ID sent by PAP matches with the Checksum of Policy List
\* stored on the TPS, then TPS replies ok (nothing to update)": a loader that
\* polls with the TPS's version has nothing left to get.
AckMeansStored ==
    fsm = "GET_PL" /\ keyValid /\ version = tps => ToSet(tpsList) \ BadIds \subseteq stored
=============================================================================
