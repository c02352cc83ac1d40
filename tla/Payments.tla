------------------------------ MODULE Payments ------------------------------
(***************************************************************************)
(* Payments: the wallet plugins of the PEP (store a transaction and wait   *)
(* for its confirmation) and of the PIP (is this policy paid?), the bill   *)
(* file of portability/os/posix/posix.c between them, and the confirmation *)
(* service of wallet/wallet.c, one thread per transaction waited for.      *)
(*                                                                         *)
(* The plugins call the file functions by the name they had before posix.c *)
(* was renamed (rpitransaction).  Their two mutexes are taken by the       *)
(* network thread only and are never contended, the callback takes none,   *)
(* so they do not appear.                                                  *)
(*                                                                         *)
(* A record is written with its terminating NUL, and the readers search    *)
(* the file with strstr: they see the first record of the bill only.       *)
(***************************************************************************)
EXTENDS Naturals, Sequences, FiniteSets

CONSTANTS
    Txs,       \* transactions
    Ids,       \* policies that are paid for
    None,      \* no transaction
    Slots,     \* TRANS_CONF_SERV_MAX_NUM
    Interval,  \* TRANS_INTERVAL_S
    Timeout,   \* TRANS_TIMEOUT_S
    MaxFaults  \* bound: calls of fopen and pthread_create that fail

ASSUME PaymentsAssumption ==
    /\ None \notin Txs /\ "network" \notin Txs
    /\ Timeout \in Nat /\ MaxFaults \in Nat
    /\ Slots \in Nat \ {0} /\ Interval \in Nat \ {0}

VARIABLES
    alive,      \* the process has not died of a NULL pointer
    confirmed,  \* transactions confirmed on the Tangle
    bill,       \* the file: records of a policy and its validated flag
    slot,       \* service[]
    pc,         \* where each thread is
    cur,        \* the transaction and the policy of the network thread's call
    index,      \* i of transaction_store_transaction
    serv,       \* confirmation_service_t of a thread: "none", "alive", "freed"
    time,       \* its time
    result,     \* its is_confirmed
    place,      \* the slot its callback has found
    copy,       \* buff of posix_transaction_update_payment_status, per thread
    faults,
    paid,       \* history: the transactions and policies stored, in order
    raced       \* history: a record was appended during an update of the file

servVars == <<serv, time, result, place>>
histVars == <<paid, raced>>
vars     == <<alive, confirmed, bill, slot, pc, cur, index, serv, time, result,
              place, copy, faults, paid, raced>>

Net     == "network"   \* the network thread; the others are named after the
Threads == Txs \cup {Net}                  \* transaction they wait for
Entries == 1..Slots

Goto(w, where) == pc' = [pc EXCEPT ![w] = where]

\* The network thread's call of a plugin is over.
NoCall == <<None, None>>
Return == Goto(Net, "idle") /\ cur' = NoCall

\* What strstr finds in the bill, or in a copy of it: its first record.
Sees(file, p) == file # <<>> /\ file[1].id = p

Init ==
    /\ alive = TRUE
    /\ confirmed = {}
    /\ bill = <<>>
    /\ slot = [s \in Entries |-> [service |-> None, id |-> "null", done |-> FALSE]]
    /\ pc = [w \in Threads |-> IF w = Net THEN "idle" ELSE "none"]
    /\ cur = NoCall /\ index = 1
    /\ serv = [t \in Txs |-> "none"] /\ time = [t \in Txs |-> 0]
    /\ result = [t \in Txs |-> FALSE] /\ place = [t \in Txs |-> 1]
    /\ copy = [w \in Threads |-> <<>>]
    /\ faults = 0
    /\ paid = <<>>
    /\ raced = FALSE

\* A NULL pointer is followed.
Dies ==
    /\ alive' = FALSE
    /\ UNCHANGED <<confirmed, bill, slot, pc, cur, index, servVars, copy, faults, histVars>>

Fault == faults < MaxFaults /\ faults' = faults + 1

-----------------------------------------------------------------------------
(* The Tangle confirms a transaction (seen only once it is asked about); a node
   that cannot be asked counts as a node that says no. *)

Confirm(t) ==
    /\ alive /\ t \notin confirmed
    /\ \E i \in DOMAIN paid : paid[i][1] = t
    /\ confirmed' = confirmed \cup {t}
    /\ UNCHANGED <<alive, bill, slot, pc, cur, index, servVars, copy, faults, histVars>>

CheckConfirmation(t) == {ok \in BOOLEAN : ok => t \in confirmed}

-----------------------------------------------------------------------------
(* posix_transaction_update_payment_status, called by thread w: the file is
   read and searched, truncated, and written back as it was read. *)

Updating(w) == pc[w] \in {"trunc", "write"}

\* Back in the caller: the callback goes on at where.
Updated(w, where) == IF w = Net THEN Return ELSE Goto(w, where) /\ UNCHANGED cur

\* Mutant: the record is marked whatever the result.
MarkedAlways(ok) == [bill EXCEPT ![1].validated = TRUE]

Marked(ok) == [bill EXCEPT ![1].validated = ok]

\* The record looked for is found and changed in memory.
UpdateRead(w, ok) ==
    /\ copy' = [copy EXCEPT ![w] = Marked(ok)]
    /\ Goto(w, "trunc")
    /\ UNCHANGED <<alive, confirmed, bill, slot, cur, index, servVars, faults, histVars>>

UpdateTruncate(w) ==
    /\ alive /\ pc[w] = "trunc"
    /\ bill' = <<>>
    /\ Goto(w, "write")
    /\ UNCHANGED <<alive, confirmed, slot, cur, index, servVars, copy, faults, histVars>>

\* Mutant: the last record is not written.
UpdateWriteShort(w) ==
    /\ alive /\ pc[w] = "write"
    /\ bill' = SubSeq(copy[w], 1, Len(copy[w]) - 1)
    /\ copy' = [copy EXCEPT ![w] = <<>>]
    /\ Updated(w, "flag")
    /\ UNCHANGED <<alive, confirmed, slot, index, servVars, faults,
                   histVars>>

\* fwrite from the start of the file: what another thread has written there in
\* the meantime stays only beyond the length of the copy.
UpdateWrite(w) ==
    /\ alive /\ pc[w] = "write"
    /\ bill' = copy[w] \o SubSeq(bill, Len(copy[w]) + 1, Len(bill))
    /\ copy' = [copy EXCEPT ![w] = <<>>]
    /\ Updated(w, "flag")
    /\ UNCHANGED <<alive, confirmed, slot, index, servVars, faults,
                   histVars>>

\* One of the two calls of fopen fails.
UpdateFails(w) ==
    /\ alive /\ pc[w] \in {"read", "trunc"}
    /\ Fault
    /\ copy' = [copy EXCEPT ![w] = <<>>]
    /\ Updated(w, "ended")
    /\ UNCHANGED <<alive, confirmed, bill, slot, index, servVars, histVars>>

-----------------------------------------------------------------------------
(* transaction_store_transaction, in the network thread *)

\* The transaction that is stored next.  Which of the others it is makes no
\* difference: only their order of arrival tells them apart.
Fresh == CHOOSE t \in Txs : \A i \in DOMAIN paid : paid[i][1] # t

\* posix_transaction_store appends a record.
Store(t, p) ==
    /\ alive /\ pc[Net] = "idle"
    /\ \A i \in DOMAIN paid : paid[i][1] # t
    /\ t = Fresh
    /\ cur' = <<t, p>>
    /\ bill' = Append(bill, [id |-> p, validated |-> FALSE])
    /\ paid' = Append(paid, cur')
    /\ raced' = (raced \/ \E w \in Txs : Updating(w))
    /\ Goto(Net, "check")
    /\ UNCHANGED <<alive, confirmed, slot, index, servVars, copy, faults>>

StoreFails ==
    /\ alive /\ pc[Net] = "idle"
    /\ Fault
    /\ UNCHANGED <<alive, confirmed, bill, slot, pc, cur, index, servVars, copy,
                   histVars>>

\* The transaction is confirmed already, or a thread is needed to wait for it.
StoreChecks ==
    /\ alive /\ pc[Net] = "check"
    /\ \E ok \in CheckConfirmation(cur[1]) :
          IF ok THEN Goto(Net, "read") /\ index' = index
                ELSE Goto(Net, "clear") /\ index' = 1
    /\ UNCHANGED <<alive, confirmed, bill, slot, cur, servVars, copy, faults, histVars>>

\* The record searched for is seen, or NULL is written through.
StoreMarks ==
    /\ alive /\ pc[Net] = "read"
    /\ IF Sees(bill, cur[2]) THEN UpdateRead(Net, TRUE) ELSE Dies

\* Mutant: transaction_confirmed is not reset.
ClearKeepsFlag ==
    /\ alive /\ pc[Net] = "clear" /\ index \in Entries
    /\ LET t == slot[index].service
       IN  IF slot[index].done
           THEN /\ t # None => pc[t] = "ended"
                /\ serv' = [u \in Txs |-> IF u = t THEN "freed" ELSE serv[u]]
                /\ slot' = [slot EXCEPT ![index] =
                                [service |-> None, id |-> "freed", done |-> TRUE]]
           ELSE UNCHANGED <<serv, slot>>
    /\ index' = index + 1
    /\ UNCHANGED <<alive, confirmed, bill, pc, cur, time, result, place, copy, faults, histVars>>

\* A slot whose transaction is done is cleared: its thread is joined and freed.
\* The pointer to the policy id is freed and kept.
Clear ==
    /\ alive /\ pc[Net] = "clear" /\ index \in Entries
    /\ LET t == slot[index].service
       IN  IF slot[index].done
           THEN /\ pc[t] = "ended"
                /\ serv' = [serv EXCEPT ![t] = "freed"]
                /\ slot' = [slot EXCEPT ![index] =
                                [service |-> None, id |-> "freed", done |-> FALSE]]
           ELSE UNCHANGED <<serv, slot>>
    /\ index' = index + 1
    /\ UNCHANGED <<alive, confirmed, bill, pc, cur, time, result, place, copy, faults, histVars>>

Free == {s \in Entries : slot[s].service = None}

\* Every slot is taken: "services limit reached".
Limit ==
    /\ alive /\ pc[Net] = "clear" /\ index \notin Entries
    /\ Free = {}
    /\ Return
    /\ UNCHANGED <<alive, confirmed, bill, slot, index, servVars, copy, faults, histVars>>

\* Mutant: the first slot is taken whether it is free or not.
StartFirst ==
    /\ alive /\ pc[Net] = "clear" /\ index \notin Entries
    /\ index' = 1
    /\ serv' = [serv EXCEPT ![cur[1]] = "alive"]
    /\ pc' = [pc EXCEPT ![Net] = "assign", ![cur[1]] = "first"]
    /\ UNCHANGED <<alive, confirmed, bill, slot, cur, time, result, place, copy, faults, histVars>>

\* confirmation_service_start for the first free slot: the thread is running
\* before its service is assigned to the slot.
Start ==
    /\ alive /\ pc[Net] = "clear" /\ index \notin Entries
    /\ Free # {}
    /\ index' = CHOOSE s \in Free : \A u \in Free : s <= u
    /\ serv' = [serv EXCEPT ![cur[1]] = "alive"]
    /\ pc' = [pc EXCEPT ![Net] = "assign", ![cur[1]] = "first"]
    /\ UNCHANGED <<alive, confirmed, bill, slot, cur, time, result, place, copy, faults, histVars>>

Assign ==
    /\ alive /\ pc[Net] = "assign"
    /\ slot' = [slot EXCEPT ![index].service = cur[1]]
    /\ Goto(Net, "fill")
    /\ UNCHANGED <<alive, confirmed, bill, cur, index, servVars, copy, faults, histVars>>

\* The buffer for the policy id is allocated, and never written.
Fill ==
    /\ alive /\ pc[Net] = "fill"
    /\ slot' = [slot EXCEPT ![index].id = "unset", ![index].done = FALSE]
    /\ Return
    /\ UNCHANGED <<alive, confirmed, bill, index, servVars, copy, faults, histVars>>

\* confirmation_service_start returns NULL, which is assigned like a service.
StartFails ==
    /\ alive /\ pc[Net] = "clear" /\ index \notin Entries
    /\ Free # {} /\ Fault
    /\ index' = CHOOSE s \in Free : \A u \in Free : s <= u
    /\ Goto(Net, "fill")
    /\ UNCHANGED <<alive, confirmed, bill, slot, cur, servVars, copy, histVars>>

-----------------------------------------------------------------------------
(* confirmation_service, the thread that waits for transaction t *)

FirstCheck(t) ==
    /\ alive /\ pc[t] = "first"
    /\ \E ok \in CheckConfirmation(t) :
          /\ result' = [result EXCEPT ![t] = ok]
          /\ Goto(t, IF ok THEN "find" ELSE "loop")
    /\ UNCHANGED <<alive, confirmed, bill, slot, cur, index, serv, time, place,
                   copy, faults, histVars>>

TimedOut(t) ==
    /\ alive /\ pc[t] = "loop"
    /\ time[t] >= Timeout
    /\ Goto(t, "find")
    /\ UNCHANGED <<alive, confirmed, bill, slot, cur, index, servVars, copy, faults, histVars>>

\* Mutant: the time that passes is not counted.
PollUntimed(t) ==
    /\ alive /\ pc[t] = "loop"
    /\ time[t] < Timeout
    /\ \E ok \in CheckConfirmation(t) :
          /\ result' = [result EXCEPT ![t] = ok]
          /\ Goto(t, IF ok THEN "find" ELSE "loop")
    /\ UNCHANGED <<alive, confirmed, bill, slot, cur, index, serv, time, place,
                   copy, faults, histVars>>

Poll(t) ==
    /\ alive /\ pc[t] = "loop"
    /\ time[t] < Timeout
    /\ \E ok \in CheckConfirmation(t) :
          /\ result' = [result EXCEPT ![t] = ok]
          /\ time' = [time EXCEPT ![t] = IF ok THEN @ ELSE @ + Interval]
          /\ Goto(t, IF ok THEN "find" ELSE "loop")
    /\ UNCHANGED <<alive, confirmed, bill, slot, cur, index, serv, place, copy, faults, histVars>>

-----------------------------------------------------------------------------
(* Its callback, transaction_confirmation *)

\* The slots are searched from the first; an empty one on the way is followed.
Find(t) ==
    /\ alive /\ pc[t] = "find"
    /\ LET stops == {s \in Entries : slot[s].service \in {None, t}}
           first == CHOOSE s \in stops : \A u \in stops : s <= u
       IN  IF slot[first].service = t
           THEN /\ place' = [place EXCEPT ![t] = first]
                /\ Goto(t, "read")
                /\ UNCHANGED <<alive, confirmed, bill, slot, cur, index, serv, time,
                               result, copy, faults, histVars>>
           ELSE Dies

\* The policy id of the slot is NULL as yet: nothing is updated.
NoId(t) ==
    /\ alive /\ pc[t] = "read"
    /\ slot[place[t]].id = "null"
    /\ Goto(t, "ended")
    /\ UNCHANGED <<alive, confirmed, bill, slot, cur, index, servVars, copy, faults, histVars>>

\* The buffer holds whatever was in the memory: the policy of the first record,
\* or something that is not in the file.
CallbackMarks(t) ==
    /\ alive /\ pc[t] = "read"
    /\ slot[place[t]].id # "null"
    /\ \/ bill # <<>> /\ UpdateRead(t, result[t])
       \/ Dies

\* Mutant: the thread goes on polling after the callback.
FlagAgain(t) ==
    /\ alive /\ pc[t] = "flag"
    /\ slot' = [slot EXCEPT ![place[t]].done = TRUE]
    /\ Goto(t, "loop")
    /\ UNCHANGED <<alive, confirmed, bill, cur, index, servVars, copy, faults, histVars>>

\* transaction_confirmed = TRUE, after a time-out as well.
Flag(t) ==
    /\ alive /\ pc[t] = "flag"
    /\ slot' = [slot EXCEPT ![place[t]].done = TRUE]
    /\ Goto(t, "ended")
    /\ UNCHANGED <<alive, confirmed, bill, cur, index, servVars, copy, faults, histVars>>

-----------------------------------------------------------------------------
(* recover_transaction of the PIP plugin, in the network thread *)

\* The first record is that of policy p.  When it is not, or when what follows
\* the unterminated policy id in memory hides it, the answer is "not_paid".
IsStored(p) ==
    /\ alive /\ pc[Net] = "idle"
    /\ Sees(bill, p)
    /\ cur' = <<None, p>>
    /\ Goto(Net, "verified")
    /\ UNCHANGED <<alive, confirmed, bill, slot, index, servVars, copy, faults,
                   histVars>>

\* The file is read once more, and an update may have begun.  The answer,
\* "verified" or "paid", is the flag of the record.
IsVerified ==
    /\ alive /\ pc[Net] = "verified"
    /\ IF Sees(bill, cur[2])
       THEN /\ Return
            /\ UNCHANGED <<alive, confirmed, bill, slot, index, servVars, copy,
                           faults, histVars>>
       ELSE Dies

-----------------------------------------------------------------------------

Network ==
    \/ StoreChecks \/ StoreMarks \/ Clear \/ Limit \/ Start \/ Assign \/ Fill
    \/ StartFails \/ IsVerified
    \/ UpdateTruncate(Net) \/ UpdateWrite(Net) \/ UpdateFails(Net)

Confirmation(t) ==
    \/ FirstCheck(t) \/ TimedOut(t) \/ Poll(t) \/ Find(t) \/ NoId(t)
    \/ CallbackMarks(t) \/ Flag(t)
    \/ UpdateTruncate(t) \/ UpdateWrite(t) \/ UpdateFails(t)

Next ==
    \/ \E t \in Txs, p \in Ids : Store(t, p)
    \/ StoreFails
    \/ \E p \in Ids : IsStored(p)
    \/ Network
    \/ \E t \in Txs : Confirmation(t) \/ Confirm(t)

Spec == Init /\ [][Next]_vars

\* Both kinds of thread are scheduled, and sleep and the queries to the node end.
FairSpec == Spec /\ WF_vars(Network) /\ \A t \in Txs : WF_vars(Confirmation(t))

-----------------------------------------------------------------------------
(* Properties *)

Running(t) == pc[t] \notin {"none", "ended"}

Records == [id : Ids, validated : BOOLEAN]
Files   == Seq(Records)

SlotValues ==
    [service : Txs \cup {None}, id : {"null", "unset", "freed"}, done : BOOLEAN]

\* Every variable has a value of its type; time never exceeds the time-out by
\* a whole interval.
TypeOK ==
    /\ alive \in BOOLEAN /\ confirmed \subseteq Txs /\ bill \in Files
    /\ slot \in [Entries -> SlotValues]
    /\ pc \in [Threads -> {"idle", "none", "check", "read", "trunc", "write",
                           "clear", "assign", "fill", "verified", "first", "loop",
                           "find", "flag", "ended"}]
    /\ cur \in (Txs \cup {None}) \X (Ids \cup {None}) /\ index \in 1..(Slots + 1)
    /\ serv \in [Txs -> {"none", "alive", "freed"}]
    /\ time \in [Txs -> 0..(Timeout + Interval - 1)]
    /\ result \in [Txs -> BOOLEAN] /\ place \in [Txs -> Entries]
    /\ copy \in [Threads -> Files]
    /\ faults \in 0..MaxFaults
    /\ paid \in Seq(Txs \X Ids) /\ raced \in BOOLEAN

\* A confirmation thread never outlives its service, and while it runs it is in
\* exactly one slot of the table, or about to be put there: no callback and no
\* join is lost.
ThreadsTracked ==
    \A t \in Txs : Running(t) =>
        /\ serv[t] = "alive"
        /\ \/ \E s \in Entries : {u \in Entries : slot[u].service = t} = {s}
           \/ pc[Net] = "assign" /\ cur[1] = t

\* What the clearing loop joins and frees is there: a slot marked as done holds
\* a service, and a policy id that has not been freed, although the callback
\* may run before the slot is filled.
ClearedOnce ==
    pc[Net] \in {"idle", "clear"} => \A s \in Entries :
        slot[s].done => slot[s].service # None /\ slot[s].id = "unset"

\* The transaction an update of the file is made for.
Own(w) == IF w = Net THEN cur[1] ELSE w

Verified(file) == \E i \in DOMAIN file : file[i].validated

\* A transaction that is waited for in vain never counts as a payment: the bill
\* turns to verified, which the PIP then reports, only by the write of an update
\* made for a transaction that the Tangle has confirmed, however time-outs,
\* confirmations and updates of several threads interleave.  Whose record is
\* marked is not said: the callback looks for whatever the slot's memory names.
VerifiedHasCause ==
    [][~Verified(bill) /\ Verified(bill') =>
           \E w \in Threads : pc[w] = "write" /\ pc'[w] # "write" /\ Own(w) \in confirmed]_vars

\* While no record was appended in the middle of an update, rewriting the bill
\* keeps every record, in order.
RecordsKept ==
    alive /\ ~raced /\ (\A w \in Threads : pc[w] # "write")
        => [i \in DOMAIN bill |-> bill[i].id] = [i \in DOMAIN paid |-> paid[i][2]]

Stored(t) == \E i \in DOMAIN paid : paid[i][1] = t

\* Why these hold: where the network thread and the others can be, and what the
\* network thread knows of the transaction and of the slot it is working on.
Progress ==
    /\ pc[Net] \in {"idle", "check", "read", "trunc", "write", "clear", "assign",
                    "fill", "verified"}
    /\ \A t \in Txs :
          /\ pc[t] \in {"none", "first", "loop", "find", "read", "trunc", "write",
                        "flag", "ended"}
          /\ pc[t] # "none" => Stored(t)
    /\ pc[Net] \in {"check", "clear"} =>
          cur[1] \in Txs /\ Stored(cur[1]) /\ pc[cur[1]] = "none"
    /\ pc[Net] = "assign" =>
          /\ cur[1] \in Txs /\ pc[cur[1]] # "none"
          /\ \A s \in Entries : slot[s].service # cur[1]
          /\ index \in Entries /\ slot[index].service = None
    /\ pc[Net] = "fill" => index \in Entries

\* A service is in one slot at most, and in none before it is started; every
\* thread has its service and, but for the moment before the assignment, its
\* slot, which a callback that has found it does not lose before it has ended.
Tracked ==
    /\ \A s, u \in Entries :
          slot[s].service = slot[u].service /\ slot[s].service # None => s = u
    /\ \A t \in Txs, s \in Entries : slot[s].service = t => pc[t] # "none"
    /\ \A t \in Txs : Running(t) =>
          /\ serv[t] = "alive"
          /\ \/ \E s \in Entries : slot[s].service = t
             \/ pc[Net] = "assign" /\ cur[1] = t
    /\ \A t \in Txs :
          pc[t] \in {"read", "trunc", "write", "flag"} => slot[place[t]].service = t

\* A slot that is done has a service, and a slot with a service a policy id, but
\* for the moment between the assignments of the two.
Filled ==
    \A s \in Entries :
        /\ slot[s].done => slot[s].service # None
        /\ slot[s].service # None =>
              slot[s].id = "unset" \/ (pc[Net] = "fill" /\ index = s)

\* No record but the first is ever marked, and that one, in the copy of a thread
\* that waits, only if its own transaction is confirmed.
OnlyFirst(file) == \A i \in DOMAIN file : file[i].validated => i = 1
Earned(w)       == OnlyFirst(copy[w]) /\ (Verified(copy[w]) => Own(w) \in confirmed)

\* What is confirmed was stored; a thread's result, the way of a transaction that
\* was confirmed when it was stored, and the copy of an update say "confirmed"
\* only of a transaction that is.
Caused ==
    /\ \A t \in confirmed : Stored(t)
    /\ \A t \in Txs : result[t] => t \in confirmed
    /\ pc[Net] \in {"read", "trunc", "write"} => cur[1] \in confirmed
    /\ OnlyFirst(bill)
    /\ \A w \in Threads : Updating(w) => Earned(w)

\* The policies of the records of a file, and of what was paid.
Names(file) == [i \in DOMAIN file |-> file[i].id]
Owed        == [i \in DOMAIN paid |-> paid[i][2]]

\* The file, and every copy that is to be written to it, has all records, unless
\* the file is empty because somebody is about to write it.
Complete ==
    ~raced =>
        /\ \A w \in Threads : Updating(w) => Names(copy[w]) = Owed
        /\ \/ Names(bill) = Owed
           \/ bill = <<>> /\ \E w \in Threads : pc[w] = "write"

\* The inductive invariant of the payments.
IndInv == TypeOK /\ Progress /\ Tracked /\ Filled /\ Caused /\ Complete

\* transaction_store_transaction returns, although it joins threads while it
\* holds the mutex.
StoreReturns == (pc[Net] # "idle") ~> (pc[Net] = "idle" \/ ~alive)

\* Every transaction that is waited for is decided: its thread calls back and
\* ends, after the time-out at the latest.
WaitEnds == \A t \in Txs : Running(t) ~> (pc[t] = "ended" \/ ~alive)
=============================================================================
