--------------------------- MODULE BalanceService ---------------------------
(***************************************************************************)
(* The balance monitor of the wallet, wallet/wallet.c: a thread that polls *)
(* the balance of an address until it has grown by a threshold, until it   *)
(* is told to stop or until the node cannot be asked, and then calls back. *)
(*                                                                         *)
(* The thread and its owner share the struct balance_service_t.  stop      *)
(* writes status under a mutex which the thread never takes, so the two    *)
(* meet at the single reads and writes of status below.  Balances are      *)
(* uint64_t; Modulus stands for 2^64.                                      *)
(***************************************************************************)
EXTENDS Naturals, Sequences

CONSTANTS
    Modulus,     \* 2^w, the number of values of a balance
    Threshold,   \* serv->threshold
    MaxFailures  \* bound: failing queries

ASSUME BalanceAssumption ==
    /\ Modulus \in Nat \ {0}
    /\ Threshold \in Nat
    /\ MaxFailures \in Nat

VARIABLES
    ledger,    \* the balance of the address on the Tangle
    pc,        \* where the thread is
    status,    \* serv->status: 0 init, 1 running, 2 stopping
    current,   \* serv->current_balance
    old,       \* old_balance
    reports,   \* the calls of serv->cb, as <<start, end>>
    owner,     \* what the owner of the service has done
    failures,  \* queries that have failed
    fell       \* history: the balance has gone down

vars == <<ledger, pc, status, current, old, reports, owner, failures, fell>>

Balances == 0..(Modulus - 1)

\* a - b on unsigned integers
Minus(a, b) == IF a >= b THEN a - b ELSE (a + Modulus) - b

Init ==
    /\ ledger \in Balances
    /\ pc = "none"
    /\ status = 0
    /\ current = 0
    /\ old = 0
    /\ reports = <<>>
    /\ owner = "none"
    /\ failures = 0
    /\ fell = FALSE

-----------------------------------------------------------------------------
(* The Tangle *)

Transfer ==
    /\ ledger' \in Balances \ {ledger}
    /\ fell' = (fell \/ ledger' < ledger)
    /\ UNCHANGED <<pc, status, current, old, reports, owner, failures>>

-----------------------------------------------------------------------------
(* The owner: start, stop, then join and free *)

Start ==
    /\ owner = "none"
    /\ owner' = "started"
    /\ pc' = "first"
    /\ UNCHANGED <<ledger, status, current, old, reports, failures, fell>>

Stop ==
    /\ owner = "started"
    /\ owner' = "stopped"
    /\ status' = 2
    /\ UNCHANGED <<ledger, pc, current, old, reports, failures, fell>>

JoinAndFree ==
    /\ owner = "stopped" /\ pc \in {"ended", "failed"}
    /\ owner' = "freed"
    /\ UNCHANGED <<ledger, pc, status, current, old, reports, failures, fell>>

-----------------------------------------------------------------------------
(* The thread, balance_service *)

QueryFails(to) ==
    /\ failures < MaxFailures
    /\ failures' = failures + 1
    /\ pc' = to
    /\ UNCHANGED <<ledger, status, current, old, reports, owner, fell>>

\* The first wallet_check_balance.  When it fails nobody is called back.
First ==
    /\ pc = "first"
    /\ current' = ledger
    /\ old' = ledger
    /\ pc' = "mark"
    /\ UNCHANGED <<ledger, status, reports, owner, failures, fell>>

FirstFails == pc = "first" /\ QueryFails("failed")

\* serv->status = 1, whatever it was: a stop that came before is lost.
Mark ==
    /\ pc = "mark"
    /\ status' = 1
    /\ pc' = "test"
    /\ UNCHANGED <<ledger, current, old, reports, owner, failures, fell>>

\* Mutant: the loop ends one short of the threshold.
TestOneShort ==
    /\ pc = "test"
    /\ pc' = IF Minus(current, old) + 1 < Threshold THEN "awake" ELSE "notify"
    /\ UNCHANGED <<ledger, status, current, old, reports, owner, failures, fell>>

\* Mutant: <= for <.
TestAtMost ==
    /\ pc = "test"
    /\ pc' = IF Minus(current, old) <= Threshold THEN "awake" ELSE "notify"
    /\ UNCHANGED <<ledger, status, current, old, reports, owner, failures, fell>>

\* while ((current_balance - old_balance) < threshold), then sleep.
Test ==
    /\ pc = "test"
    /\ pc' = IF Minus(current, old) < Threshold THEN "awake" ELSE "notify"
    /\ UNCHANGED <<ledger, status, current, old, reports, owner, failures, fell>>

\* Mutant: a stopped thread returns without the callback.
AwakeReturns ==
    /\ pc = "awake"
    /\ pc' = IF status = 2 THEN "ended" ELSE "query"
    /\ UNCHANGED <<ledger, status, current, old, reports, owner, failures, fell>>

\* After the sleep: if (status == 2) break.
Awake ==
    /\ pc = "awake"
    /\ pc' = IF status = 2 THEN "notify" ELSE "query"
    /\ UNCHANGED <<ledger, status, current, old, reports, owner, failures, fell>>

Query ==
    /\ pc = "query"
    /\ current' = ledger
    /\ pc' = "test"
    /\ UNCHANGED <<ledger, status, old, reports, owner, failures, fell>>

QueryBreaks == pc = "query" /\ QueryFails("notify")

Notify ==
    /\ pc = "notify"
    /\ reports' = Append(reports, <<old, current>>)
    /\ pc' = "ended"
    /\ UNCHANGED <<ledger, status, current, old, owner, failures, fell>>

-----------------------------------------------------------------------------

Owner  == Start \/ Stop \/ JoinAndFree
Thread == \/ First \/ FirstFails \/ Mark \/ Test \/ Awake \/ Query
          \/ QueryBreaks \/ Notify

Next == Transfer \/ Owner \/ Thread

Spec == Init /\ [][Next]_vars

\* The thread is scheduled and its sleeps and queries end.
FairSpec == Spec /\ WF_vars(Thread)

-----------------------------------------------------------------------------
(* Properties *)

\* Every variable has a value of its type; the callback is called at most once.
TypeOK ==
    /\ ledger \in Balances
    /\ pc \in {"none", "first", "mark", "test", "awake", "query", "notify",
              "ended", "failed"}
    /\ status \in 0..2
    /\ current \in Balances
    /\ old \in Balances
    /\ reports \in Seq(Balances \X Balances) /\ Len(reports) <= 1
    /\ owner \in {"none", "started", "stopped", "freed"}
    /\ failures \in 0..MaxFailures
    /\ fell \in BOOLEAN

\* wallet.h:178 "the service will stop and notify by callback when the balance
\* satisfies the threshold": a service that calls back although it was not
\* stopped and no query failed has seen the balance grow by the threshold.
NotifyMeansThreshold ==
    reports # <<>> /\ owner = "started" /\ failures = 0
        => reports[1][1] + Threshold <= reports[1][2]

\* The same, as long as the balance has never gone down: the unsigned difference
\* of balance_service is then the growth of the balance.
GrowthNoticed == ~fell => NotifyMeansThreshold

\* Why GrowthNoticed holds: what was seen never exceeds the ledger, and the loop
\* is left only for a reason.
SeenGrows ==
    /\ pc \notin {"none", "first", "failed"} /\ ~fell
          => old <= current /\ current <= ledger
    /\ pc = "notify" /\ owner = "started" /\ failures = 0
          => Threshold <= Minus(current, old)
    /\ status = 2 => owner \in {"stopped", "freed"}
    /\ owner = "none" => pc = "none"
    /\ reports # <<>> => pc = "ended"

\* The inductive invariant of the service.
IndInv == TypeOK /\ SeenGrows /\ GrowthNoticed

\* A stop that reaches a service which has marked itself running is answered by
\* the callback, however the balance develops and although a query may fail.
StopHonoured ==
    (owner = "stopped" /\ status = 2 /\ pc \notin {"first", "mark", "failed"})
        ~> (reports # <<>>)

\* A service that got its first balance calls back once the balance has grown by
\* the threshold for good.
PaymentNoticed ==
    <>[](pc \notin {"none", "first", "failed"} /\ ledger >= old + Threshold)
        => <>(reports # <<>>)
=============================================================================
