---------------------------- MODULE AccessServer ----------------------------
(***************************************************************************)
(* The life of the server: main.c, which brings the actors up and down,    *)
(* and the thread of network/network.c that serves the clients in between. *)
(* The policy loader appears as far as it matters here: a thread that may  *)
(* deliver a policy to the PAP as soon as it knows the address of the      *)
(* policy store.                                                           *)
(***************************************************************************)
EXTENDS Naturals, FiniteSets

CONSTANTS
    MaxClients,  \* bound: connections made
    Faults       \* what may go wrong: "wallet", "start", "auth", "receive"

ASSUME ServerAssumption ==
    /\ MaxClients \in Nat
    /\ Faults \subseteq {"wallet", "start", "auth", "receive"}

VARIABLES
    main,      \* the next call main makes
    running,   \* cleared by the handler of SIGINT
    pep, pap,  \* the SDK's enforcement and administration points
    wallet,    \* wallet_context
    updater,   \* policyupdater_init has read the address of the store
    loader,    \* the policy loader's thread
    delivered, \* what became of the policies the loader delivered
    ctx,       \* the network context: allocated, freed
    end,       \* ctx->end
    state,     \* ctx->state
    net,       \* where the network thread is
    recv,      \* recv_data: "null", "heap", "freed", or ctx->send_buffer
    request,   \* the command received
    decision,  \* what pep_request_access wrote into decision[]
    reply,     \* what was sent to the client of this connection
    waiting,   \* connections in the backlog
    clients, answered,  \* connections made, and answered before their close
    leaked     \* received messages that nobody has freed

mainVars == <<main, running, pep, pap, wallet, updater, loader, delivered>>
connVars == <<recv, request, decision, reply, leaked>>
netVars  == <<end, state, net, waiting, clients, answered>>
vars     == <<main, running, pep, pap, wallet, updater, loader, delivered, ctx,
              end, state, net, recv, request, decision, reply, waiting, clients,
              answered, leaked>>

Commands  == {"resolve", "polList", "enable", "setDataset", "other", "invalid"}
Decisions == {"grant", "deny", "none"}
Starting  == {"loaderStart", "accessInit", "walletInit", "plugins", "netInit",
              "netStart"}
Stopping  == {"netStop", "accessTerm", "loaderStop", "walletDestroy"}

Init ==
    /\ main = "loaderStart" /\ running = TRUE
    /\ pep = "none" /\ pap = "none" /\ wallet = "none"
    /\ updater = FALSE /\ loader = "none" /\ delivered = "none"
    /\ ctx = "none" /\ end = FALSE /\ state = 0 /\ net = "none"
    /\ recv = "null" /\ request = "invalid" /\ decision = "none"
    /\ reply = "none" /\ waiting = 0 /\ clients = 0 /\ answered = 0 /\ leaked = 0

\* The process is dead: no thread takes a step any more.
Alive == main \notin {"exit", "crashed"}

-----------------------------------------------------------------------------
(* main: bringing the actors up *)

LoaderStart ==
    /\ main = "loaderStart"
    /\ loader' = "running"
    /\ main' = "accessInit"
    /\ UNCHANGED <<running, pep, pap, wallet, updater, delivered, ctx, netVars,
                   connVars>>

AccessInit ==
    /\ main = "accessInit"
    /\ pep' = "ready"
    /\ main' = "walletInit"
    /\ UNCHANGED <<running, pap, wallet, updater, loader, delivered, ctx, netVars,
                   connVars>>

\* A wallet that cannot be created is reported, and that is all.
WalletInit ==
    /\ main = "walletInit"
    /\ \/ wallet' = "alive"
       \/ "wallet" \in Faults /\ UNCHANGED wallet
    /\ main' = "plugins"
    /\ UNCHANGED <<running, pep, pap, updater, loader, delivered, ctx, netVars,
                   connVars>>

\* Mutant: network_init comes before the plugins are registered.
PluginsLate ==
    /\ main = "plugins"
    /\ updater' = TRUE
    /\ main' = "netInit"
    /\ UNCHANGED <<running, pep, pap, wallet, loader, delivered, ctx, netVars,
                   connVars>>

Plugins ==
    /\ main = "plugins"
    /\ pap' = "ready"
    /\ main' = "netInit"
    /\ UNCHANGED <<running, pep, wallet, updater, loader, delivered, ctx, netVars,
                   connVars>>

\* network_init, which also gives the updater its address.
NetInit ==
    /\ main = "netInit"
    /\ ctx' = "alive"
    /\ end' = FALSE /\ state' = 0
    /\ updater' = TRUE
    /\ main' = "netStart"
    /\ UNCHANGED <<running, pep, pap, wallet, loader, delivered, net, waiting,
                   clients, answered, connVars>>

\* access_start, which starts the PIP plugins (main registers none), and then
\* network_start.
NetStart ==
    /\ main = "netStart"
    /\ net' = "select"
    /\ main' = "run"
    /\ UNCHANGED <<running, pep, pap, wallet, updater, loader, delivered, ctx, end,
                   state, waiting, clients, answered, connVars>>

\* bind, listen or pthread_create fails: the context is freed, but main keeps
\* its pointer to it.
NetStartFails ==
    /\ main = "netStart"
    /\ "start" \in Faults
    /\ ctx' = "freed"
    /\ running' = FALSE
    /\ main' = "run"
    /\ UNCHANGED <<pep, pap, wallet, updater, loader, delivered, netVars, connVars>>

-----------------------------------------------------------------------------
(* main: the end *)

Interrupt ==
    /\ Alive /\ running
    /\ running' = FALSE
    /\ UNCHANGED <<main, pep, pap, wallet, updater, loader, delivered, ctx, netVars,
                   connVars>>

RunEnds ==
    /\ main = "run" /\ ~running
    /\ main' = "netStop"
    /\ UNCHANGED <<running, pep, pap, wallet, updater, loader, delivered, ctx,
                   netVars, connVars>>

\* Mutant: the flag is not set.
NetStopForgets ==
    /\ main = "netStop" /\ ctx = "alive" /\ ~end
    /\ UNCHANGED vars

\* network_stop, up to the join.
NetStop ==
    /\ main = "netStop" /\ ctx = "alive" /\ ~end
    /\ end' = TRUE
    /\ UNCHANGED <<mainVars, ctx, state, net, waiting, clients, answered, connVars>>

\* Mutant: the thread is not joined.
NetJoinSkipped ==
    /\ main = "netStop" /\ ctx = "alive" /\ end
    /\ ctx' = "freed"
    /\ main' = "accessTerm"
    /\ UNCHANGED <<running, pep, pap, wallet, updater, loader, delivered, netVars,
                   connVars>>

NetJoin ==
    /\ main = "netStop" /\ ctx = "alive" /\ end /\ net = "ended"
    /\ ctx' = "freed"
    /\ main' = "accessTerm"
    /\ UNCHANGED <<running, pep, pap, wallet, updater, loader, delivered, netVars,
                   connVars>>

\* network_stop on a context that network_start has freed: a thread id that was
\* never set is joined and the context freed again.
NetStopFreed ==
    /\ main = "netStop" /\ ctx = "freed"
    /\ main' \in {"crashed", "accessTerm"}
    /\ UNCHANGED <<running, pep, pap, wallet, updater, loader, delivered, ctx,
                   netVars, connVars>>

\* pip_term and pep_term; the PAP is never terminated.
AccessTerm ==
    /\ main = "accessTerm"
    /\ pep' = "gone"
    /\ main' = "loaderStop"
    /\ UNCHANGED <<running, pap, wallet, updater, loader, delivered, ctx, netVars,
                   connVars>>

\* policyloader_stop: g_end is set and the thread joined.
LoaderStop ==
    /\ main = "loaderStop"
    /\ loader' = "ended"
    /\ main' = "walletDestroy"
    /\ UNCHANGED <<running, pep, pap, wallet, updater, delivered, ctx, netVars,
                   connVars>>

WalletDestroy ==
    /\ main = "walletDestroy"
    /\ wallet' = "gone"
    /\ main' = "exit"
    /\ UNCHANGED <<running, pep, pap, updater, loader, delivered, ctx, netVars,
                   connVars>>

\* The loader has fetched a policy and gives it to the PAP.  Before
\* policyupdater_init it has no address to fetch from.
LoaderDelivers ==
    /\ Alive /\ loader = "running" /\ updater
    /\ delivered' = IF pap = "ready" THEN "kept" ELSE "lost"
    /\ UNCHANGED <<main, running, pep, pap, wallet, updater, loader, ctx, netVars,
                   connVars>>

-----------------------------------------------------------------------------
(* network_thread_function *)

Connect ==
    /\ Alive /\ net \notin {"none", "ended"}
    /\ clients < MaxClients
    /\ clients' = clients + 1
    /\ waiting' = waiting + 1
    /\ UNCHANGED <<mainVars, ctx, end, state, net, answered, connVars>>

ThreadEnds ==
    /\ Alive /\ net = "select" /\ end
    /\ net' = "ended"
    /\ UNCHANGED <<mainVars, ctx, end, state, waiting, clients, answered, connVars>>

\* select, accept; a connection met in another state than 0 is closed unserved.
Accept ==
    /\ Alive /\ net = "select" /\ ~end
    /\ waiting > 0
    /\ waiting' = waiting - 1
    /\ recv' = "null" /\ reply' = "none" /\ decision' = "none"
    /\ state' = 1
    /\ net' = IF state = 0 THEN "auth" ELSE "close"
    /\ UNCHANGED <<mainVars, ctx, end, clients, answered, request, leaked>>

Authenticated ==
    /\ Alive /\ net = "auth"
    /\ net' = "receive"
    /\ UNCHANGED <<mainVars, ctx, end, state, waiting, clients, answered, connVars>>

AuthFails ==
    /\ Alive /\ net = "auth"
    /\ "auth" \in Faults
    /\ reply' = "authFailed"
    /\ net' = "release"
    /\ UNCHANGED <<mainVars, ctx, end, state, waiting, clients, answered, recv,
                   request, decision, leaked>>

Receive(command) ==
    /\ Alive /\ net = "receive"
    /\ recv' = "heap"
    /\ request' = command
    /\ net' = "handle"
    /\ UNCHANGED <<mainVars, ctx, end, state, waiting, clients, answered, decision,
                   reply, leaked>>

\* auth_receive fails, which nobody looks at: recv_data is NULL and jsonhelper
\* and memset are called with it.
ReceiveFails ==
    /\ Alive /\ net = "receive"
    /\ "receive" \in Faults
    /\ main' = "crashed"
    /\ UNCHANGED <<running, pep, pap, wallet, updater, loader, delivered, ctx,
                   netVars, connVars>>

\* COMMAND_RESOLVE: the client is told "access granted" when memcmp finds
\* decision[] to differ from "grant".
Resolve(d) ==
    /\ Alive /\ net = "handle" /\ request = "resolve"
    /\ decision' = d
    /\ reply' = IF d # "grant" THEN "accessGranted" ELSE "accessDenied"
    /\ recv' = "buffer"
    /\ net' = "send"
    /\ UNCHANGED <<mainVars, ctx, end, state, waiting, clients, answered, request,
                   leaked>>

\* COMMAND_GET_POL_LIST: the message is freed and send_buffer takes its place.
PolList ==
    /\ Alive /\ net = "handle" /\ request = "polList"
    /\ reply' = "data"
    /\ recv' = "buffer"
    /\ net' = "send"
    /\ UNCHANGED <<mainVars, ctx, end, state, waiting, clients, answered, request,
                   decision, leaked>>

\* COMMAND_ENABLE_POLICY, whose body is compiled out: nothing is answered.
EnablePolicy ==
    /\ Alive /\ net = "handle" /\ request = "enable"
    /\ reply' = "empty"
    /\ leaked' = leaked + 1
    /\ net' = "send"
    /\ UNCHANGED <<mainVars, ctx, end, state, waiting, clients, answered, recv,
                   request, decision>>

\* COMMAND_SET_DATASET, with or without an array of names; the users' commands
\* and GET_DATASET; a message with no known command.  recv_data is replaced
\* and the message it pointed to is never freed.
Handle ==
    /\ Alive /\ net = "handle"
    /\ \/ request = "setDataset" /\ reply' \in {"accessGranted", "accessDenied"}
       \/ request = "other" /\ reply' = "data"
       \/ request = "invalid" /\ reply' = "accessDenied"
    /\ recv' = "buffer"
    /\ leaked' = leaked + 1
    /\ net' = "send"
    /\ UNCHANGED <<mainVars, ctx, end, state, waiting, clients, answered, request,
                   decision>>

Send ==
    /\ Alive /\ net = "send"
    /\ net' = "release"
    /\ UNCHANGED <<mainVars, ctx, end, state, waiting, clients, answered, connVars>>

\* Mutant: state is reset after an authenticated session only.
ReleaseServed ==
    /\ Alive /\ net = "release"
    /\ state' = IF reply = "authFailed" THEN 1 ELSE 0
    /\ net' = "close"
    /\ UNCHANGED <<mainVars, ctx, end, waiting, clients, answered, connVars>>

\* ctx->state = 0, auth_release, and the loop that waits for state to be 0.
Release ==
    /\ Alive /\ net = "release"
    /\ state' = 0
    /\ net' = "close"
    /\ UNCHANGED <<mainVars, ctx, end, waiting, clients, answered, connVars>>

Close ==
    /\ Alive /\ net = "close"
    /\ answered' = IF reply = "none" THEN answered ELSE answered + 1
    /\ net' = "select"
    /\ UNCHANGED <<mainVars, ctx, end, state, waiting, clients, connVars>>

-----------------------------------------------------------------------------

Main ==
    \/ LoaderStart \/ AccessInit \/ WalletInit \/ Plugins \/ NetInit \/ NetStart
    \/ NetStartFails \/ RunEnds \/ NetStop \/ NetJoin \/ NetStopFreed
    \/ AccessTerm \/ LoaderStop \/ WalletDestroy

Network ==
    \/ ThreadEnds \/ Accept \/ Authenticated \/ AuthFails \/ ReceiveFails
    \/ \E c \in Commands : Receive(c)
    \/ \E d \in Decisions : Resolve(d)
    \/ PolList \/ EnablePolicy \/ Handle \/ Send \/ Release \/ Close

Next == Main \/ Network \/ Interrupt \/ LoaderDelivers \/ Connect

Spec == Init /\ [][Next]_vars

\* main and the network thread are scheduled; a client that has connected
\* answers or disconnects, so that no call of the session blocks for ever.
FairSpec == Spec /\ WF_vars(Main) /\ WF_vars(Network)

-----------------------------------------------------------------------------
(* Properties *)

\* Every variable has a value of its type; one message at most is lost per
\* connection.
TypeOK ==
    /\ main \in Starting \cup {"run", "exit", "crashed"} \cup Stopping
    /\ running \in BOOLEAN /\ updater \in BOOLEAN /\ end \in BOOLEAN
    /\ pep \in {"none", "ready", "gone"} /\ pap \in {"none", "ready"}
    /\ wallet \in {"none", "alive", "gone"}
    /\ loader \in {"none", "running", "ended"}
    /\ delivered \in {"none", "kept", "lost"}
    /\ ctx \in {"none", "alive", "freed"} /\ state \in 0..1
    /\ net \in {"none", "select", "auth", "receive", "handle", "send", "release",
                "close", "ended"}
    /\ recv \in {"null", "heap", "freed", "buffer"}
    /\ request \in Commands /\ decision \in Decisions
    /\ reply \in {"none", "empty", "data", "accessGranted", "accessDenied",
                  "authFailed"}
    /\ clients \in 0..MaxClients /\ waiting \in 0..clients
    /\ answered \in 0..clients /\ leaked \in 0..clients

\* Although the loader is started before everything else and stopped after the
\* PEP is gone, no policy it delivers meets a server without a PAP plugin.
NothingLost == delivered # "lost"

\* What the network thread uses is there: while it runs, its context is allocated
\* and the PEP it asks is up, because network_stop joins before it frees and main
\* stops the network before it terminates the PEP; and what it sends to a client
\* is memory it still owns, whichever way calculate_decision has left recv_data.
ServedAlive ==
    Alive /\ net \notin {"none", "ended"} =>
        /\ ctx = "alive" /\ pep = "ready"
        /\ net = "send" => recv \in {"heap", "buffer"}

\* The network thread is serving a connection.
InSession == net \in {"auth", "receive", "handle", "send", "release", "close"}

\* Every connection made is in the backlog, being served or answered: none is
\* closed unserved, because whatever a session was about it leaves the thread in
\* the state to serve the next; and no more messages are leaked than requests
\* were handled.
Accounted ==
    /\ clients = waiting + answered + (IF InSession THEN 1 ELSE 0)
    /\ leaked + (IF net \in {"auth", "receive", "handle"} THEN 1 ELSE 0) <= clients - waiting

\* Why these hold, main: the PAP is there before the updater has an address; the
\* PEP is up from access_init to access_term; there is a network thread only
\* between network_start and the join in network_stop.
InOrder ==
    /\ updater \/ main = "netInit" => pap = "ready"
    /\ main \in {"walletInit", "plugins", "netInit", "netStart", "run", "netStop"}
          => pep = "ready"
    /\ main \in Starting => net = "none"
    /\ main = "netStart" => ctx = "alive"
    /\ net \notin {"none", "ended"} =>
          ctx = "alive" /\ pep = "ready" /\ main \in {"run", "netStop", "crashed"}

\* The same for the network thread: what the steps of a session leave to the next.
InTurn ==
    /\ net \in {"none", "select", "ended"} => state = 0
    /\ net = "handle" => recv = "heap"
    /\ net = "send" => recv \in {"heap", "buffer"}
    /\ net \in {"send", "release", "close"} => reply # "none"
    /\ net = "close" => state = 0

\* The inductive invariant of the server.
IndInv == TypeOK /\ NothingLost /\ Accounted /\ InOrder /\ InTurn

\* Clients in the backlog are all answered unless the server is stopped or dies
\* of a request it could not receive: a failed authentication, or a request of
\* any kind, leaves the thread in the state to serve the next.
AllAnswered == (waiting > 0) ~> (answered = clients \/ ~running \/ ~Alive)

\* An interrupt at any moment, during the start as well, ends in an exit of main
\* with every thread stopped, unless the process dies before that.
Exits ==
    (~running) ~> \/ main = "exit" /\ net \in {"none", "ended"} /\ loader = "ended"
                  \/ main = "crashed"

\* docs/06-policy-specs.md:106 "true for exactly those requests that will be
\* granted": a client is told that access is granted when the decision was
\* "grant".
GrantedMeansGrant ==
    net = "send" /\ request = "resolve"
        => (reply = "accessGranted" <=> decision = "grant")
=============================================================================
