------------------------------- MODULE Obdii --------------------------------
(***************************************************************************)
(* OBD-II sockets and queries: OBDIICommunication.c, in the processes that *)
(* talk to the car, and OBDIIDaemon.c, which holds the sockets they share. *)
(*                                                                         *)
(* A socket is private to a process or opened on its behalf by the daemon, *)
(* which counts the processes that use it and passes it to them: a         *)
(* response code and then the descriptor, in two datagrams.  All of them   *)
(* then share one open file description, called a socket here, with one    *)
(* queue of answers.  (flock, by which OBDIIPerformQuery means to exclude  *)
(* the others, is granted to the description and so to all of them; it is  *)
(* left out.)  A query waits a second for an answer and takes the first    *)
(* that is there.                                                          *)
(***************************************************************************)
EXTENDS ObdiiCodec, Sequences, SequencesExt

CONSTANTS
    Clients,        \* processes
    Params,         \* (interface, transfer id, receive id)
    NoParams,       \* none of them
    Commands,       \* commands that are asked
    MaxSockets,     \* bound: sockets opened
    MaxOpens,       \* bound: calls of OBDIIOpenSocket
    MaxQueries,     \* bound: queries
    MaxFaults       \* bound: interrupted calls, deaths, restarts of the daemon

ASSUME ObdiiAssumption ==
    /\ Commands \subseteq OBDIIMode1Commands \cup {OBDIIMode3Command}
    /\ {MaxSockets, MaxOpens, MaxQueries, MaxFaults} \subseteq Nat
    /\ IsFiniteSet(Clients)

VARIABLES
    (* The daemon *)
    conn,      \* obdiiSockets: socket and refcount; refcount 0: not in the list
    inbox,     \* requests that wait at the daemon's socket
    (* The processes *)
    pc,        \* where each one is
    sock,      \* its OBDIISocket: s, params, shared
    fds,       \* the sockets it has descriptors of
    box,       \* datagrams that wait at its daemonSocket
    lost,      \* its daemonSocket is connected to a daemon that is gone
    asked,     \* the command it waits for, and its number on the socket
    (* The kernel and the car *)
    bound,     \* what each socket was bound to
    ecu, rx,   \* per socket: commands the car has not answered, unread answers
    sent,      \* commands written to it
    given,     \* queries on it that were given up: timed out, or died
    opens,     \* calls of OBDIIOpenSocket so far
    result,    \* of the last step, if it ended a query: what was asked and returned
    (* Faults so far: calls a signal interrupted, deaths, daemon restarts *)
    interrupts, deaths, restarts

daemonVars == <<conn, inbox>>
callVars   == <<pc, sock, fds, box, lost, asked>>
carVars    == <<ecu, rx, sent, given>>
faultVars  == <<interrupts, deaths, restarts>>
vars == <<conn, inbox, pc, sock, fds, box, lost, asked, bound, ecu, rx, sent,
          given, opens, result, interrupts, deaths, restarts>>

Sockets == DOMAIN bound
MoreFaults == interrupts + deaths + restarts < MaxFaults

Code(code) == [code |-> code, fd |-> 0]
Fd(s)      == [code |-> "none", fd |-> s]

\* An OBDIISocket that is not open: what it holds is not looked at.
NoSocket  == [s |-> 0, p |-> NoParams, shared |-> FALSE]
NoCommand == Command(0, 0, 0)
NoConn   == [s |-> 0, refcount |-> 0]
NoResult == [asked |-> NoCommand, n |-> 0, got |-> NoCommand, m |-> 0, s |-> 0,
             shared |-> FALSE]

Init ==
    /\ conn = [p \in Params |-> NoConn]
    /\ inbox = <<>>
    /\ pc = [c \in Clients |-> "closed"]
    /\ sock = [c \in Clients |-> NoSocket]
    /\ fds = [c \in Clients |-> {}]
    /\ box = [c \in Clients |-> <<>>]
    /\ lost = [c \in Clients |-> FALSE]
    /\ asked = [c \in Clients |-> NoResult]
    /\ bound = <<>>
    /\ ecu = <<>> /\ rx = <<>> /\ sent = <<>> /\ given = <<>>
    /\ result = NoResult /\ opens = 0
    /\ interrupts = 0 /\ deaths = 0 /\ restarts = 0

\* Somebody has a descriptor of the socket, or one is on its way.
InUse(s) ==
    \/ \E p \in Params : conn[p].refcount > 0 /\ conn[p].s = s
    \/ \E c \in Clients : s \in fds[c] \/ \E i \in DOMAIN box[c] : box[c][i].fd = s

\* bind: "only a single process can bind to a particular (interface, transfer
\* ID, receive ID) tuple" (OBDIICommunication.h).
CanBind(p) ==
    /\ Len(bound) < MaxSockets
    /\ \A s \in Sockets : bound[s] = p => ~InUse(s)

\* socket and bind.
NewSocket(p) ==
    /\ bound' = Append(bound, p)
    /\ ecu'   = Append(ecu, <<>>)
    /\ rx'    = Append(rx, <<>>)
    /\ sent'  = Append(sent, 0)
    /\ given' = Append(given, 0)

\* The step does not end a query with an answer.
NoAnswer == result' = NoResult

SameSockets == UNCHANGED <<bound, ecu, rx, sent, given>>

-----------------------------------------------------------------------------
(* OBDIIOpenSocket and OBDIICloseSocket *)

OpenPrivate(c, p) ==
    /\ pc[c] = "closed"
    /\ CanBind(p)
    /\ opens < MaxOpens /\ opens' = opens + 1
    /\ NewSocket(p)
    /\ sock' = [sock EXCEPT ![c] = [s |-> Len(bound) + 1, p |-> p, shared |-> FALSE]]
    /\ fds' = [fds EXCEPT ![c] = @ \cup {Len(bound) + 1}]
    /\ pc' = [pc EXCEPT ![c] = "open"]
    /\ NoAnswer
    /\ UNCHANGED <<daemonVars, box, lost, asked, faultVars>>

\* requestRemoteSocket up to send.  What cannot be sent fails at once.
Request(c, open, p, next) ==
    /\ sock' = [sock EXCEPT ![c] = IF lost[c] THEN NoSocket
                                   ELSE [s |-> 0, p |-> p, shared |-> TRUE]]
    /\ pc' = [pc EXCEPT ![c] = IF lost[c] THEN "closed" ELSE next]
    /\ inbox' = IF lost[c] THEN inbox
                ELSE Append(inbox, [from |-> c, open |-> open, p |-> p])

OpenShared(c, p) ==
    /\ pc[c] = "closed"
    /\ ~lost[c] \* otherwise the call fails and nothing changes
    /\ opens < MaxOpens /\ opens' = opens + 1
    /\ Request(c, TRUE, p, "opening")
    /\ NoAnswer
    /\ UNCHANGED <<conn, fds, box, lost, asked, bound, ecu, rx, sent, given, faultVars>>

\* A shared socket is given back to the daemon; the process's own descriptor of
\* it stays open.
Close(c) ==
    /\ pc[c] = "open"
    /\ \/ /\ sock[c].shared
          /\ Request(c, FALSE, sock[c].p, "closing")
          /\ UNCHANGED fds
       \/ /\ ~sock[c].shared
          /\ pc' = [pc EXCEPT ![c] = "closed"]
          /\ sock' = [sock EXCEPT ![c] = NoSocket]
          /\ fds' = [fds EXCEPT ![c] = @ \ {sock[c].s}]
          /\ UNCHANGED inbox
    /\ NoAnswer
    /\ UNCHANGED <<opens, conn, box, lost, asked, bound, ecu, rx, sent, given, faultVars>>

\* recv of the response code.  A datagram that carries a descriptor has no
\* bytes: it is not a response code, and the descriptor is discarded.
ReceiveCode(c) ==
    /\ pc[c] \in {"opening", "closing"}
    /\ box[c] # <<>>
    /\ box' = [box EXCEPT ![c] = Tail(@)]
    /\ pc' = [pc EXCEPT ![c] = IF @ = "opening" /\ Head(box[c]).code = "success"
                               THEN "receiveFD" ELSE "closed"]
    /\ sock' = [sock EXCEPT ![c] = IF pc'[c] = "closed" THEN NoSocket ELSE @]
    /\ NoAnswer
    /\ UNCHANGED <<opens, daemonVars, fds, lost, asked, bound, carVars, faultVars>>

\* receiveFD.
ReceiveFD(c) ==
    /\ pc[c] = "receiveFD"
    /\ box[c] # <<>> /\ Head(box[c]).fd # 0
    /\ box' = [box EXCEPT ![c] = Tail(@)]
    /\ sock' = [sock EXCEPT ![c].s = Head(box[c]).fd]
    /\ fds' = [fds EXCEPT ![c] = @ \cup {Head(box[c]).fd}]
    /\ pc' = [pc EXCEPT ![c] = "open"]
    /\ NoAnswer
    /\ UNCHANGED <<opens, daemonVars, lost, asked, bound, carVars, faultVars>>

\* recv or recvmsg returns -1: the call fails, and its answer, if it was sent,
\* stays in the queue.
Interrupted(c) ==
    /\ MoreFaults
    /\ interrupts' = interrupts + 1
    /\ pc[c] \in {"opening", "receiveFD", "closing"}
    /\ pc' = [pc EXCEPT ![c] = "closed"]
    /\ sock' = [sock EXCEPT ![c] = NoSocket]
    /\ NoAnswer
    /\ UNCHANGED <<opens, daemonVars, fds, box, lost, asked, bound, carVars, deaths,
                   restarts>>

-----------------------------------------------------------------------------
(* OBDIIDaemon.c: main takes a request, handleSocketRequest answers it. *)

\* sendResponseCode and sendFD: a process that is gone gets nothing.
Answer(c, datagrams) ==
    box' = IF pc[c] = "dead" THEN box ELSE [box EXCEPT ![c] = @ \o datagrams]

\* Mutant: any connection will do.
AnyConnection(p) == {x \in Params : conn[x].refcount > 0}

socketConnectionMatchingParams(p) == {x \in Params : conn[x].refcount > 0 /\ x = p}

\* Mutant: the error is logged only.
OpenFailsSilently(c) == UNCHANGED box

OpenFails(c) == Answer(c, <<Code("open_error")>>)

HandleOpen ==
    /\ inbox # <<>> /\ Head(inbox).open
    /\ inbox' = Tail(inbox)
    /\ LET c == Head(inbox).from
           p == Head(inbox).p
           found == socketConnectionMatchingParams(p)
       IN  \/ \E x \in found :
                 /\ conn' = [conn EXCEPT ![x].refcount = @ + 1]
                 /\ Answer(c, <<Code("success"), Fd(conn[x].s)>>)
                 /\ SameSockets
           \/ /\ found = {}
              /\ CanBind(p)
              /\ NewSocket(p)
              /\ conn' = [conn EXCEPT ![p] = [s |-> Len(bound) + 1, refcount |-> 1]]
              /\ Answer(c, <<Code("success"), Fd(Len(bound) + 1)>>)
           \/ /\ found = {}
              /\ ~CanBind(p)
              /\ OpenFails(c)
              /\ SameSockets /\ UNCHANGED conn
    /\ NoAnswer
    /\ UNCHANGED <<opens, pc, sock, fds, lost, asked, faultVars>>

\* Mutant: the connection is taken off the list with the first close.
TearDown(p) == [conn EXCEPT ![p] = NoConn]

\* closeSocketConnection.
closeSocketConnection(p) ==
    [conn EXCEPT ![p] = IF @.refcount = 1 THEN NoConn
                        ELSE [s |-> @.s, refcount |-> @.refcount - 1]]

HandleClose ==
    /\ inbox # <<>> /\ ~Head(inbox).open
    /\ inbox' = Tail(inbox)
    /\ LET p == Head(inbox).p
       IN  \/ /\ socketConnectionMatchingParams(p) # {}
              /\ conn' = closeSocketConnection(p)
              /\ Answer(Head(inbox).from, <<Code("success")>>)
           \/ /\ socketConnectionMatchingParams(p) = {}
              /\ Answer(Head(inbox).from, <<Code("no_such_socket")>>)
              /\ UNCHANGED conn
    /\ SameSockets
    /\ NoAnswer
    /\ UNCHANGED <<opens, pc, sock, fds, lost, asked, faultVars>>

\* The daemon dies and is started again: it unlinks its socket's path, binds it
\* anew and has an empty list.  Requests that waited are gone.
DaemonRestart ==
    /\ MoreFaults
    /\ restarts' = restarts + 1
    /\ conn' = [p \in Params |-> NoConn]
    /\ inbox' = <<>>
    /\ lost' = [c \in Clients |-> TRUE]
    /\ NoAnswer
    /\ UNCHANGED <<opens, pc, sock, fds, box, asked, bound, carVars, interrupts, deaths>>

-----------------------------------------------------------------------------
(* OBDIIPerformQuery *)

\* The command is written.
Query(c, k) ==
    /\ pc[c] = "open"
    /\ LET s == sock[c].s
       IN  /\ FoldSeq(LAMBDA x, y : x + y, 0, sent) < MaxQueries
           /\ sent' = [sent EXCEPT ![s] = @ + 1]
           /\ ecu' = [ecu EXCEPT ![s] = Append(@, [cmd |-> k, n |-> sent[s] + 1])]
           /\ asked' = [asked EXCEPT ![c] =
                 [asked |-> k, n |-> sent[s] + 1, got |-> NoCommand, m |-> 0, s |-> s,
                  shared |-> sock[c].shared]]
    /\ pc' = [pc EXCEPT ![c] = "select"]
    /\ NoAnswer
    /\ UNCHANGED <<opens, daemonVars, sock, fds, box, lost, bound, rx, given, faultVars>>

\* select returns: there is an answer.
Select(c) ==
    /\ pc[c] = "select"
    /\ rx[sock[c].s] # <<>>
    /\ pc' = [pc EXCEPT ![c] = "read"]
    /\ NoAnswer
    /\ UNCHANGED <<opens, daemonVars, sock, fds, box, lost, asked, bound, carVars, faultVars>>

\* It returns 0 after a second.
Timeout(c) ==
    /\ pc[c] = "select"
    /\ rx[sock[c].s] = <<>>
    /\ pc' = [pc EXCEPT ![c] = "open"]
    /\ given' = [given EXCEPT ![sock[c].s] = @ + 1]
    /\ asked' = [asked EXCEPT ![c] = NoResult]
    /\ NoAnswer
    /\ UNCHANGED <<opens, daemonVars, sock, fds, box, lost, bound, ecu, rx, sent,
                   faultVars>>

\* Lengths an answer to command k may have.
Lengths(k) == IF k.len = VARIABLE_RESPONSE_LENGTH THEN {2, 4} ELSE {k.len}

\* Query q is over, with answer a.
Answered(q, a) ==
    [asked |-> q.asked, n |-> q.n, got |-> a.cmd, m |-> a.n, s |-> q.s, shared |-> q.shared]

\* Mutant: the answer is looked at and left in the queue.
ReadPeeks(c) ==
    /\ pc[c] = "read"
    /\ LET s == sock[c].s
           k == asked[c].asked
       IN  /\ rx[s] # <<>>
           /\ UNCHANGED rx
           /\ \E n \in Lengths(Head(rx[s]).cmd) :
                 result' = IF OBDIIResponseSuccessful(k, Head(rx[s]).cmd, ReadLength(k, n))
                           THEN Answered(asked[c], Head(rx[s]))
                           ELSE NoResult
    /\ pc' = [pc EXCEPT ![c] = "open"]
    /\ asked' = [asked EXCEPT ![c] = NoResult]
    /\ UNCHANGED <<opens, daemonVars, sock, fds, box, lost, bound, ecu, sent, given, faultVars>>

\* The first answer of the queue is read, and decoded if it is one to the
\* command.  read blocks while the queue is empty: another process may have
\* taken the answer that select saw.
Read(c) ==
    /\ pc[c] = "read"
    /\ LET s == sock[c].s
           k == asked[c].asked
       IN  /\ rx[s] # <<>>
           /\ rx' = [rx EXCEPT ![s] = Tail(@)]
           /\ \E n \in Lengths(Head(rx[s]).cmd) :
                 result' = IF OBDIIResponseSuccessful(k, Head(rx[s]).cmd, ReadLength(k, n))
                           THEN Answered(asked[c], Head(rx[s]))
                           ELSE NoResult
    /\ pc' = [pc EXCEPT ![c] = "open"]
    /\ asked' = [asked EXCEPT ![c] = NoResult]
    /\ UNCHANGED <<opens, daemonVars, sock, fds, box, lost, bound, ecu, sent, given, faultVars>>

\* The car (external) answers the commands of a socket in their order, at any
\* time, or does not answer one.
CarAnswers(s) ==
    /\ ecu[s] # <<>>
    /\ ecu' = [ecu EXCEPT ![s] = Tail(@)]
    /\ rx' = [rx EXCEPT ![s] = Append(@, Head(ecu[s]))]
    /\ NoAnswer
    /\ UNCHANGED <<opens, daemonVars, callVars, bound, sent, given, faultVars>>

CarIgnores(s) ==
    /\ ecu[s] # <<>>
    /\ ecu' = [ecu EXCEPT ![s] = Tail(@)]
    /\ NoAnswer
    /\ UNCHANGED <<opens, daemonVars, callVars, bound, rx, sent, given, faultVars>>

-----------------------------------------------------------------------------
(* The death of a process: by itself, or in receiveFD, which looks for a    *)
(* descriptor in a datagram that has none.                                  *)

Dies(c) ==
    /\ pc' = [pc EXCEPT ![c] = "dead"]
    /\ fds' = [fds EXCEPT ![c] = {}]
    /\ box' = [box EXCEPT ![c] = <<>>]
    /\ given' = IF pc[c] \in {"select", "read"}
                THEN [given EXCEPT ![sock[c].s] = @ + 1] ELSE given
    /\ asked' = [asked EXCEPT ![c] = NoResult]
    /\ sock' = [sock EXCEPT ![c] = NoSocket]
    /\ NoAnswer
    /\ UNCHANGED <<opens, daemonVars, lost, bound, ecu, rx, sent, interrupts, restarts>>

Death(c) ==
    /\ MoreFaults
    /\ pc[c] # "dead"
    /\ deaths' = deaths + 1
    /\ Dies(c)

NoDescriptor(c) ==
    /\ pc[c] = "receiveFD"
    /\ box[c] # <<>> /\ Head(box[c]).fd = 0
    /\ Dies(c)
    /\ UNCHANGED deaths

-----------------------------------------------------------------------------

Calls(c) ==
    \/ \E p \in Params : OpenPrivate(c, p) \/ OpenShared(c, p)
    \/ Close(c)
    \/ \E k \in Commands : Query(c, k)

Returns(c) ==
    \/ ReceiveCode(c) \/ ReceiveFD(c) \/ NoDescriptor(c)
    \/ Select(c) \/ Timeout(c) \/ Read(c)

Daemon == HandleOpen \/ HandleClose

Car(s) == CarAnswers(s) \/ CarIgnores(s)

Next ==
    \/ \E c \in Clients : Calls(c) \/ Returns(c) \/ Interrupted(c) \/ Death(c)
    \/ Daemon \/ DaemonRestart
    \/ \E s \in Sockets : Car(s)

Spec == Init /\ [][Next]_vars

-----------------------------------------------------------------------------
(* Properties *)

Requests  == [from : Clients, open : BOOLEAN, p : Params]
Sock      == [s : Nat, p : Params \cup {NoParams}, shared : BOOLEAN]
Datagrams == [code : {"none", "success", "open_error", "no_such_socket"}, fd : Nat]
Answers   == [cmd : Commands, n : Nat]
Results   == [asked : Commands \cup {NoCommand}, n : Nat, got : Commands \cup {NoCommand},
              m : Nat, s : Nat, shared : BOOLEAN]

\* Every variable has a value of its type.
TypeOK ==
    /\ conn \in [Params -> [s : Nat, refcount : Nat]]
    /\ inbox \in Seq(Requests)
    /\ pc \in [Clients -> {"closed", "opening", "receiveFD", "open", "closing",
                           "select", "read", "dead"}]
    /\ sock \in [Clients -> Sock]
    /\ fds \in [Clients -> SUBSET Nat]
    /\ box \in [Clients -> Seq(Datagrams)]
    /\ lost \in [Clients -> BOOLEAN]
    /\ asked \in [Clients -> Results]
    /\ bound \in Seq(Params) /\ Len(bound) <= MaxSockets
    /\ ecu \in Seq(Seq(Answers)) /\ Len(ecu) = Len(bound)
    /\ rx \in Seq(Seq(Answers)) /\ Len(rx) = Len(bound)
    /\ sent \in Seq(Nat) /\ Len(sent) = Len(bound)
    /\ given \in Seq(Nat) /\ Len(given) = Len(bound)
    /\ result \in Results /\ opens \in 0..MaxOpens
    /\ interrupts \in Nat /\ deaths \in Nat /\ restarts \in Nat

\* Process c uses the shared socket of p, as far as the daemon may know.
Holds(c, p) ==
    /\ sock[c].shared /\ sock[c].p = p
    /\ ~lost[c]
    /\ pc[c] \in {"receiveFD", "open", "select", "read"}

\* The refcount covers everybody: as long as no call was interrupted the daemon
\* keeps a connection in its list while a process uses it, whichever processes
\* die, and however the opens and closes of the others are ordered.
HeldIsListed ==
    interrupts = 0 =>
        \A p \in Params :
            Cardinality({c \in Clients : Holds(c, p)}) <= conn[p].refcount

\* The socket a process got from OBDIIOpenSocket is bound to what it asked for:
\* no answer of the daemon is taken for the answer to another request, unless a
\* call was interrupted before it.
SocketAsAsked ==
    interrupts = 0 =>
        \A c \in Clients : pc[c] \in {"open", "select", "read"} => bound[sock[c].s] = sock[c].p

\* A query that succeeds returns an answer to the command that was asked, also
\* when the process shares the socket with others or earlier answers came late.
\* On a socket that is not shared and that no query was given up on it is the
\* answer to this very query; every query that was given up makes the answers be
\* read one later.
AnswerAge ==
    /\ result.asked = result.got
    /\ result.s # 0 /\ ~result.shared => result.n - result.m <= given[result.s]

\* Nobody waits for ever: a process in OBDIIOpenSocket or OBDIICloseSocket, which
\* wait without a time-out, has its answer, or its request is still in front of
\* the daemon, unless the daemon was restarted; and on a private socket the read
\* after select does not block.
WaitsForAnswer ==
    \A c \in Clients :
        /\ ~lost[c] /\ pc[c] \in {"opening", "receiveFD", "closing"} =>
              box[c] # <<>> \/ \E i \in DOMAIN inbox : inbox[i].from = c
        /\ pc[c] = "read" /\ ~sock[c].shared => rx[sock[c].s] # <<>>

-----------------------------------------------------------------------------
(* Why these hold *)

\* c has a socket that only it uses.
Private(c) == sock[c].s # 0 /\ ~sock[c].shared

\* Every socket number names a socket that was opened; a process has one exactly
\* while its OBDIISocket is open, and asks the daemon for shared ones only.
Known ==
    /\ \A p \in Params : conn[p].s \in 0..Len(bound)
    /\ \A c \in Clients :
          /\ sock[c].s \in 0..Len(bound)
          /\ sock[c].s # 0 <=> pc[c] \in {"open", "select", "read"}
          /\ pc[c] \in {"opening", "receiveFD", "closing"} => sock[c].shared
          /\ sock[c].shared => sock[c].p \in Params
          /\ \A i \in DOMAIN box[c] : box[c][i].fd \in 0..Len(bound)

\* A connection in the daemon's list is bound to its parameters.
Listed == \A p \in Params : conn[p].refcount > 0 => conn[p].s # 0 /\ bound[conn[p].s] = p

\* A private socket is nobody else's, and none that the daemon knows or has sent.
PrivateAlone ==
    \A c \in Clients : Private(c) =>
        /\ \A d \in Clients \ {c} : sock[d].s # sock[c].s
        /\ \A p \in Params : conn[p].s # sock[c].s
        /\ \A d \in Clients : \A i \in DOMAIN box[d] : box[d][i].fd # sock[c].s

\* What a process waits for is what it has sent, on a private socket the last.
Awaited ==
    \A c \in Clients : pc[c] \in {"select", "read"} =>
        /\ asked[c].asked \in Commands
        /\ asked[c].s = sock[c].s /\ asked[c].shared = sock[c].shared
        /\ ~sock[c].shared => asked[c].n = sent[sock[c].s]

\* The numbers of commands or answers that wait ascend.
Ascending(q) == \A i, j \in DOMAIN q : i < j => q[i].n < q[j].n

\* The numbers in q are above n.
Above(q, n) == \A i \in DOMAIN q : q[i].n > n

\* The car keeps the order, and answers nothing that was not sent.
Ordered(answers, commands, n) ==
    /\ Ascending(answers) /\ Ascending(commands)
    /\ \A i \in DOMAIN answers : Above(commands, answers[i].n)
    /\ \A i \in DOMAIN answers : answers[i].n <= n
    /\ \A i \in DOMAIN commands : commands[i].n <= n

InOrder == \A s \in Sockets : Ordered(rx[s], ecu[s], sent[s])

\* The answers read from the private socket of c: one for every query that ended
\* and was not given up.
Taken(c) ==
    sent[sock[c].s] - given[sock[c].s] - (IF pc[c] = "open" THEN 0 ELSE 1)

\* As they are read in order, those that come later have higher numbers.
Unread ==
    \A c \in Clients :
        Private(c) => Above(rx[sock[c].s], Taken(c)) /\ Above(ecu[sock[c].s], Taken(c))

\* Select has seen an answer that nobody else can take.
ReadReady ==
    \A c \in Clients : pc[c] = "read" /\ ~sock[c].shared => rx[sock[c].s] # <<>>

\* A request to open is still in front of the daemon, or it was answered, in which
\* case a lone datagram is an error; other calls have something to wait for, too.
HasReply(c) ==
    ~lost[c] =>
        /\ pc[c] = "opening" =>
              \/ \E i \in DOMAIN inbox : inbox[i].from = c /\ inbox[i].open
              \/ box[c] # <<>> /\ (Len(box[c]) = 1 => box[c][1].code # "success")
        /\ pc[c] \in {"receiveFD", "closing"} =>
              \/ \E i \in DOMAIN inbox : inbox[i].from = c
              \/ box[c] # <<>>

Replied == \A c \in Clients : HasReply(c)

\* Without interrupted calls requests and answers alternate: a process has one
\* request in front of the daemon at most, which is the one it waits for unless it
\* is dead, and no answer then;
FromWaiting(r) ==
    LET c == r.from IN
    /\ ~lost[c] /\ box[c] = <<>>
    /\ \/ pc[c] = "dead"
       \/ /\ pc[c] = IF r.open THEN "opening" ELSE "closing"
          /\ r.p = sock[c].p

OneRequest ==
    interrupts = 0 =>
        /\ \A i, j \in DOMAIN inbox : inbox[i].from = inbox[j].from => i = j
        /\ \A i \in DOMAIN inbox : FromWaiting(inbox[i])

\* and the answers that wait are those to its last request, with a socket that is
\* bound to what it asked for.
AnswersFit(c) ==
    /\ pc[c] \in {"closed", "open", "select", "read", "dead"} => box[c] = <<>>
    /\ pc[c] = "opening" /\ box[c] # <<>> =>
          \/ Len(box[c]) = 1 /\ box[c][1].code # "success"
          \/ /\ Len(box[c]) = 2 /\ box[c][1].code = "success"
             /\ box[c][2].fd # 0 /\ bound[box[c][2].fd] = sock[c].p
    /\ pc[c] = "receiveFD" => /\ Len(box[c]) = 1 /\ box[c][1].fd # 0
                              /\ bound[box[c][1].fd] = sock[c].p
    /\ pc[c] = "closing" => Len(box[c]) <= 1

OneAnswer == interrupts = 0 => \A c \in Clients : AnswersFit(c)

\* The processes a refcount stands for: those that use the connection, those whose
\* open was granted, and those, dead or alive, whose close has not been handled.
Counts(c, p) ==
    \/ Holds(c, p)
    \/ /\ ~lost[c] /\ pc[c] = "opening" /\ sock[c].p = p
       /\ box[c] # <<>> /\ box[c][1].code = "success"
    \/ \E i \in DOMAIN inbox : inbox[i].from = c /\ ~inbox[i].open /\ inbox[i].p = p

Counted ==
    interrupts = 0 =>
        \A p \in Params : Cardinality({c \in Clients : Counts(c, p)}) <= conn[p].refcount

\* The inductive invariant of the OBD-II sockets: numbers and types, queries and
\* answers, calls of the daemon.
SocketInv == TypeOK /\ Known /\ Listed /\ PrivateAlone
QueryInv  == Awaited /\ InOrder /\ Unread /\ AnswerAge /\ ReadReady
CallInv   == Replied /\ OneRequest /\ OneAnswer /\ SocketAsAsked /\ Counted
IndInv    == SocketInv /\ QueryInv /\ CallInv
=============================================================================
