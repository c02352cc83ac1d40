----------------------------- MODULE ObdiiProofs -----------------------------
(***************************************************************************)
(* Proofs about the OBD-II sockets, for any number of processes, sockets,  *)
(* queries and faults.                                                     *)
(***************************************************************************)
EXTENDS Obdii, SequenceTheorems, FiniteSetTheorems, TLAPS

(* Queues *)

\* The queue without its first element.
LEMMA TailOf ==
    ASSUME NEW S, NEW q \in Seq(S), q # <<>>
    PROVE  /\ Len(q) \in Nat \ {0} /\ DOMAIN q = 1..Len(q)
           /\ Head(q) = q[1] /\ q[1] \in S
           /\ Tail(q) \in Seq(S) /\ Len(Tail(q)) = Len(q) - 1
           /\ DOMAIN Tail(q) = 1..(Len(q) - 1)
           /\ \A i \in 1..(Len(q) - 1) : Tail(q)[i] = q[i + 1]
           /\ Len(q) = 1 => Tail(q) = <<>>
<1>1. Len(q) \in Nat \ {0} /\ DOMAIN q = 1..Len(q) /\ Head(q) = q[1]
  OBVIOUS
<1>2. q[1] \in S
  BY <1>1, ElementOfSeq
<1>3. /\ Tail(q) \in Seq(S) /\ Len(Tail(q)) = Len(q) - 1
      /\ \A i \in 1..Len(Tail(q)) : Tail(q)[i] = q[i + 1]
  BY HeadTailProperties
<1>4. DOMAIN Tail(q) = 1..(Len(q) - 1)
  BY <1>3, LenProperties
<1>5. Len(q) = 1 => Tail(q) = <<>>
  <2>1. Tail(q) # <<>> => Len(Tail(q)) \in Nat \ {0}
    BY <1>3, EmptySeq, Zenon
  <2> QED
    BY <1>3, <2>1
<1> QED
  BY <1>1, <1>2, <1>3, <1>4, <1>5

\* The numbers are numbers.
LEMMA NumbersOf ==
    ASSUME NEW q \in Seq(Answers)
    PROVE  \A i \in DOMAIN q : q[i] \in Answers /\ q[i].n \in Nat /\ q[i].cmd \in Commands
<1>1. \A i \in DOMAIN q : q[i] \in Answers
  BY ElementOfSeq, LenProperties
<1> QED
  BY <1>1 DEF Answers

\* The queue with one element more.
LEMMA AppendOf ==
    ASSUME NEW S, NEW q \in Seq(S), NEW a \in S
    PROVE  /\ Len(q) \in Nat /\ DOMAIN q = 1..Len(q)
           /\ Append(q, a) \in Seq(S) /\ Len(Append(q, a)) = Len(q) + 1
           /\ DOMAIN Append(q, a) = 1..(Len(q) + 1)
           /\ \A i \in 1..Len(q) : Append(q, a)[i] = q[i]
           /\ Append(q, a)[Len(q) + 1] = a
BY AppendProperties

\* The first element has the lowest number.
LEMMA AscendingTail ==
    ASSUME NEW q \in Seq(Answers), q # <<>>, Ascending(q)
    PROVE  Ascending(Tail(q)) /\ Above(Tail(q), q[1].n)
<1>1. /\ Len(q) \in Nat \ {0} /\ DOMAIN q = 1..Len(q)
      /\ DOMAIN Tail(q) = 1..(Len(q) - 1)
      /\ \A i \in 1..(Len(q) - 1) : Tail(q)[i] = q[i + 1]
  BY TailOf
<1>2. \A i \in 1..Len(q) : q[i].n \in Nat
  BY <1>1, NumbersOf
<1> QED
  BY <1>1, <1>2 DEF Ascending, Above

\* Nothing below the first element is below the others.
LEMMA AboveTail ==
    ASSUME NEW q \in Seq(Answers), q # <<>>, NEW n, Above(q, n)
    PROVE  Above(Tail(q), n) /\ q[1].n > n
BY TailOf DEF Above

\* A higher number at the end.
LEMMA AscendingAppend ==
    ASSUME NEW q \in Seq(Answers), NEW a \in Answers, Ascending(q),
           \A i \in DOMAIN q : q[i].n < a.n
    PROVE  Ascending(Append(q, a))
BY AppendOf DEF Ascending, Answers

\* An element more, above the same number.
LEMMA AboveAppend ==
    ASSUME NEW q \in Seq(Answers), NEW a \in Answers, NEW n, Above(q, n), a.n > n
    PROVE  Above(Append(q, a), n)
BY AppendOf DEF Above

\* The car answers the first command.
LEMMA OrderedAnswer ==
    ASSUME NEW r \in Seq(Answers), NEW e \in Seq(Answers), NEW n \in Nat, e # <<>>,
           Ordered(r, e, n)
    PROVE  Ordered(Append(r, e[1]), Tail(e), n)
<1>1. e[1] \in Answers /\ 1 \in DOMAIN e
  BY TailOf
<1>2. \A i \in DOMAIN r : r[i].n < e[1].n
  BY <1>1 DEF Ordered, Above, Answers
<1>3. Ascending(Append(r, e[1]))
  BY <1>1, <1>2, AscendingAppend DEF Ordered
<1>4. Ascending(Tail(e)) /\ Above(Tail(e), e[1].n)
  BY AscendingTail DEF Ordered
<1>5. \A i \in DOMAIN r : Above(Tail(e), r[i].n)
  BY AboveTail DEF Ordered
<1>6. /\ DOMAIN Append(r, e[1]) = 1..(Len(r) + 1) /\ DOMAIN r = 1..Len(r) /\ Len(r) \in Nat
      /\ \A i \in 1..Len(r) : Append(r, e[1])[i] = r[i]
      /\ Append(r, e[1])[Len(r) + 1] = e[1]
  BY <1>1, AppendOf
<1>7. \A i \in DOMAIN Append(r, e[1]) : i \in DOMAIN r \/ i = Len(r) + 1
  BY <1>6
<1>8. \A i \in DOMAIN Append(r, e[1]) : Above(Tail(e), Append(r, e[1])[i].n)
  BY <1>4, <1>5, <1>6, <1>7
<1>9. \A i \in DOMAIN Append(r, e[1]) : Append(r, e[1])[i].n <= n
  BY <1>1, <1>6, <1>7 DEF Ordered
<1>10. \A i \in DOMAIN Tail(e) : Tail(e)[i].n <= n
  BY TailOf DEF Ordered
<1> QED
  BY <1>3, <1>4, <1>8, <1>9, <1>10 DEF Ordered

\* The car ignores it.
LEMMA OrderedIgnore ==
    ASSUME NEW r \in Seq(Answers), NEW e \in Seq(Answers), NEW n \in Nat, e # <<>>,
           Ordered(r, e, n)
    PROVE  Ordered(r, Tail(e), n)
<1>1. Ascending(Tail(e))
  BY AscendingTail DEF Ordered
<1>2. \A i \in DOMAIN r : Above(Tail(e), r[i].n)
  BY AboveTail DEF Ordered
<1>3. \A i \in DOMAIN Tail(e) : Tail(e)[i].n <= n
  BY TailOf DEF Ordered
<1> QED
  BY <1>1, <1>2, <1>3 DEF Ordered

\* The first answer is read.
LEMMA OrderedRead ==
    ASSUME NEW r \in Seq(Answers), NEW e \in Seq(Answers), NEW n \in Nat, r # <<>>,
           Ordered(r, e, n)
    PROVE  Ordered(Tail(r), e, n) /\ Above(Tail(r), r[1].n) /\ Above(e, r[1].n)
<1>1. Ascending(Tail(r)) /\ Above(Tail(r), r[1].n)
  BY AscendingTail DEF Ordered
<1>2. 1 \in DOMAIN r /\ \A i \in DOMAIN Tail(r) : i + 1 \in DOMAIN r /\ Tail(r)[i] = r[i + 1]
  BY TailOf
<1> QED
  BY <1>1, <1>2 DEF Ordered

\* A command is sent, with the next number.
LEMMA OrderedQuery ==
    ASSUME NEW r \in Seq(Answers), NEW e \in Seq(Answers), NEW n \in Nat,
           NEW k \in Commands, Ordered(r, e, n)
    PROVE  Ordered(r, Append(e, [cmd |-> k, n |-> n + 1]), n + 1)
<1> DEFINE a == [cmd |-> k, n |-> n + 1]
<1>1. a \in Answers /\ a.n = n + 1
  BY DEF Answers
<1> HIDE DEF a
<1>2. /\ \A i \in DOMAIN r : r[i].n \in Nat /\ r[i].n < n + 1
      /\ \A i \in DOMAIN e : e[i].n \in Nat /\ e[i].n < n + 1
  BY NumbersOf DEF Ordered
<1>3. Ascending(Append(e, a))
  BY <1>1, <1>2, AscendingAppend DEF Ordered
<1>4. \A i \in DOMAIN r : Above(Append(e, a), r[i].n)
  BY <1>1, <1>2, AboveAppend DEF Ordered
<1>5. \A i \in DOMAIN Append(e, a) : Append(e, a)[i].n <= n + 1
  BY <1>1, <1>2, AppendOf
<1>6. \A i \in DOMAIN r : r[i].n <= n + 1
  BY <1>2
<1>7. Ordered(r, Append(e, a), n + 1)
  BY <1>3, <1>4, <1>5, <1>6 DEF Ordered
<1> QED
  BY <1>7 DEF a

-----------------------------------------------------------------------------
(* Queries and answers *)

\* What belongs to a socket.
LEMMA SocketTypes ==
    ASSUME TypeOK
    PROVE  /\ Len(bound) \in Nat /\ Sockets = 1..Len(bound)
           /\ DOMAIN ecu = Sockets /\ DOMAIN rx = Sockets
           /\ DOMAIN sent = Sockets /\ DOMAIN given = Sockets
           /\ \A s \in Sockets : /\ bound[s] \in Params
                                 /\ ecu[s] \in Seq(Answers) /\ rx[s] \in Seq(Answers)
                                 /\ sent[s] \in Nat /\ given[s] \in Nat
<1>1. Len(bound) \in Nat /\ Sockets = 1..Len(bound)
  BY LenProperties DEF TypeOK, Sockets
<1>2. \A s \in Sockets : bound[s] \in Params
  BY <1>1, ElementOfSeq DEF TypeOK
<1>3. /\ DOMAIN ecu = Sockets /\ DOMAIN rx = Sockets
      /\ \A s \in Sockets : ecu[s] \in Seq(Answers) /\ rx[s] \in Seq(Answers)
  BY <1>1, LenProperties, ElementOfSeq DEF TypeOK
<1>4. /\ DOMAIN sent = Sockets /\ DOMAIN given = Sockets
      /\ \A s \in Sockets : sent[s] \in Nat /\ given[s] \in Nat
  BY <1>1, LenProperties, ElementOfSeq DEF TypeOK
<1> QED
  BY <1>1, <1>2, <1>3, <1>4

\* One entry of a sequence is replaced.
LEMMA ReplaceOf ==
    ASSUME NEW S, NEW q \in Seq(S), NEW i \in 1..Len(q), NEW e \in S
    PROVE  /\ [q EXCEPT ![i] = e] \in Seq(S) /\ Len([q EXCEPT ![i] = e]) = Len(q)
           /\ [q EXCEPT ![i] = e][i] = e
           /\ \A j \in 1..Len(q) : j # i => [q EXCEPT ![i] = e][j] = q[j]
BY ExceptSeq

\* The types of the processes.
LEMMA ClientTypes ==
    ASSUME TypeOK, NEW c \in Clients
    PROVE  /\ sock[c] \in Sock /\ sock[c].s \in Nat /\ sock[c].shared \in BOOLEAN
           /\ sock[c].p \in Params \cup {NoParams}
           /\ box[c] \in Seq(Datagrams) /\ asked[c] \in Results
           /\ lost[c] \in BOOLEAN /\ fds[c] \in SUBSET Nat
BY DEF TypeOK, Sock

\* A step that leaves sockets and queries alone, and no process becomes another one
\* with a socket.
LEMMA QueriesSame ==
    ASSUME IndInv, NoAnswer, UNCHANGED <<bound, ecu, rx, sent, given, asked>>,
           \A d \in Clients : pc'[d] \in {"select", "read"} \/ Private(d)' =>
               pc'[d] = pc[d] /\ sock'[d] = sock[d]
    PROVE  QueryInv'
<1>1. Awaited'
  BY DEF IndInv, QueryInv, Awaited
<1>2. InOrder'
  BY DEF IndInv, QueryInv, InOrder, Sockets, Ordered, Ascending, Above
<1>3. Unread'
  <2> SUFFICES ASSUME NEW d \in Clients, Private(d)'
               PROVE  Above(rx[sock[d].s], Taken(d))' /\ Above(ecu[sock[d].s], Taken(d))'
    BY DEF Unread
  <2>1. pc'[d] = pc[d] /\ sock'[d] = sock[d] /\ Private(d)
    BY DEF Private
  <2>2. Taken(d)' = Taken(d)
    BY <2>1 DEF Taken
  <2> QED
    BY <2>1, <2>2 DEF IndInv, QueryInv, Unread, Above
<1>4. AnswerAge'
  BY DEF NoAnswer, AnswerAge, NoResult
<1>5. ReadReady'
  BY DEF IndInv, QueryInv, ReadReady
<1> QED
  BY <1>1, <1>2, <1>3, <1>4, <1>5 DEF QueryInv

\* A new socket: the others stay as they are, and it has nothing to read.
LEMMA NewSocketOf ==
    ASSUME TypeOK, NEW p \in Params, CanBind(p), NewSocket(p)
    PROVE  /\ bound' \in Seq(Params) /\ Len(bound') = Len(bound) + 1
           /\ Len(bound') <= MaxSockets
           /\ ecu' \in Seq(Seq(Answers)) /\ Len(ecu') = Len(bound')
           /\ rx' \in Seq(Seq(Answers)) /\ Len(rx') = Len(bound')
           /\ sent' \in Seq(Nat) /\ Len(sent') = Len(bound')
           /\ given' \in Seq(Nat) /\ Len(given') = Len(bound')
           /\ Sockets' = Sockets \cup {Len(bound) + 1} /\ Len(bound) + 1 \notin Sockets
           /\ bound'[Len(bound) + 1] = p
           /\ ecu'[Len(bound) + 1] = <<>> /\ rx'[Len(bound) + 1] = <<>>
           /\ sent'[Len(bound) + 1] = 0 /\ given'[Len(bound) + 1] = 0
           /\ \A s \in Sockets : /\ bound'[s] = bound[s]
                                 /\ ecu'[s] = ecu[s] /\ rx'[s] = rx[s]
                                 /\ sent'[s] = sent[s] /\ given'[s] = given[s]
<1>1. Len(bound) \in Nat /\ Sockets = 1..Len(bound) /\ <<>> \in Seq(Answers)
  BY SocketTypes
<1>2. /\ bound \in Seq(Params) /\ Len(bound) < MaxSockets
      /\ ecu \in Seq(Seq(Answers)) /\ Len(ecu) = Len(bound)
      /\ rx \in Seq(Seq(Answers)) /\ Len(rx) = Len(bound)
      /\ sent \in Seq(Nat) /\ Len(sent) = Len(bound)
      /\ given \in Seq(Nat) /\ Len(given) = Len(bound)
      /\ MaxSockets \in Nat
  BY ObdiiAssumption DEF TypeOK, CanBind
<1>3. /\ bound' \in Seq(Params) /\ Len(bound') = Len(bound) + 1
      /\ DOMAIN bound' = 1..(Len(bound) + 1)
      /\ \A s \in 1..Len(bound) : bound'[s] = bound[s]
      /\ bound'[Len(bound) + 1] = p
  BY <1>2, AppendOf DEF NewSocket
<1>4. /\ ecu' \in Seq(Seq(Answers)) /\ Len(ecu') = Len(bound) + 1
      /\ \A s \in 1..Len(bound) : ecu'[s] = ecu[s]
      /\ ecu'[Len(bound) + 1] = <<>>
  <2>1. ecu' = Append(ecu, <<>>)
    BY DEF NewSocket
  <2> QED
    BY <1>1, <1>2, <2>1, AppendOf
<1>5. /\ rx' \in Seq(Seq(Answers)) /\ Len(rx') = Len(bound) + 1
      /\ \A s \in 1..Len(bound) : rx'[s] = rx[s]
      /\ rx'[Len(bound) + 1] = <<>>
  <2>1. rx' = Append(rx, <<>>)
    BY DEF NewSocket
  <2> QED
    BY <1>1, <1>2, <2>1, AppendOf
<1>6. /\ sent' \in Seq(Nat) /\ Len(sent') = Len(bound) + 1
      /\ \A s \in 1..Len(bound) : sent'[s] = sent[s]
      /\ sent'[Len(bound) + 1] = 0
  BY <1>2, AppendOf DEF NewSocket
<1>7. /\ given' \in Seq(Nat) /\ Len(given') = Len(bound) + 1
      /\ \A s \in 1..Len(bound) : given'[s] = given[s]
      /\ given'[Len(bound) + 1] = 0
  BY <1>2, AppendOf DEF NewSocket
<1>8. Sockets' = Sockets \cup {Len(bound) + 1} /\ Len(bound) + 1 \notin Sockets
  <2>1. Sockets' = DOMAIN bound'
    BY DEF Sockets
  <2> QED
    BY <1>1, <1>3, <2>1
<1>9. Len(bound') <= MaxSockets
  BY <1>1, <1>2, <1>3
<1> QED
  BY <1>1, <1>3, <1>4, <1>5, <1>6, <1>7, <1>8, <1>9

\* Nothing is wrong with it.
LEMMA QueriesNew ==
    ASSUME IndInv, NEW p \in Params, CanBind(p), NewSocket(p), NoAnswer, asked' = asked,
           \A d \in Clients : pc'[d] \in {"select", "read"} \/ Private(d)' =>
               \/ pc'[d] = pc[d] /\ sock'[d] = sock[d] /\ sock[d].s \in Sockets
               \/ pc'[d] = "open" /\ sock'[d].s = Len(bound) + 1
    PROVE  QueryInv'
<1>1. /\ Sockets' = Sockets \cup {Len(bound) + 1}
      /\ ecu'[Len(bound) + 1] = <<>> /\ rx'[Len(bound) + 1] = <<>>
      /\ sent'[Len(bound) + 1] = 0 /\ given'[Len(bound) + 1] = 0
      /\ \A s \in Sockets : /\ ecu'[s] = ecu[s] /\ rx'[s] = rx[s]
                            /\ sent'[s] = sent[s] /\ given'[s] = given[s]
  BY NewSocketOf DEF IndInv, SocketInv
<1>2. Awaited'
  BY <1>1 DEF IndInv, QueryInv, Awaited
<1>3. InOrder'
  <2>1. Ordered(<<>>, <<>>, 0)
    BY DEF Ordered, Ascending, Above
  <2> QED
    BY <1>1, <2>1 DEF IndInv, QueryInv, InOrder, Ordered, Ascending, Above
<1>4. Unread'
  <2> SUFFICES ASSUME NEW d \in Clients, Private(d)'
               PROVE  Above(rx[sock[d].s], Taken(d))' /\ Above(ecu[sock[d].s], Taken(d))'
    BY DEF Unread
  <2>1. CASE pc'[d] = pc[d] /\ sock'[d] = sock[d] /\ sock[d].s \in Sockets
    <3>1. Private(d) /\ Taken(d)' = Taken(d)
      BY <1>1, <2>1 DEF Private, Taken
    <3>2. rx'[sock'[d].s] = rx[sock[d].s] /\ ecu'[sock'[d].s] = ecu[sock[d].s]
      BY <1>1, <2>1
    <3>3. Above(rx[sock[d].s], Taken(d)) /\ Above(ecu[sock[d].s], Taken(d))
      BY <3>1 DEF IndInv, QueryInv, Unread
    <3> QED
      BY <3>1, <3>2, <3>3 DEF Above
  <2>2. CASE sock'[d].s = Len(bound) + 1
    BY <1>1, <2>2 DEF Above
  <2> QED
    BY <2>1, <2>2
<1>5. AnswerAge'
  BY DEF NoAnswer, AnswerAge, NoResult
<1>6. ReadReady'
  BY <1>1 DEF IndInv, QueryInv, ReadReady
<1> QED
  BY <1>2, <1>3, <1>4, <1>5, <1>6 DEF QueryInv

\* The car sends or drops the first command of socket s.
LEMMA CarQueries ==
    ASSUME IndInv, NEW s \in Sockets, Car(s) PROVE QueryInv' /\ TypeOK'
<1>1. /\ ecu[s] # <<>> /\ ecu' = [ecu EXCEPT ![s] = Tail(ecu[s])]
      /\ rx' = [rx EXCEPT ![s] = Append(rx[s], Head(ecu[s]))] \/ rx' = rx
      /\ NoAnswer
      /\ UNCHANGED <<conn, inbox, pc, sock, fds, box, lost, asked, bound, sent, given, opens,
                     interrupts, deaths, restarts>>
  BY DEF Car, CarAnswers, CarIgnores, daemonVars, callVars, faultVars
<1>2. /\ ecu[s] \in Seq(Answers) /\ rx[s] \in Seq(Answers) /\ sent[s] \in Nat
      /\ s \in 1..Len(bound) /\ DOMAIN ecu = Sockets /\ DOMAIN rx = Sockets
      /\ Sockets' = Sockets
  BY <1>1, SocketTypes DEF IndInv, SocketInv, Sockets
<1>3. /\ Tail(ecu[s]) \in Seq(Answers) /\ ecu[s][1] \in Answers /\ Head(ecu[s]) = ecu[s][1]
      /\ Append(rx[s], ecu[s][1]) \in Seq(Answers)
  BY <1>1, <1>2, TailOf, AppendOf
<1>4. ecu'[s] = Tail(ecu[s]) /\ \A u \in Sockets \ {s} : ecu'[u] = ecu[u]
  BY <1>1, <1>2
<1>5. /\ rx'[s] = Append(rx[s], ecu[s][1]) \/ rx'[s] = rx[s]
      /\ \A u \in Sockets \ {s} : rx'[u] = rx[u]
  BY <1>1, <1>2, <1>3
<1>6. TypeOK'
  <2>1. ecu' \in Seq(Seq(Answers)) /\ Len(ecu') = Len(ecu)
    BY <1>1, <1>2, <1>3, ReplaceOf DEF IndInv, SocketInv, TypeOK
  <2>2. rx' \in Seq(Seq(Answers)) /\ Len(rx') = Len(rx)
    <3>1. rx \in Seq(Seq(Answers)) /\ s \in 1..Len(rx)
      BY <1>2 DEF IndInv, SocketInv, TypeOK
    <3>2. CASE rx' = rx
      BY <3>1, <3>2
    <3>3. CASE rx' = [rx EXCEPT ![s] = Append(rx[s], ecu[s][1])]
      BY <1>3, <3>1, <3>3, ReplaceOf
    <3> QED
      BY <1>1, <1>3, <3>2, <3>3
  <2>3. result' \in Results
    BY <1>1 DEF NoAnswer, NoResult, Results
  <2> QED
    BY <1>1, <2>1, <2>2, <2>3 DEF IndInv, SocketInv, TypeOK
<1>7. InOrder'
  <2>1. Ordered(rx[s], ecu[s], sent[s])
    BY DEF IndInv, QueryInv, InOrder
  <2>2. Ordered(rx'[s], ecu'[s], sent[s])
    <3>1. CASE rx'[s] = Append(rx[s], ecu[s][1])
      BY <1>1, <1>2, <1>4, <2>1, <3>1, OrderedAnswer
    <3>2. CASE rx'[s] = rx[s]
      BY <1>1, <1>2, <1>4, <2>1, <3>2, OrderedIgnore
    <3> QED
      BY <1>5, <3>1, <3>2
  <2>3. \A u \in Sockets \ {s} : Ordered(rx'[u], ecu'[u], sent[u])
    BY <1>4, <1>5 DEF IndInv, QueryInv, InOrder
  <2>4. \A u \in Sockets : Ordered(rx[u], ecu[u], sent[u])'
    BY <1>1, <2>2, <2>3 DEF Ordered, Ascending, Above
  <2> QED
    BY <1>2, <2>4 DEF InOrder
<1>8. Unread'
  <2> SUFFICES ASSUME NEW d \in Clients, Private(d)'
               PROVE  Above(rx'[sock[d].s], Taken(d)) /\ Above(ecu'[sock[d].s], Taken(d))
    BY <1>1 DEF Unread, Above, Taken
  <2>1. Private(d) /\ sock[d].s \in Sockets
    BY <1>1, SocketTypes DEF Private, IndInv, SocketInv, Known
  <2>2. Above(rx[sock[d].s], Taken(d)) /\ Above(ecu[sock[d].s], Taken(d))
    BY <2>1 DEF IndInv, QueryInv, Unread
  <2>3. CASE sock[d].s = s
    <3>1. Above(Tail(ecu[s]), Taken(d)) /\ ecu[s][1].n > Taken(d)
      BY <1>1, <1>2, <2>2, <2>3, AboveTail
    <3>2. Above(Append(rx[s], ecu[s][1]), Taken(d))
      BY <1>2, <1>3, <2>2, <2>3, <3>1, AboveAppend
    <3> QED
      BY <1>4, <1>5, <2>2, <2>3, <3>1, <3>2
  <2>4. CASE sock[d].s # s
    BY <1>4, <1>5, <2>1, <2>2, <2>4
  <2> QED
    BY <2>3, <2>4
<1>9. ReadReady'
  <2> SUFFICES ASSUME NEW d \in Clients, pc[d] = "read", ~sock[d].shared
               PROVE  rx'[sock[d].s] # <<>>
    BY <1>1 DEF ReadReady
  <2>1. rx[sock[d].s] # <<>> /\ sock[d].s \in Sockets
    BY SocketTypes DEF IndInv, QueryInv, ReadReady, SocketInv, Known
  <2>2. Append(rx[s], ecu[s][1]) # <<>>
    BY <1>2, <1>3, AppendOf
  <2> QED
    BY <1>5, <2>1, <2>2
<1>10. Awaited' /\ AnswerAge'
  BY <1>1 DEF IndInv, QueryInv, Awaited, NoAnswer, AnswerAge, NoResult
<1> QED
  BY <1>6, <1>7, <1>8, <1>9, <1>10 DEF QueryInv

\* A process that queries has a socket, and nobody else has it as a private one.
LEMMA OwnSocket ==
    ASSUME IndInv, NEW c \in Clients, pc[c] \in {"open", "select", "read"}
    PROVE  /\ sock[c].s \in Sockets /\ sock[c].s \in 1..Len(bound)
           /\ (~sock[c].shared => Private(c))
           /\ \A d \in Clients \ {c} : Private(d) => sock[d].s \in Sockets \ {sock[c].s}
           /\ \A d \in Clients : pc[d] \in {"select", "read"} => sock[d].s \in Sockets
           /\ \A d \in Clients :
                 pc[d] \in {"open", "select", "read"} /\ ~sock[d].shared => Private(d)
<1>1. Sockets = 1..Len(bound) /\ Len(bound) \in Nat
  BY SocketTypes DEF IndInv, SocketInv
<1>2. \A d \in Clients : /\ sock[d].s \in 0..Len(bound)
                         /\ pc[d] \in {"open", "select", "read"} => sock[d].s # 0
  BY DEF IndInv, SocketInv, Known
<1>3. \A d \in Clients : sock[d].s # 0 => sock[d].s \in Sockets
  BY <1>1, <1>2
<1>4. \A d \in Clients : pc[d] \in {"open", "select", "read"} /\ ~sock[d].shared => Private(d)
  BY <1>2 DEF Private
<1>5. \A d \in Clients \ {c} : Private(d) => sock[d].s \in Sockets /\ sock[d].s # sock[c].s
  BY <1>3 DEF IndInv, SocketInv, PrivateAlone, Private
<1>6. /\ sock[c].s \in Sockets
      /\ \A d \in Clients : pc[d] \in {"select", "read"} => sock[d].s \in Sockets
  BY <1>2, <1>3
<1> QED
  BY <1>1, <1>4, <1>5, <1>6 DEF Private

\* An answer that is accepted is one to the command that was asked: mode and PID
\* determine a command.
LEMMA AcceptedIsAsked ==
    ASSUME NEW k \in Commands, NEW a \in Commands, NEW n,
           OBDIIResponseSuccessful(k, a, n)
    PROVE  a = k
<1>1. \A x \in Commands : (\E pid \in 0..78 : x = Command(1, pid, Mode1Length(pid)))
                           \/ x = Command(3, 0, VARIABLE_RESPONSE_LENGTH)
  BY ObdiiAssumption DEF OBDIIMode1Commands, OBDIIMode3Command
<1>2. a.mode = k.mode /\ (k.mode \in {1, 9} => a.pid = k.pid)
  BY DEF OBDIIResponseSuccessful
<1>3. CASE \E pid \in 0..78 : k = Command(1, pid, Mode1Length(pid))
  <2>1. PICK i \in 0..78 : k = Command(1, i, Mode1Length(i))
    BY <1>3
  <2>2. k.mode = 1 /\ k.pid = i
    BY <2>1 DEF Command
  <2>3. a # Command(3, 0, VARIABLE_RESPONSE_LENGTH)
    BY <1>2, <2>2 DEF Command
  <2>4. PICK j \in 0..78 : a = Command(1, j, Mode1Length(j))
    BY <1>1, <2>3
  <2>5. a.pid = j
    BY <2>4 DEF Command
  <2> QED
    BY <1>2, <2>1, <2>2, <2>4, <2>5
<1>4. CASE k = Command(3, 0, VARIABLE_RESPONSE_LENGTH)
  <2>1. k.mode = 3
    BY <1>4 DEF Command
  <2>2. ~\E pid \in 0..78 : a = Command(1, pid, Mode1Length(pid))
    BY <1>2, <2>1 DEF Command
  <2> QED
    BY <1>1, <1>4, <2>2
<1> QED
  BY <1>1, <1>3, <1>4

\* A query is sent.
LEMMA QueryQueries ==
    ASSUME IndInv, NEW c \in Clients, NEW k \in Commands, Query(c, k)
    PROVE  QueryInv' /\ TypeOK'
<1> DEFINE s == sock[c].s
           a == [cmd |-> k, n |-> sent[s] + 1]
           q == [asked |-> k, n |-> sent[s] + 1, got |-> NoCommand, m |-> 0, s |-> s,
                 shared |-> sock[c].shared]
<1>1. /\ pc[c] = "open" /\ pc' = [pc EXCEPT ![c] = "select"]
      /\ sent' = [sent EXCEPT ![s] = sent[s] + 1]
      /\ ecu' = [ecu EXCEPT ![s] = Append(ecu[s], a)]
      /\ asked' = [asked EXCEPT ![c] = q]
      /\ NoAnswer
      /\ UNCHANGED <<conn, inbox, sock, fds, box, lost, bound, rx, given, opens,
                     interrupts, deaths, restarts>>
  BY DEF Query, daemonVars, faultVars
<1>2. /\ s \in Sockets /\ s \in 1..Len(bound) /\ ecu[s] \in Seq(Answers) /\ rx[s] \in Seq(Answers)
      /\ sent[s] \in Nat /\ DOMAIN ecu = Sockets /\ DOMAIN sent = Sockets
      /\ Sockets' = Sockets /\ given[s] \in Nat /\ s \in Nat
  BY <1>1, OwnSocket, SocketTypes DEF IndInv, SocketInv, Sockets
<1>3. a \in Answers /\ a.n = sent[s] + 1
  BY <1>2 DEF Answers
<1>4. q \in Results /\ q.asked = k /\ q.n = sent[s] + 1 /\ q.s = s /\ q.shared = sock[c].shared
  <2>2. sock[c].shared \in BOOLEAN
    BY ClientTypes DEF IndInv, SocketInv
  <2>3. sent[s] + 1 \in Nat
    BY <1>2
  <2>4. q \in Results
    BY <1>2, <2>2, <2>3 DEF Results
  <2> QED
    BY <2>4
<1> HIDE DEF q, s
<1>5. Append(ecu[s], a) \in Seq(Answers)
  BY <1>2, <1>3, AppendOf
<1>6. /\ ecu'[s] = Append(ecu[s], a) /\ sent'[s] = sent[s] + 1
      /\ \A u \in Sockets \ {s} : ecu'[u] = ecu[u] /\ sent'[u] = sent[u]
  BY <1>1, <1>2
<1>7. /\ pc'[c] = "select" /\ asked'[c] = q
      /\ \A d \in Clients \ {c} : pc'[d] = pc[d] /\ asked'[d] = asked[d]
  BY <1>1 DEF IndInv, SocketInv, TypeOK
<1>8. TypeOK'
  <2>1. ecu' \in Seq(Seq(Answers)) /\ Len(ecu') = Len(ecu)
    <3>1. ecu \in Seq(Seq(Answers)) /\ s \in 1..Len(ecu)
      BY <1>2 DEF IndInv, SocketInv, TypeOK
    <3> QED
      BY <1>1, <1>5, <3>1, ReplaceOf
  <2>2. sent' \in Seq(Nat) /\ Len(sent') = Len(sent)
    <3>1. sent \in Seq(Nat) /\ s \in 1..Len(sent)
      BY <1>2 DEF IndInv, SocketInv, TypeOK
    <3>2. sent[s] + 1 \in Nat
      BY <1>2
    <3> QED
      BY <1>1, <3>1, <3>2, ReplaceOf
  <2>3. asked' \in [Clients -> Results]
    BY <1>1, <1>4 DEF IndInv, SocketInv, TypeOK
  <2>4. result' \in Results
    BY <1>1 DEF NoAnswer, NoResult, Results
  <2> QED
    BY <1>1, <2>1, <2>2, <2>3, <2>4 DEF IndInv, SocketInv, TypeOK
<1>9. InOrder'
  <2>1. Ordered(rx[s], ecu[s], sent[s])
    BY <1>2 DEF IndInv, QueryInv, InOrder
  <2>2. Ordered(rx[s], ecu'[s], sent'[s])
    BY <1>2, <1>6, <2>1, OrderedQuery
  <2>3. \A u \in Sockets \ {s} : Ordered(rx[u], ecu'[u], sent'[u])
    BY <1>6 DEF IndInv, QueryInv, InOrder
  <2>4. \A u \in Sockets : Ordered(rx[u], ecu[u], sent[u])'
    BY <1>1, <2>2, <2>3 DEF Ordered, Ascending, Above
  <2> QED
    BY <1>2, <2>4 DEF InOrder
<1>10. Unread'
  <2> SUFFICES ASSUME NEW d \in Clients, Private(d)'
               PROVE  Above(rx[sock[d].s], Taken(d)') /\ Above(ecu'[sock[d].s], Taken(d)')
    BY <1>1 DEF Unread, Above, Taken
  <2>1. Private(d)
    BY <1>1 DEF Private
  <2>2. Above(rx[sock[d].s], Taken(d)) /\ Above(ecu[sock[d].s], Taken(d))
    BY <2>1 DEF IndInv, QueryInv, Unread
  <2>3. CASE d = c
    <3>1. Taken(c)' = Taken(c) /\ a.n > Taken(c)
      <4>1. Taken(c) = sent[s] - given[s]
        BY <1>1, <1>2 DEF Taken, s
      <4>2. Taken(c)' = sent'[s] - given[s] - 1
        BY <1>1, <1>7 DEF Taken, s
      <4>3. sent'[s] - given[s] - 1 = sent[s] - given[s]
        <5>1. sent'[s] = sent[s] + 1
          BY <1>6
        <5>2. \A x, y \in Nat : (x + 1) - y - 1 = x - y
          OBVIOUS
        <5> QED
          BY <1>2, <5>1, <5>2
      <4>4. a.n > Taken(c)
        BY <1>2, <4>1
      <4> QED
        BY <4>1, <4>2, <4>3, <4>4
    <3>2. Above(Append(ecu[s], a), Taken(c))
      BY <1>2, <1>3, <2>2, <2>3, <3>1, AboveAppend DEF s
    <3> QED
      BY <1>6, <2>2, <2>3, <3>1, <3>2 DEF s
  <2>4. CASE d # c
    <3>1. sock[d].s \in Sockets \ {s}
      BY <1>1, <2>1, <2>4, OwnSocket DEF s
    <3>2. Taken(d)' = Taken(d)
      BY <1>1, <1>6, <1>7, <2>4, <3>1 DEF Taken
    <3> QED
      BY <1>6, <2>2, <3>1, <3>2
  <2> QED
    BY <2>3, <2>4
<1>11. Awaited'
  <2> SUFFICES ASSUME NEW d \in Clients, pc'[d] \in {"select", "read"}
               PROVE  /\ asked'[d].asked \in Commands
                      /\ asked'[d].s = sock[d].s /\ asked'[d].shared = sock[d].shared
                      /\ ~sock[d].shared => asked'[d].n = sent'[sock[d].s]
    BY <1>1 DEF Awaited
  <2>1. CASE d = c
    BY <1>4, <1>6, <1>7, <2>1 DEF s
  <2>2. CASE d # c
    <3>1. pc[d] \in {"select", "read"} /\ asked'[d] = asked[d]
      BY <1>7, <2>2
    <3>2. ~sock[d].shared => sent'[sock[d].s] = sent[sock[d].s]
      <4>1. ~sock[d].shared => sock[d].s \in Sockets \ {s}
        BY <1>1, <2>2, <3>1, OwnSocket DEF s
      <4> QED
        BY <1>6, <4>1
    <3> QED
      BY <3>1, <3>2 DEF IndInv, QueryInv, Awaited
  <2> QED
    BY <2>1, <2>2
<1>12. ReadReady'
  BY <1>1, <1>7 DEF IndInv, QueryInv, ReadReady
<1>13. AnswerAge'
  BY <1>1 DEF NoAnswer, AnswerAge, NoResult
<1> QED
  BY <1>8, <1>9, <1>10, <1>11, <1>12, <1>13 DEF QueryInv

\* Select sees an answer.
LEMMA SelectQueries ==
    ASSUME IndInv, NEW c \in Clients, Select(c) PROVE QueryInv' /\ TypeOK'
<1>1. /\ pc[c] = "select" /\ rx[sock[c].s] # <<>> /\ pc' = [pc EXCEPT ![c] = "read"]
      /\ NoAnswer
      /\ UNCHANGED <<conn, inbox, sock, fds, box, lost, asked, bound, ecu, rx, sent, given,
                     opens, interrupts, deaths, restarts>>
  BY DEF Select, daemonVars, carVars, faultVars
<1>2. pc'[c] = "read" /\ \A d \in Clients \ {c} : pc'[d] = pc[d]
  BY <1>1 DEF IndInv, SocketInv, TypeOK
<1>3. TypeOK'
  <2>1. result' \in Results
    BY <1>1 DEF NoAnswer, NoResult, Results
  <2> QED
    BY <1>1, <2>1 DEF IndInv, SocketInv, TypeOK
<1>4. Awaited'
  BY <1>1, <1>2 DEF IndInv, QueryInv, Awaited
<1>5. InOrder'
  BY <1>1 DEF IndInv, QueryInv, InOrder, Sockets, Ordered, Ascending, Above
<1>6. Unread'
  <2> SUFFICES ASSUME NEW d \in Clients, Private(d)'
               PROVE  Above(rx[sock[d].s], Taken(d)') /\ Above(ecu[sock[d].s], Taken(d)')
    BY <1>1 DEF Unread, Above, Taken
  <2>1. Private(d) /\ Taken(d)' = Taken(d)
    BY <1>1, <1>2 DEF Private, Taken
  <2> QED
    BY <2>1 DEF IndInv, QueryInv, Unread
<1>7. ReadReady'
  BY <1>1, <1>2 DEF IndInv, QueryInv, ReadReady
<1>8. AnswerAge'
  BY <1>1 DEF NoAnswer, AnswerAge, NoResult
<1> QED
  BY <1>3, <1>4, <1>5, <1>6, <1>7, <1>8 DEF QueryInv

\* A query is given up, by a time-out or with its process.
LEMMA GivenUp ==
    ASSUME IndInv, NEW c \in Clients, NoAnswer, UNCHANGED <<bound, ecu, rx, sent>>,
           asked' = [asked EXCEPT ![c] = NoResult],
           \/ given' = given
           \/ /\ pc[c] \in {"select", "read"}
              /\ given' = [given EXCEPT ![sock[c].s] = given[sock[c].s] + 1],
           pc'[c] \notin {"select", "read"},
           Private(c)' => /\ pc[c] = "select" /\ pc'[c] = "open" /\ sock'[c] = sock[c]
                          /\ given' = [given EXCEPT ![sock[c].s] = given[sock[c].s] + 1],
           \A d \in Clients \ {c} : pc'[d] = pc[d] /\ sock'[d] = sock[d]
    PROVE  /\ QueryInv'
           /\ given' \in Seq(Nat) /\ Len(given') = Len(given)
           /\ asked' \in [Clients -> Results] /\ result' \in Results
<1>1. /\ Sockets = 1..Len(bound) /\ DOMAIN given = Sockets /\ Len(given) = Len(bound)
      /\ given \in Seq(Nat)
      /\ \A s \in Sockets : sent[s] \in Nat /\ given[s] \in Nat
  BY SocketTypes DEF IndInv, SocketInv, TypeOK
<1>2. \A d \in Clients \ {c} : asked'[d] = asked[d]
  BY DEF IndInv, SocketInv, TypeOK
<1>3. pc[c] \in {"select", "read"} =>
        /\ sock[c].s \in Sockets
        /\ \A d \in Clients \ {c} : Private(d) => sock[d].s \in Sockets \ {sock[c].s}
  BY OwnSocket
<1>4. \A d \in Clients \ {c} : Private(d) => given'[sock[d].s] = given[sock[d].s]
  BY <1>1, <1>3
<1>5. given' \in Seq(Nat) /\ Len(given') = Len(given)
  <2>1. CASE given' = given
    BY <1>1, <2>1
  <2>2. CASE /\ pc[c] \in {"select", "read"}
             /\ given' = [given EXCEPT ![sock[c].s] = given[sock[c].s] + 1]
    <3>1. sock[c].s \in 1..Len(given) /\ given[sock[c].s] + 1 \in Nat
      BY <1>1, <1>3, <2>2
    <3> QED
      BY <1>1, <2>2, <3>1, ReplaceOf
  <2> QED
    BY <2>1, <2>2
<1>6. asked' \in [Clients -> Results] /\ result' \in Results
  <2>1. NoResult \in Results
    BY DEF NoResult, Results
  <2> QED
    BY <2>1 DEF NoAnswer, IndInv, SocketInv, TypeOK
<1>7. Awaited'
  BY <1>2 DEF IndInv, QueryInv, Awaited
<1>8. InOrder'
  BY DEF IndInv, QueryInv, InOrder, Sockets, Ordered, Ascending, Above
<1>9. Unread'
  <2> SUFFICES ASSUME NEW d \in Clients, Private(d)'
               PROVE  Above(rx[sock'[d].s], Taken(d)') /\ Above(ecu[sock'[d].s], Taken(d)')
    BY DEF Unread, Above, Taken
  <2>1. Private(d) /\ sock'[d] = sock[d]
    <3>1. sock'[d] = sock[d]
      OBVIOUS
    <3> QED
      BY <3>1 DEF Private
  <2>2. Above(rx[sock[d].s], Taken(d)) /\ Above(ecu[sock[d].s], Taken(d))
    BY <2>1 DEF IndInv, QueryInv, Unread
  <2>3. CASE d = c
    <3> DEFINE s == sock[c].s
    <3>1. /\ s \in Sockets /\ pc[c] = "select" /\ pc'[c] = "open" /\ sock'[c] = sock[c]
          /\ given' = [given EXCEPT ![s] = given[s] + 1]
      BY <1>3, <2>3
    <3>2. Taken(c) = sent[s] - given[s] - 1
      BY <3>1 DEF Taken
    <3>3. Taken(c)' = sent[s] - given'[s]
      BY <1>1, <3>1, <1>5 DEF Taken
    <3>4. given'[s] = given[s] + 1
      BY <1>1, <3>1
    <3>5. \A x, y \in Nat : x - (y + 1) = x - y - 1
      OBVIOUS
    <3>6. sent[s] \in Nat /\ given[s] \in Nat
      BY <1>1, <3>1
    <3>7. Taken(c)' = Taken(c)
      BY <3>2, <3>3, <3>4, <3>5, <3>6
    <3> QED
      BY <2>1, <2>2, <2>3, <3>7
  <2>4. CASE d # c
    <3>1. Taken(d)' = Taken(d)
      BY <1>4, <2>1, <2>4 DEF Taken
    <3> QED
      BY <2>1, <2>2, <3>1
  <2> QED
    BY <2>3, <2>4
<1>10. AnswerAge'
  BY DEF NoAnswer, AnswerAge, NoResult
<1>11. ReadReady'
  BY DEF IndInv, QueryInv, ReadReady
<1> QED
  BY <1>5, <1>6, <1>7, <1>8, <1>9, <1>10, <1>11 DEF QueryInv

\* An answer is read.
LEMMA ReadQueries ==
    ASSUME IndInv, NEW c \in Clients, Read(c) PROVE QueryInv' /\ TypeOK'
<1> DEFINE s == sock[c].s
           a == Head(rx[s])
<1>1. /\ pc[c] = "read" /\ pc' = [pc EXCEPT ![c] = "open"]
      /\ rx[s] # <<>> /\ rx' = [rx EXCEPT ![s] = Tail(rx[s])]
      /\ asked' = [asked EXCEPT ![c] = NoResult]
      /\ \/ result' = NoResult
         \/ \E n : /\ OBDIIResponseSuccessful(asked[c].asked, a.cmd, n)
                   /\ result' = Answered(asked[c], a)
      /\ UNCHANGED <<conn, inbox, sock, fds, box, lost, bound, ecu, sent, given, opens,
                     interrupts, deaths, restarts>>
  BY DEF Read, daemonVars, faultVars
<1>2. /\ s \in Sockets /\ s \in 1..Len(bound) /\ ecu[s] \in Seq(Answers) /\ rx[s] \in Seq(Answers)
      /\ sent[s] \in Nat /\ DOMAIN rx = Sockets /\ Sockets' = Sockets /\ given[s] \in Nat
  BY <1>1, OwnSocket, SocketTypes DEF IndInv, SocketInv, Sockets
<1> HIDE DEF s
<1>3. /\ a = rx[s][1] /\ a \in Answers /\ a.cmd \in Commands /\ a.n \in Nat
      /\ Tail(rx[s]) \in Seq(Answers)
  <2>1. rx[s] # <<>> /\ rx[s] \in Seq(Answers)
    BY <1>1, <1>2
  <2>2. a = rx[s][1] /\ a \in Answers /\ Tail(rx[s]) \in Seq(Answers)
    BY <2>1, TailOf
  <2> HIDE DEF a
  <2> QED
    BY <2>2 DEF Answers
<1> HIDE DEF a
<1>4. rx'[s] = Tail(rx[s]) /\ \A u \in Sockets \ {s} : rx'[u] = rx[u]
  BY <1>1, <1>2
<1>5. /\ pc'[c] = "open"
      /\ \A d \in Clients \ {c} : pc'[d] = pc[d] /\ asked'[d] = asked[d]
  BY <1>1 DEF IndInv, SocketInv, TypeOK
<1>6. /\ asked[c].asked \in Commands /\ asked[c].s = s
      /\ asked[c].shared = sock[c].shared
      /\ ~sock[c].shared => asked[c].n = sent[s]
  BY <1>1 DEF IndInv, QueryInv, Awaited, s
<1>7. /\ Ordered(rx[s], ecu[s], sent[s])
      /\ Ordered(Tail(rx[s]), ecu[s], sent[s]) /\ Above(Tail(rx[s]), a.n) /\ Above(ecu[s], a.n)
  <2>1. Ordered(rx[s], ecu[s], sent[s])
    BY <1>2 DEF IndInv, QueryInv, InOrder
  <2> QED
    BY <1>1, <1>2, <1>3, <2>1, OrderedRead
<1>8. ~sock[c].shared => a.n > sent[s] - given[s] - 1
  <2> HAVE ~sock[c].shared
  <2>1. Private(c)
    BY <1>1, OwnSocket
  <2>2. Above(rx[s], Taken(c))
    BY <2>1 DEF IndInv, QueryInv, Unread, s
  <2>3. Taken(c) = sent[s] - given[s] - 1
    BY <1>1 DEF Taken, s
  <2> QED
    BY <1>1, <1>2, <1>3, <2>2, <2>3, AboveTail
<1>9. \/ result' = NoResult
      \/ result' = [asked |-> a.cmd, n |-> asked[c].n, got |-> a.cmd, m |-> a.n, s |-> s,
                    shared |-> sock[c].shared]
  <2>1. CASE result' = NoResult
    BY <2>1
  <2>2. CASE \E n : /\ OBDIIResponseSuccessful(asked[c].asked, a.cmd, n)
                    /\ result' = Answered(asked[c], a)
    <3>1. asked[c].asked = a.cmd
      BY <1>3, <1>6, <2>2, AcceptedIsAsked
    <3> QED
      BY <1>6, <2>2, <3>1 DEF Answered
  <2> QED
    BY <1>1, <2>1, <2>2
<1>10. result' \in Results /\ AnswerAge'
  <2>1. CASE result' = NoResult
    BY <2>1 DEF AnswerAge, NoResult, Results
  <2>2. CASE result' = [asked |-> a.cmd, n |-> asked[c].n, got |-> a.cmd, m |-> a.n, s |-> s,
                        shared |-> sock[c].shared]
    <3>1. asked[c].n \in Nat /\ sock[c].shared \in BOOLEAN /\ s \in Nat
      BY <1>2, ClientTypes DEF IndInv, SocketInv, Results, s
    <3>2. result' \in Results
      BY <1>3, <2>2, <3>1 DEF Results
    <3>3. /\ result'.asked = result'.got /\ result'.s = s /\ result'.n = asked[c].n
          /\ result'.m = a.n /\ result'.shared = sock[c].shared
      BY <2>2
    <3>4. ~sock[c].shared => asked[c].n - a.n <= given[s]
      <4>1. \A x, y, z \in Nat : z > x - y - 1 => x - z <= y
        OBVIOUS
      <4> QED
        BY <1>2, <1>3, <1>6, <1>8, <4>1
    <3>5. AnswerAge'
      BY <1>1, <3>3, <3>4 DEF AnswerAge
    <3> QED
      BY <3>2, <3>5
  <2> QED
    BY <1>9, <2>1, <2>2
<1>11. TypeOK'
  <2>1. rx' \in Seq(Seq(Answers)) /\ Len(rx') = Len(rx)
    <3>1. rx \in Seq(Seq(Answers)) /\ s \in 1..Len(rx)
      BY <1>2 DEF IndInv, SocketInv, TypeOK
    <3> QED
      BY <1>1, <1>3, <3>1, ReplaceOf
  <2>2. asked' \in [Clients -> Results]
    <3>1. NoResult \in Results
      BY DEF NoResult, Results
    <3> QED
      BY <1>1, <3>1 DEF IndInv, SocketInv, TypeOK
  <2> QED
    BY <1>1, <1>10, <2>1, <2>2 DEF IndInv, SocketInv, TypeOK
<1>12. InOrder'
  <2>1. \A u \in Sockets \ {s} : Ordered(rx'[u], ecu[u], sent[u])
    BY <1>4 DEF IndInv, QueryInv, InOrder
  <2>2. \A u \in Sockets : Ordered(rx[u], ecu[u], sent[u])'
    BY <1>1, <1>4, <1>7, <2>1 DEF Ordered, Ascending, Above
  <2> QED
    BY <1>2, <2>2 DEF InOrder
<1>13. Unread'
  <2> SUFFICES ASSUME NEW d \in Clients, Private(d)'
               PROVE  Above(rx'[sock[d].s], Taken(d)') /\ Above(ecu[sock[d].s], Taken(d)')
    BY <1>1 DEF Unread, Above, Taken
  <2>1. Private(d)
    BY <1>1 DEF Private
  <2>2. Above(rx[sock[d].s], Taken(d)) /\ Above(ecu[sock[d].s], Taken(d))
    BY <2>1 DEF IndInv, QueryInv, Unread
  <2>3. CASE d = c
    <3>1. Taken(c)' = sent[s] - given[s]
      BY <1>1, <1>2, <1>5 DEF Taken, s
    <3>2. a.n >= sent[s] - given[s]
      BY <1>2, <1>3, <1>8, <2>1, <2>3 DEF Private
    <3>3. \A i \in DOMAIN Tail(rx[s]) : Tail(rx[s])[i].n \in Nat
      BY <1>3, NumbersOf
    <3>4. \A i \in DOMAIN ecu[s] : ecu[s][i].n \in Nat
      BY <1>2, NumbersOf
    <3>5. Above(Tail(rx[s]), sent[s] - given[s])
      BY <1>2, <1>3, <1>7, <3>2, <3>3 DEF Above
    <3>6. Above(ecu[s], sent[s] - given[s])
      BY <1>2, <1>3, <1>7, <3>2, <3>4 DEF Above
    <3> QED
      BY <1>4, <2>3, <3>1, <3>5, <3>6 DEF s
  <2>4. CASE d # c
    <3>1. sock[d].s \in Sockets \ {s}
      BY <1>1, <2>1, <2>4, OwnSocket DEF s
    <3>2. Taken(d)' = Taken(d)
      BY <1>1, <1>5, <2>4 DEF Taken
    <3> QED
      BY <1>4, <2>2, <3>1, <3>2
  <2> QED
    BY <2>3, <2>4
<1>14. Awaited'
  BY <1>1, <1>5 DEF IndInv, QueryInv, Awaited
<1>15. ReadReady'
  <2> SUFFICES ASSUME NEW d \in Clients, pc'[d] = "read", ~sock[d].shared
               PROVE  rx'[sock[d].s] # <<>>
    BY <1>1 DEF ReadReady
  <2>1. d # c /\ pc[d] = "read"
    BY <1>5
  <2>2. sock[d].s \in Sockets \ {s}
    BY <1>1, <2>1, OwnSocket DEF s
  <2> QED
    BY <1>4, <2>1, <2>2 DEF IndInv, QueryInv, ReadReady
<1> QED
  BY <1>10, <1>11, <1>12, <1>13, <1>14, <1>15 DEF QueryInv

-----------------------------------------------------------------------------
(* Steps of a process *)

\* A step of process c: it may send a request, and changes nothing that belongs to
\* the daemon or to another process.
StepOf(c) ==
    /\ \A d \in Clients \ {c} : pc'[d] = pc[d] /\ sock'[d] = sock[d] /\ box'[d] = box[d]
    /\ conn' = conn /\ lost' = lost /\ bound' = bound
    /\ \/ inbox' = inbox
       \/ \E r \in Requests : r.from = c /\ inbox' = Append(inbox, r)

\* The entries of the inbox after it.
LEMMA InboxOf ==
    ASSUME IndInv, NEW c \in Clients, StepOf(c)
    PROVE  /\ \A i \in DOMAIN inbox : i \in DOMAIN inbox' /\ inbox'[i] = inbox[i]
           /\ \A i \in DOMAIN inbox' : \/ i \in DOMAIN inbox /\ inbox'[i] = inbox[i]
                                       \/ inbox'[i].from = c /\ i = Len(inbox) + 1
           /\ inbox' \in Seq(Requests) /\ Len(inbox) \in Nat /\ DOMAIN inbox = 1..Len(inbox)
<1>1. inbox \in Seq(Requests) /\ Len(inbox) \in Nat /\ DOMAIN inbox = 1..Len(inbox)
  BY LenProperties DEF IndInv, SocketInv, TypeOK
<1>2. CASE inbox' = inbox
  BY <1>1, <1>2
<1>3. CASE \E r \in Requests : r.from = c /\ inbox' = Append(inbox, r)
  <2>1. PICK r \in Requests : r.from = c /\ inbox' = Append(inbox, r)
    BY <1>3
  <2>2. /\ inbox' \in Seq(Requests) /\ DOMAIN inbox' = 1..(Len(inbox) + 1)
        /\ \A i \in 1..Len(inbox) : inbox'[i] = inbox[i]
        /\ inbox'[Len(inbox) + 1] = r
    BY <1>1, <2>1, AppendOf
  <2> QED
    BY <1>1, <2>1, <2>2
<1> QED
  BY <1>2, <1>3 DEF StepOf

\* What such a step has to keep for the socket of c.
LEMMA StepSockets ==
    ASSUME IndInv, NEW c \in Clients, StepOf(c),
           sock'[c].s \in 0..Len(bound),
           sock'[c].s # 0 <=> pc'[c] \in {"open", "select", "read"},
           pc'[c] \in {"opening", "receiveFD", "closing"} => sock'[c].shared,
           sock'[c].shared => sock'[c].p \in Params,
           Private(c)' => Private(c) /\ sock'[c].s = sock[c].s,
           \/ sock'[c].s \in {0, sock[c].s}
           \/ \E j \in DOMAIN box[c] : sock'[c].s = box[c][j].fd,
           \A i \in DOMAIN box'[c] : \E j \in DOMAIN box[c] : box'[c][i].fd = box[c][j].fd
    PROVE  Known' /\ Listed' /\ PrivateAlone'
<1>1. Known /\ Listed /\ PrivateAlone
  BY DEF IndInv, SocketInv
<1>2. Known'
  <2>1. \A d \in Clients \ {c} : 
          /\ sock'[d].s \in 0..Len(bound)
          /\ sock'[d].s # 0 <=> pc'[d] \in {"open", "select", "read"}
          /\ pc'[d] \in {"opening", "receiveFD", "closing"} => sock'[d].shared
          /\ sock'[d].shared => sock'[d].p \in Params
          /\ \A i \in DOMAIN box'[d] : box'[d][i].fd \in 0..Len(bound)
    BY <1>1 DEF Known, StepOf
  <2>2. \A i \in DOMAIN box'[c] : box'[c][i].fd \in 0..Len(bound)
    BY <1>1 DEF Known
  <2>3. bound' = bound /\ conn' = conn
    BY DEF StepOf
  <2> QED
    BY <1>1, <2>1, <2>2, <2>3 DEF Known
<1>3. Listed'
  BY <1>1 DEF Listed, StepOf
<1>4. PrivateAlone'
  <2> SUFFICES ASSUME NEW d \in Clients, Private(d)'
               PROVE  /\ \A e \in Clients \ {d} : sock'[e].s # sock'[d].s
                      /\ \A p \in Params : conn'[p].s # sock'[d].s
                      /\ \A e \in Clients : \A i \in DOMAIN box'[e] : box'[e][i].fd # sock'[d].s
    BY DEF PrivateAlone
  <2>1. Private(d) /\ sock'[d].s = sock[d].s
    <3>1. CASE d = c
      BY <3>1
    <3>2. CASE d # c
      BY <3>2 DEF StepOf, Private
    <3> QED
      BY <3>1, <3>2
  <2>2. /\ \A e \in Clients \ {d} : sock[e].s # sock[d].s
        /\ \A p \in Params : conn[p].s # sock[d].s
        /\ \A e \in Clients : \A i \in DOMAIN box[e] : box[e][i].fd # sock[d].s
        /\ sock[d].s # 0
    BY <1>1, <2>1 DEF PrivateAlone, Private
  <2>3. \A e \in Clients \ {d} : sock'[e].s # sock'[d].s
    <3> SUFFICES ASSUME NEW e \in Clients \ {d} PROVE sock'[e].s # sock[d].s
      BY <2>1
    <3>1. CASE e = c
      BY <2>2, <3>1
    <3>2. CASE e # c
      BY <2>2, <3>2 DEF StepOf
    <3> QED
      BY <3>1, <3>2
  <2>4. \A e \in Clients : \A i \in DOMAIN box'[e] : box'[e][i].fd # sock'[d].s
    <3> SUFFICES ASSUME NEW e \in Clients, NEW i \in DOMAIN box'[e]
                 PROVE  box'[e][i].fd # sock[d].s
      BY <2>1
    <3>1. CASE e = c
      BY <2>2, <3>1
    <3>2. CASE e # c
      BY <2>2, <3>2 DEF StepOf
    <3> QED
      BY <3>1, <3>2
  <2> QED
    BY <2>1, <2>2, <2>3, <2>4 DEF StepOf
<1> QED
  BY <1>2, <1>3, <1>4

\* Fewer processes count.
LEMMA CountedLess ==
    ASSUME IndInv, TypeOK', interrupts' = 0 => interrupts = 0,
           interrupts' = 0 => \A p \in Params : /\ \A d \in Clients : Counts(d, p)' => Counts(d, p)
                                                /\ conn'[p].refcount = conn[p].refcount
    PROVE  Counted'
<1> SUFFICES ASSUME interrupts' = 0, NEW p \in Params
             PROVE  Cardinality({d \in Clients : Counts(d, p)'}) <= conn'[p].refcount
  BY DEF Counted
<1> DEFINE S == {d \in Clients : Counts(d, p)}
           T == {d \in Clients : Counts(d, p)'}
<1>1. Cardinality(S) <= conn[p].refcount /\ conn[p].refcount \in Nat
  BY DEF IndInv, CallInv, Counted, SocketInv, TypeOK
<1>2. T \subseteq S
  OBVIOUS
<1>3. IsFiniteSet(S)
  BY ObdiiAssumption, FS_Subset
<1> HIDE DEF S, T
<1>4. IsFiniteSet(T) /\ Cardinality(T) <= Cardinality(S)
  BY <1>2, <1>3, FS_Subset
<1>5. Cardinality(T) \in Nat /\ Cardinality(S) \in Nat
  BY <1>3, <1>4, FS_CardinalityType
<1>6. Cardinality(T) <= conn'[p].refcount
  BY <1>1, <1>4, <1>5
<1> QED
  BY <1>6 DEF T

\* What it has to keep for the calls of c.
LEMMA StepCalls ==
    ASSUME IndInv, TypeOK', NEW c \in Clients, StepOf(c), HasReply(c)',
           interrupts' = 0 =>
               /\ interrupts = 0
               /\ \/ \A i \in DOMAIN inbox : inbox[i].from # c
                  \/ pc'[c] = "dead" /\ box'[c] = <<>> /\ inbox' = inbox
               /\ inbox' # inbox =>
                     LET r == inbox'[Len(inbox) + 1] IN
                     /\ ~lost[c] /\ box'[c] = <<>> /\ r.p = sock'[c].p
                     /\ pc'[c] = IF r.open THEN "opening" ELSE "closing"
               /\ AnswersFit(c)'
               /\ pc'[c] \in {"open", "select", "read"} => bound[sock'[c].s] = sock'[c].p
               /\ \A p \in Params : Counts(c, p)' => Counts(c, p)
    PROVE  CallInv'
<1>1. Replied /\ OneRequest /\ OneAnswer /\ SocketAsAsked
  BY DEF IndInv, CallInv
<1>2. /\ \A i \in DOMAIN inbox : i \in DOMAIN inbox' /\ inbox'[i] = inbox[i]
      /\ \A i \in DOMAIN inbox' : \/ i \in DOMAIN inbox /\ inbox'[i] = inbox[i]
                                  \/ inbox'[i].from = c /\ i = Len(inbox) + 1
      /\ Len(inbox) \in Nat /\ DOMAIN inbox = 1..Len(inbox)
  BY InboxOf
<1>3. Replied'
  <2> SUFFICES ASSUME NEW d \in Clients, d # c PROVE HasReply(d)'
    BY DEF Replied
  <2>1. pc'[d] = pc[d] /\ box'[d] = box[d] /\ lost'[d] = lost[d]
    BY DEF StepOf
  <2>2. HasReply(d)
    BY <1>1 DEF Replied
  <2>3. \A i \in DOMAIN inbox : i \in DOMAIN inbox' /\ inbox'[i] = inbox[i]
    BY <1>2
  <2> QED
    BY <2>1, <2>2, <2>3 DEF HasReply
<1>4. OneRequest'
  <2> SUFFICES ASSUME interrupts' = 0
               PROVE  /\ \A i, j \in DOMAIN inbox' : inbox'[i].from = inbox'[j].from => i = j
                      /\ \A i \in DOMAIN inbox' : FromWaiting(inbox[i])'
    BY DEF OneRequest
  <2>1. /\ \A i, j \in DOMAIN inbox : inbox[i].from = inbox[j].from => i = j
        /\ \A i \in DOMAIN inbox : FromWaiting(inbox[i])
    BY <1>1 DEF OneRequest
  <2>2. \A i \in DOMAIN inbox : inbox[i].from # c => FromWaiting(inbox[i])'
    <3> SUFFICES ASSUME NEW i \in DOMAIN inbox, inbox[i].from # c PROVE FromWaiting(inbox[i])'
      OBVIOUS
    <3> DEFINE d == inbox[i].from
    <3>1. d \in Clients \ {c}
      <4>1. inbox \in Seq(Requests)
        BY DEF IndInv, SocketInv, TypeOK
      <4>2. inbox[i] \in Requests
        BY <1>2, <4>1, ElementOfSeq
      <4> QED
        BY <4>2 DEF Requests
    <3>2. pc'[d] = pc[d] /\ box'[d] = box[d] /\ sock'[d] = sock[d] /\ lost'[d] = lost[d]
      BY <3>1 DEF StepOf
    <3>3. FromWaiting(inbox[i]) /\ inbox'[i] = inbox[i]
      BY <1>2, <2>1
    <3> QED
      BY <3>2, <3>3 DEF FromWaiting
  <2>3. CASE inbox' = inbox
    <3>1. \A i \in DOMAIN inbox : inbox[i].from = c => FromWaiting(inbox[i])'
      <4> SUFFICES ASSUME NEW i \in DOMAIN inbox, inbox[i].from = c PROVE FromWaiting(inbox[i])'
        OBVIOUS
      <4>1. pc'[c] = "dead" /\ box'[c] = <<>> /\ ~lost[c]
        BY <2>1 DEF FromWaiting
      <4> QED
        BY <2>3, <4>1 DEF FromWaiting, StepOf
    <3> QED
      BY <2>1, <2>2, <2>3, <3>1
  <2>4. CASE inbox' # inbox
    <3>1. \A i \in DOMAIN inbox : inbox[i].from # c
      BY <2>4
    <3>2. \A i \in DOMAIN inbox' : inbox'[i].from = c => i = Len(inbox) + 1
      BY <1>2, <3>1
    <3>3. \A i, j \in DOMAIN inbox' : inbox'[i].from = inbox'[j].from => i = j
      BY <1>2, <2>1, <3>1
    <3>4. \A i \in DOMAIN inbox' : inbox'[i].from = c => FromWaiting(inbox[i])'
      BY <2>4, <3>2 DEF FromWaiting, StepOf
    <3>5. \A i \in DOMAIN inbox' : inbox'[i].from # c => FromWaiting(inbox[i])'
      BY <1>2, <2>2
    <3> QED
      BY <3>3, <3>4, <3>5
  <2> QED
    BY <2>3, <2>4
<1>5. OneAnswer'
  <2> SUFFICES ASSUME interrupts' = 0, NEW d \in Clients, d # c PROVE AnswersFit(d)'
    BY DEF OneAnswer
  <2>1. pc'[d] = pc[d] /\ box'[d] = box[d] /\ sock'[d] = sock[d] /\ bound' = bound
    BY DEF StepOf
  <2>2. AnswersFit(d)
    BY <1>1 DEF OneAnswer
  <2> QED
    BY <2>1, <2>2 DEF AnswersFit
<1>6. SocketAsAsked'
  BY <1>1 DEF SocketAsAsked, StepOf
<1>7. Counted'
  <2>1. \A d \in Clients \ {c} : \A p \in Params : Counts(d, p)' => Counts(d, p)
    <3> SUFFICES ASSUME NEW d \in Clients \ {c}, NEW p \in Params, Counts(d, p)'
                 PROVE  Counts(d, p)
      OBVIOUS
    <3>1. pc'[d] = pc[d] /\ box'[d] = box[d] /\ sock'[d] = sock[d] /\ lost'[d] = lost[d]
      BY DEF StepOf
    <3>2. \A i \in DOMAIN inbox' : inbox'[i].from = d => i \in DOMAIN inbox /\ inbox'[i] = inbox[i]
      BY <1>2
    <3> QED
      BY <3>1, <3>2 DEF Counts, Holds
  <2>2. conn' = conn
    BY DEF StepOf
  <2> QED
    BY <2>1, <2>2, CountedLess
<1> QED
  BY <1>3, <1>4, <1>5, <1>6, <1>7 DEF CallInv

\* A process that does not wait for the daemon, or has an answer, has no request.
LEMMA NoRequest ==
    ASSUME IndInv, interrupts = 0, NEW c \in Clients,
           \/ pc[c] \in {"closed", "receiveFD", "open", "select", "read"}
           \/ box[c] # <<>>
    PROVE  \A i \in DOMAIN inbox : inbox[i].from # c
<1> SUFFICES ASSUME NEW i \in DOMAIN inbox, inbox[i].from = c PROVE FALSE
  OBVIOUS
<1>1. FromWaiting(inbox[i])
  BY DEF IndInv, CallInv, OneRequest
<1> QED
  BY <1>1 DEF FromWaiting

\* A step of a query leaves the rest alone.
LEMMA QuerySteps ==
    ASSUME IndInv, TypeOK', NEW c \in Clients,
           pc[c] \in {"open", "select", "read"}, pc'[c] \in {"open", "select", "read"},
           \A d \in Clients \ {c} : pc'[d] = pc[d],
           UNCHANGED <<conn, inbox, sock, box, lost, bound, interrupts>>
    PROVE  Known' /\ Listed' /\ PrivateAlone' /\ CallInv'
<1>1. StepOf(c)
  BY DEF StepOf
<1>2. /\ sock[c].s \in 0..Len(bound) /\ sock[c].s # 0
      /\ sock[c].shared => sock[c].p \in Params
  BY DEF IndInv, SocketInv, Known
<1>3. Private(c)' => Private(c)
  BY DEF Private
<1>4. Known' /\ Listed' /\ PrivateAlone'
  BY <1>1, <1>2, <1>3, StepSockets
<1>5. HasReply(c)'
  BY DEF HasReply
<1>6. interrupts = 0 =>
        /\ \A i \in DOMAIN inbox : inbox[i].from # c
        /\ AnswersFit(c) /\ bound[sock[c].s] = sock[c].p
  BY NoRequest DEF IndInv, CallInv, OneAnswer, SocketAsAsked
<1>7. interrupts = 0 => AnswersFit(c)'
  BY <1>6 DEF AnswersFit
<1>8. \A p \in Params : Counts(c, p)' => Counts(c, p)
  BY DEF Counts, Holds
<1>9. CallInv'
  BY <1>1, <1>5, <1>6, <1>7, <1>8, StepCalls
<1> QED
  BY <1>4, <1>9

\* OBDIIPerformQuery writes a command.
LEMMA QueryKeeps ==
    ASSUME IndInv, NEW c \in Clients, NEW k \in Commands, Query(c, k) PROVE IndInv'
<1>1. /\ pc[c] = "open" /\ pc' = [pc EXCEPT ![c] = "select"]
      /\ UNCHANGED <<conn, inbox, sock, box, lost, bound, interrupts>>
  BY DEF Query, daemonVars, faultVars
<1>2. pc'[c] = "select" /\ \A d \in Clients \ {c} : pc'[d] = pc[d]
  BY <1>1 DEF IndInv, SocketInv, TypeOK
<1> QED
  BY <1>1, <1>2, QueryQueries, QuerySteps DEF IndInv, SocketInv

\* select returns.
LEMMA SelectKeeps ==
    ASSUME IndInv, NEW c \in Clients, Select(c) PROVE IndInv'
<1>1. /\ pc[c] = "select" /\ pc' = [pc EXCEPT ![c] = "read"]
      /\ UNCHANGED <<conn, inbox, sock, box, lost, bound, interrupts>>
  BY DEF Select, daemonVars, faultVars
<1>2. pc'[c] = "read" /\ \A d \in Clients \ {c} : pc'[d] = pc[d]
  BY <1>1 DEF IndInv, SocketInv, TypeOK
<1> QED
  BY <1>1, <1>2, SelectQueries, QuerySteps DEF IndInv, SocketInv

\* An answer is read and decoded, or rejected.
LEMMA ReadKeeps ==
    ASSUME IndInv, NEW c \in Clients, Read(c) PROVE IndInv'
<1>1. /\ pc[c] = "read" /\ pc' = [pc EXCEPT ![c] = "open"]
      /\ UNCHANGED <<conn, inbox, sock, box, lost, bound, interrupts>>
  BY DEF Read, daemonVars, faultVars
<1>2. pc'[c] = "open" /\ \A d \in Clients \ {c} : pc'[d] = pc[d]
  BY <1>1 DEF IndInv, SocketInv, TypeOK
<1> QED
  BY <1>1, <1>2, ReadQueries, QuerySteps DEF IndInv, SocketInv

\* A query times out.
LEMMA TimeoutKeeps ==
    ASSUME IndInv, NEW c \in Clients, Timeout(c) PROVE IndInv'
<1>1. /\ pc[c] = "select" /\ pc' = [pc EXCEPT ![c] = "open"]
      /\ given' = [given EXCEPT ![sock[c].s] = given[sock[c].s] + 1]
      /\ asked' = [asked EXCEPT ![c] = NoResult] /\ NoAnswer
      /\ UNCHANGED <<conn, inbox, sock, fds, box, lost, bound, ecu, rx, sent, opens,
                     interrupts, deaths, restarts>>
  BY DEF Timeout, daemonVars, faultVars
<1>2. pc'[c] = "open" /\ \A d \in Clients \ {c} : pc'[d] = pc[d]
  BY <1>1 DEF IndInv, SocketInv, TypeOK
<1>3. /\ QueryInv'
      /\ given' \in Seq(Nat) /\ Len(given') = Len(given)
      /\ asked' \in [Clients -> Results] /\ result' \in Results
  BY <1>1, <1>2, GivenUp
<1>4. TypeOK'
  BY <1>1, <1>3 DEF IndInv, SocketInv, TypeOK
<1> QED
  BY <1>1, <1>2, <1>3, <1>4, QuerySteps DEF IndInv, SocketInv

\* The car touches nothing but the queues of a socket.
LEMMA CarKeeps ==
    ASSUME IndInv, NEW s \in Sockets, Car(s) PROVE IndInv'
<1>1. UNCHANGED <<conn, inbox, pc, sock, box, lost, bound, interrupts>>
  BY DEF Car, CarAnswers, CarIgnores, daemonVars, callVars, faultVars
<1>2. QueryInv' /\ TypeOK'
  BY CarQueries
<1>3. Known' /\ Listed' /\ PrivateAlone'
  BY <1>1 DEF IndInv, SocketInv, Known, Listed, PrivateAlone, Private
<1>4. Replied'
  BY <1>1 DEF IndInv, CallInv, Replied, HasReply
<1>5. OneRequest'
  BY <1>1 DEF IndInv, CallInv, OneRequest, FromWaiting
<1>6. OneAnswer' /\ SocketAsAsked'
  BY <1>1 DEF IndInv, CallInv, OneAnswer, AnswersFit, SocketAsAsked
<1>7. Counted'
  BY <1>1, <1>2, CountedLess DEF Counts, Holds
<1> QED
  BY <1>2, <1>3, <1>4, <1>5, <1>6, <1>7 DEF IndInv, SocketInv, CallInv

\* A process dies.
LEMMA DiesKeeps ==
    ASSUME IndInv, NEW c \in Clients, pc[c] # "dead", Dies(c), deaths' \in Nat
    PROVE  IndInv'
<1>1. /\ pc' = [pc EXCEPT ![c] = "dead"] /\ fds' = [fds EXCEPT ![c] = {}]
      /\ box' = [box EXCEPT ![c] = <<>>] /\ sock' = [sock EXCEPT ![c] = NoSocket]
      /\ \/ given' = given
         \/ /\ pc[c] \in {"select", "read"}
            /\ given' = [given EXCEPT ![sock[c].s] = given[sock[c].s] + 1]
      /\ asked' = [asked EXCEPT ![c] = NoResult] /\ NoAnswer
      /\ UNCHANGED <<conn, inbox, lost, bound, ecu, rx, sent, opens, interrupts, restarts>>
  BY DEF Dies, daemonVars
<1>2. /\ pc'[c] = "dead" /\ box'[c] = <<>> /\ sock'[c] = NoSocket
      /\ \A d \in Clients \ {c} : pc'[d] = pc[d] /\ sock'[d] = sock[d] /\ box'[d] = box[d]
  BY <1>1 DEF IndInv, SocketInv, TypeOK
<1>3. sock'[c].s = 0 /\ ~sock'[c].shared /\ ~Private(c)'
  BY <1>2 DEF NoSocket, Private
<1>4. /\ QueryInv'
      /\ given' \in Seq(Nat) /\ Len(given') = Len(given)
      /\ asked' \in [Clients -> Results] /\ result' \in Results
  BY <1>1, <1>2, <1>3, GivenUp
<1>5. TypeOK'
  <2>1. sock' \in [Clients -> Sock]
    <3>1. NoSocket \in Sock
      BY DEF NoSocket, Sock
    <3> QED
      BY <1>1, <3>1 DEF IndInv, SocketInv, TypeOK
  <2>2. fds' \in [Clients -> SUBSET Nat]
    BY <1>1 DEF IndInv, SocketInv, TypeOK
  <2>3. box' \in [Clients -> Seq(Datagrams)]
    <3>1. <<>> \in Seq(Datagrams)
      OBVIOUS
    <3> QED
      BY <1>1, <3>1 DEF IndInv, SocketInv, TypeOK
  <2> QED
    BY <1>1, <1>4, <2>1, <2>2, <2>3 DEF IndInv, SocketInv, TypeOK
<1>6. StepOf(c)
  BY <1>1, <1>2 DEF StepOf
<1>7. Known' /\ Listed' /\ PrivateAlone'
  <2>1. 0 \in 0..Len(bound) /\ \A i \in DOMAIN box'[c] : FALSE
    BY <1>2, SocketTypes DEF IndInv, SocketInv
  <2> QED
    BY <1>2, <1>3, <1>6, <2>1, StepSockets
<1>8. HasReply(c)'
  BY <1>2 DEF HasReply
<1>9. AnswersFit(c)'
  BY <1>2 DEF AnswersFit
<1>10. \A p \in Params : Counts(c, p)' => Counts(c, p)
  BY <1>1, <1>2, <1>3 DEF Counts, Holds
<1>11. CallInv'
  BY <1>1, <1>2, <1>5, <1>6, <1>8, <1>9, <1>10, StepCalls
<1> QED
  BY <1>4, <1>5, <1>7, <1>11 DEF IndInv, SocketInv

\* An OBDIISocket that is not open has its type.
LEMMA NoSocketType == NoSocket \in Sock /\ NoSocket.s = 0 /\ ~NoSocket.shared
BY DEF NoSocket, Sock

\* No result is one of its type.
LEMMA NoResultType == NoResult \in Results
BY DEF NoResult, Results

\* A request to open is sent.
LEMMA OpenSharedKeeps ==
    ASSUME IndInv, NEW c \in Clients, NEW p \in Params, OpenShared(c, p) PROVE IndInv'
<1> DEFINE r == [from |-> c, open |-> TRUE, p |-> p]
           k == [s |-> 0, p |-> p, shared |-> TRUE]
<1>1. /\ pc[c] = "closed" /\ ~lost[c] /\ opens < MaxOpens /\ opens' = opens + 1
      /\ sock' = [sock EXCEPT ![c] = k] /\ pc' = [pc EXCEPT ![c] = "opening"]
      /\ inbox' = Append(inbox, r) /\ NoAnswer
      /\ UNCHANGED <<conn, fds, box, lost, asked, bound, ecu, rx, sent, given,
                     interrupts, deaths, restarts>>
  BY DEF OpenShared, Request, faultVars
<1>2. /\ r \in Requests /\ r.from = c /\ r.open /\ r.p = p
      /\ k \in Sock /\ k.s = 0 /\ k.p = p /\ k.shared
  BY DEF Requests, Sock
<1> HIDE DEF r, k
<1>3. /\ pc'[c] = "opening" /\ sock'[c] = k
      /\ \A d \in Clients \ {c} : pc'[d] = pc[d] /\ sock'[d] = sock[d] /\ box'[d] = box[d]
  BY <1>1 DEF IndInv, SocketInv, TypeOK
<1>4. /\ inbox' \in Seq(Requests) /\ Len(inbox) + 1 \in DOMAIN inbox'
      /\ inbox'[Len(inbox) + 1] = r /\ Len(inbox) + 1 \notin DOMAIN inbox
      /\ DOMAIN inbox = 1..Len(inbox) /\ DOMAIN inbox' = 1..(Len(inbox) + 1)
      /\ \A i \in 1..Len(inbox) : inbox'[i] = inbox[i]
  <2>1. inbox \in Seq(Requests)
    BY DEF IndInv, SocketInv, TypeOK
  <2> QED
    BY <1>1, <1>2, <2>1, AppendOf
<1>5. StepOf(c)
  BY <1>1, <1>2, <1>3 DEF StepOf
<1>6. TypeOK'
  <2>1. opens' \in 0..MaxOpens
    BY <1>1, ObdiiAssumption DEF IndInv, SocketInv, TypeOK
  <2>2. sock' \in [Clients -> Sock]
    BY <1>1, <1>2 DEF IndInv, SocketInv, TypeOK
  <2> QED
    BY <1>1, <1>4, <2>1, <2>2, NoResultType DEF NoAnswer, IndInv, SocketInv, TypeOK
<1>7. QueryInv'
  BY <1>1, <1>2, <1>3, QueriesSame DEF Private
<1>8. Known' /\ Listed' /\ PrivateAlone'
  <2>1. 0 \in 0..Len(bound) /\ ~Private(c)'
    BY <1>2, <1>3, SocketTypes DEF IndInv, SocketInv, Private
  <2> QED
    BY <1>1, <1>2, <1>3, <1>5, <2>1, StepSockets
<1>9. HasReply(c)'
  BY <1>2, <1>3, <1>4 DEF HasReply
<1>10. interrupts = 0 => (\A i \in DOMAIN inbox : inbox[i].from # c) /\ box[c] = <<>>
  BY <1>1, NoRequest DEF IndInv, CallInv, OneAnswer, AnswersFit
<1>11. interrupts = 0 => AnswersFit(c)'
  BY <1>1, <1>3, <1>10 DEF AnswersFit
<1>12. interrupts = 0 => \A q \in Params : Counts(c, q)' => Counts(c, q)
  <2> SUFFICES ASSUME interrupts = 0, NEW q \in Params, Counts(c, q)' PROVE FALSE
    OBVIOUS
  <2>1. box'[c] = <<>>
    BY <1>1, <1>10
  <2>2. ~Holds(c, q)'
    BY <1>3 DEF Holds
  <2>3. PICK i \in DOMAIN inbox' : inbox'[i].from = c /\ ~inbox'[i].open
    BY <2>1, <2>2 DEF Counts
  <2>4. i \in DOMAIN inbox
    BY <1>2, <1>4, <2>3
  <2> QED
    BY <1>4, <1>10, <2>3, <2>4
<1>13. LET q == inbox'[Len(inbox) + 1] IN
       /\ ~lost[c] /\ q.p = sock'[c].p
       /\ pc'[c] = IF q.open THEN "opening" ELSE "closing"
  BY <1>1, <1>2, <1>3, <1>4
<1>14. CallInv'
  BY <1>1, <1>3, <1>5, <1>6, <1>9, <1>10, <1>11, <1>12, <1>13, StepCalls
<1> QED
  BY <1>6, <1>7, <1>8, <1>14 DEF IndInv, SocketInv

\* A process gives its socket up without the daemon: a private one, or a shared one
\* of a daemon that is gone.
LEMMA LeaveKeeps ==
    ASSUME IndInv, TypeOK', NEW c \in Clients, pc[c] = "open" \/ interrupts' # 0,
           pc' = [pc EXCEPT ![c] = "closed"], sock' = [sock EXCEPT ![c] = NoSocket],
           NoAnswer, interrupts' = 0 => interrupts = 0,
           UNCHANGED <<conn, inbox, box, lost, asked, bound, ecu, rx, sent, given>>
    PROVE  IndInv'
<1>1. /\ pc'[c] = "closed" /\ sock'[c] = NoSocket
      /\ \A d \in Clients \ {c} : pc'[d] = pc[d] /\ sock'[d] = sock[d] /\ box'[d] = box[d]
  BY DEF IndInv, SocketInv, TypeOK
<1>2. sock'[c].s = 0 /\ ~sock'[c].shared /\ ~Private(c)'
  BY <1>1, NoSocketType DEF Private
<1>3. StepOf(c)
  BY <1>1 DEF StepOf
<1>4. QueryInv'
  BY <1>1, <1>2, QueriesSame
<1>5. Known' /\ Listed' /\ PrivateAlone'
  <2>1. 0 \in 0..Len(bound)
    BY SocketTypes DEF IndInv, SocketInv
  <2> QED
    BY <1>1, <1>2, <1>3, <2>1, StepSockets
<1>6. HasReply(c)'
  BY <1>1 DEF HasReply
<1>7. interrupts' = 0 => (\A i \in DOMAIN inbox : inbox[i].from # c) /\ box[c] = <<>>
  BY NoRequest DEF IndInv, CallInv, OneAnswer, AnswersFit
<1>8. interrupts' = 0 => AnswersFit(c)'
  BY <1>1, <1>7 DEF AnswersFit
<1>9. \A p \in Params : Counts(c, p)' => Counts(c, p)
  BY <1>1, <1>2 DEF Counts, Holds
<1>10. CallInv'
  BY <1>1, <1>3, <1>6, <1>7, <1>8, <1>9, StepCalls
<1> QED
  BY <1>4, <1>5, <1>10 DEF IndInv, SocketInv

\* OBDIICloseSocket: a private socket is closed, a shared one given back.
LEMMA CloseKeeps ==
    ASSUME IndInv, NEW c \in Clients, Close(c) PROVE IndInv'
<1>1. /\ pc[c] = "open" /\ NoAnswer
      /\ UNCHANGED <<opens, conn, box, lost, asked, bound, ecu, rx, sent, given,
                     interrupts, deaths, restarts>>
  BY DEF Close, faultVars
<1>2. CASE ~sock[c].shared \/ lost[c]
  <2>1. /\ pc' = [pc EXCEPT ![c] = "closed"] /\ sock' = [sock EXCEPT ![c] = NoSocket]
        /\ inbox' = inbox
        /\ fds' = fds \/ fds' = [fds EXCEPT ![c] = fds[c] \ {sock[c].s}]
    BY <1>2 DEF Close, Request
  <2>2. sock' \in [Clients -> Sock]
    BY <2>1, NoSocketType DEF IndInv, SocketInv, TypeOK
  <2>3. fds' \in [Clients -> SUBSET Nat]
    BY <2>1 DEF IndInv, SocketInv, TypeOK
  <2>4. TypeOK'
    BY <1>1, <2>1, <2>2, <2>3, NoResultType DEF NoAnswer, IndInv, SocketInv, TypeOK
  <2> QED
    BY <1>1, <2>1, <2>4, LeaveKeeps
<1>3. CASE sock[c].shared /\ ~lost[c]
  <2> DEFINE p == sock[c].p
             r == [from |-> c, open |-> FALSE, p |-> p]
             k == [s |-> 0, p |-> p, shared |-> TRUE]
  <2>1. /\ sock' = [sock EXCEPT ![c] = k] /\ pc' = [pc EXCEPT ![c] = "closing"]
        /\ inbox' = Append(inbox, r) /\ fds' = fds
    BY <1>3 DEF Close, Request
  <2>2. p \in Params
    BY <1>3 DEF IndInv, SocketInv, Known
  <2> HIDE DEF p
  <2>3. /\ r \in Requests /\ r.from = c /\ ~r.open /\ r.p = p
        /\ k \in Sock /\ k.s = 0 /\ k.p = p /\ k.shared
    BY <2>2 DEF Requests, Sock
  <2> HIDE DEF r, k
  <2>4. /\ pc'[c] = "closing" /\ sock'[c] = k
        /\ \A d \in Clients \ {c} : pc'[d] = pc[d] /\ sock'[d] = sock[d] /\ box'[d] = box[d]
    BY <1>1, <2>1 DEF IndInv, SocketInv, TypeOK
  <2>5. /\ inbox' \in Seq(Requests) /\ Len(inbox) + 1 \in DOMAIN inbox'
        /\ inbox'[Len(inbox) + 1] = r /\ Len(inbox) + 1 \notin DOMAIN inbox
        /\ DOMAIN inbox = 1..Len(inbox) /\ DOMAIN inbox' = 1..(Len(inbox) + 1)
        /\ \A i \in 1..Len(inbox) : inbox'[i] = inbox[i]
    <3>1. inbox \in Seq(Requests)
      BY DEF IndInv, SocketInv, TypeOK
    <3> QED
      BY <2>1, <2>3, <3>1, AppendOf
  <2>6. StepOf(c)
    BY <1>1, <2>1, <2>3, <2>4 DEF StepOf
  <2>7. TypeOK'
    <3>1. sock' \in [Clients -> Sock]
      BY <2>1, <2>3 DEF IndInv, SocketInv, TypeOK
    <3> QED
      BY <1>1, <2>1, <2>5, <3>1, NoResultType DEF NoAnswer, IndInv, SocketInv, TypeOK
  <2>8. QueryInv'
    BY <1>1, <2>3, <2>4, QueriesSame DEF Private
  <2>9. Known' /\ Listed' /\ PrivateAlone'
    <3>1. 0 \in 0..Len(bound) /\ ~Private(c)'
      BY <2>3, <2>4, SocketTypes DEF IndInv, SocketInv, Private
    <3> QED
      BY <1>1, <2>2, <2>3, <2>4, <2>6, <3>1, StepSockets
  <2>10. HasReply(c)'
    BY <2>3, <2>4, <2>5 DEF HasReply
  <2>11. interrupts = 0 => (\A i \in DOMAIN inbox : inbox[i].from # c) /\ box[c] = <<>>
    BY <1>1, NoRequest DEF IndInv, CallInv, OneAnswer, AnswersFit
  <2>12. interrupts = 0 => AnswersFit(c)'
    <3>1. Len(<<>>) <= 1
      OBVIOUS
    <3> QED
      BY <1>1, <2>4, <2>11, <3>1 DEF AnswersFit
  <2>13. \A q \in Params : Counts(c, q)' => Counts(c, q)
    <3> SUFFICES ASSUME NEW q \in Params, Counts(c, q)' PROVE Counts(c, q)
      OBVIOUS
    <3>1. ~Holds(c, q)' /\ pc'[c] # "opening"
      BY <2>4 DEF Holds
    <3>2. PICK i \in DOMAIN inbox' : inbox'[i].from = c /\ ~inbox'[i].open /\ inbox'[i].p = q
      BY <3>1 DEF Counts
    <3>3. CASE i \in DOMAIN inbox
      BY <2>5, <3>2, <3>3 DEF Counts
    <3>4. CASE i = Len(inbox) + 1
      <4>1. q = sock[c].p
        BY <2>3, <2>5, <3>2, <3>4 DEF p
      <4> QED
        BY <1>1, <1>3, <4>1 DEF Counts, Holds
    <3> QED
      BY <2>5, <3>2, <3>3, <3>4
  <2>14. CallInv'
    BY <1>1, <1>3, <2>3, <2>4, <2>5, <2>6, <2>7, <2>10, <2>11, <2>12, <2>13, StepCalls
  <2> QED
    BY <2>7, <2>8, <2>9, <2>14 DEF IndInv, SocketInv
<1> QED
  BY <1>2, <1>3

\* A call is interrupted.
LEMMA InterruptedKeeps ==
    ASSUME IndInv, NEW c \in Clients, Interrupted(c) PROVE IndInv'
<1>1. /\ interrupts' = interrupts + 1 /\ NoAnswer
      /\ pc' = [pc EXCEPT ![c] = "closed"] /\ sock' = [sock EXCEPT ![c] = NoSocket]
      /\ UNCHANGED <<opens, conn, inbox, fds, box, lost, asked, bound, ecu, rx, sent, given,
                     deaths, restarts>>
  BY DEF Interrupted, daemonVars, carVars
<1>2. interrupts' \in Nat /\ interrupts' # 0
  BY <1>1 DEF IndInv, SocketInv, TypeOK
<1>3. TypeOK'
  <2>1. sock' \in [Clients -> Sock]
    BY <1>1, NoSocketType DEF IndInv, SocketInv, TypeOK
  <2> QED
    BY <1>1, <1>2, <2>1, NoResultType DEF NoAnswer, IndInv, SocketInv, TypeOK
<1> QED
  BY <1>1, <1>2, <1>3, LeaveKeeps

\* The datagrams that wait, after the first is taken.
LEMMA BoxTail ==
    ASSUME IndInv, NEW c \in Clients, box[c] # <<>>, box' = [box EXCEPT ![c] = Tail(box[c])]
    PROVE  /\ box'[c] = Tail(box[c]) /\ \A d \in Clients \ {c} : box'[d] = box[d]
           /\ Len(box[c]) \in Nat \ {0} /\ DOMAIN box[c] = 1..Len(box[c])
           /\ Head(box[c]) = box[c][1] /\ box[c][1] \in Datagrams /\ box[c][1].fd \in Nat
           /\ box' \in [Clients -> Seq(Datagrams)]
           /\ Len(box'[c]) = Len(box[c]) - 1 /\ DOMAIN box'[c] = 1..(Len(box[c]) - 1)
           /\ \A i \in 1..(Len(box[c]) - 1) : box'[c][i] = box[c][i + 1]
           /\ Len(box[c]) = 1 => box'[c] = <<>>
           /\ \A i \in DOMAIN box'[c] : \E j \in DOMAIN box[c] : box'[c][i].fd = box[c][j].fd
<1>1. box \in [Clients -> Seq(Datagrams)] /\ box[c] \in Seq(Datagrams)
  BY DEF IndInv, SocketInv, TypeOK
<1>2. box'[c] = Tail(box[c]) /\ \A d \in Clients \ {c} : box'[d] = box[d]
  BY <1>1
<1>3. /\ Len(box[c]) \in Nat \ {0} /\ DOMAIN box[c] = 1..Len(box[c])
      /\ Head(box[c]) = box[c][1] /\ box[c][1] \in Datagrams
      /\ Tail(box[c]) \in Seq(Datagrams)
      /\ Len(box'[c]) = Len(box[c]) - 1 /\ DOMAIN box'[c] = 1..(Len(box[c]) - 1)
      /\ \A i \in 1..(Len(box[c]) - 1) : box'[c][i] = box[c][i + 1]
      /\ Len(box[c]) = 1 => box'[c] = <<>>
  BY <1>1, <1>2, TailOf
<1>4. box' \in [Clients -> Seq(Datagrams)]
  BY <1>1, <1>3
<1>5. box[c][1].fd \in Nat
  BY <1>3 DEF Datagrams
<1>6. \A i \in DOMAIN box'[c] : i + 1 \in DOMAIN box[c] /\ box'[c][i].fd = box[c][i + 1].fd
  BY <1>3
<1> QED
  BY <1>2, <1>3, <1>4, <1>5, <1>6

\* The response code is received.
LEMMA ReceiveCodeKeeps ==
    ASSUME IndInv, NEW c \in Clients, ReceiveCode(c) PROVE IndInv'
<1> DEFINE granted == pc[c] = "opening" /\ box[c][1].code = "success"
<1>1. /\ pc[c] \in {"opening", "closing"} /\ box[c] # <<>>
      /\ box' = [box EXCEPT ![c] = Tail(box[c])]
      /\ pc' = [pc EXCEPT ![c] = IF pc[c] = "opening" /\ Head(box[c]).code = "success"
                                 THEN "receiveFD" ELSE "closed"]
      /\ sock' = [sock EXCEPT ![c] = IF pc'[c] = "closed" THEN NoSocket ELSE sock[c]]
      /\ NoAnswer
      /\ UNCHANGED <<opens, conn, inbox, fds, lost, asked, bound, ecu, rx, sent, given,
                     interrupts, deaths, restarts>>
  BY DEF ReceiveCode, daemonVars, carVars, faultVars
<1>2. /\ box'[c] = Tail(box[c]) /\ \A d \in Clients \ {c} : box'[d] = box[d]
      /\ Len(box[c]) \in Nat \ {0} /\ Head(box[c]) = box[c][1]
      /\ box' \in [Clients -> Seq(Datagrams)]
      /\ Len(box'[c]) = Len(box[c]) - 1
      /\ \A i \in 1..(Len(box[c]) - 1) : box'[c][i] = box[c][i + 1]
      /\ Len(box[c]) = 1 => box'[c] = <<>>
      /\ \A i \in DOMAIN box'[c] : \E j \in DOMAIN box[c] : box'[c][i].fd = box[c][j].fd
  BY <1>1, BoxTail
<1>3. \A d \in Clients \ {c} : pc'[d] = pc[d] /\ sock'[d] = sock[d] /\ box'[d] = box[d]
  BY <1>1, <1>2 DEF IndInv, SocketInv, TypeOK
<1>4. pc'[c] = IF granted THEN "receiveFD" ELSE "closed"
  BY <1>1, <1>2 DEF IndInv, SocketInv, TypeOK
<1>5. sock'[c] = IF granted THEN sock[c] ELSE NoSocket
  BY <1>1, <1>4 DEF IndInv, SocketInv, TypeOK
<1> HIDE DEF granted
<1>6. TypeOK'
  <2>1. sock' \in [Clients -> Sock]
    <3>1. sock[c] \in Sock
      BY ClientTypes DEF IndInv, SocketInv
    <3> QED
      BY <1>1, <3>1, NoSocketType DEF IndInv, SocketInv, TypeOK
  <2> QED
    BY <1>1, <1>2, <2>1, NoResultType DEF NoAnswer, IndInv, SocketInv, TypeOK
<1>7. StepOf(c)
  BY <1>1, <1>3 DEF StepOf
<1>8. /\ sock[c].s = 0 /\ sock[c].shared /\ sock[c].p \in Params /\ 0 \in 0..Len(bound)
  BY <1>1, SocketTypes DEF IndInv, SocketInv, Known
<1>9. sock'[c].s = 0 /\ ~Private(c)'
  BY <1>5, <1>8, NoSocketType DEF Private
<1>10. QueryInv'
  BY <1>1, <1>3, <1>4, <1>9, QueriesSame
<1>11. Known' /\ Listed' /\ PrivateAlone'
  BY <1>2, <1>4, <1>5, <1>7, <1>8, <1>9, NoSocketType, StepSockets
<1>12. HasReply(c)'
  <2>1. CASE ~granted
    BY <1>4, <2>1 DEF HasReply
  <2>2. CASE granted
    <3> SUFFICES ASSUME ~lost[c]
                 PROVE  (\E i \in DOMAIN inbox : inbox[i].from = c) \/ box'[c] # <<>>
      BY <1>1, <1>4, <2>2 DEF HasReply
    <3>1. HasReply(c)
      BY DEF IndInv, CallInv, Replied
    <3>2. \/ \E i \in DOMAIN inbox : inbox[i].from = c
          \/ Len(box[c]) # 1
      BY <2>2, <3>1 DEF HasReply, granted
    <3>3. Len(box[c]) # 1 => Len(box'[c]) # 0
      BY <1>2
    <3>4. box'[c] = <<>> => Len(box'[c]) = 0
      OBVIOUS
    <3> QED
      BY <3>2, <3>3, <3>4
  <2> QED
    BY <2>1, <2>2
<1>13. interrupts = 0 => AnswersFit(c) /\ \A i \in DOMAIN inbox : inbox[i].from # c
  BY <1>1, NoRequest DEF IndInv, CallInv, OneAnswer
<1>14. interrupts = 0 => AnswersFit(c)'
  <2> HAVE interrupts = 0
  <2>1. CASE ~granted
    <3>1. Len(box[c]) = 1
      BY <1>1, <1>2, <1>13, <2>1 DEF AnswersFit, granted
    <3> QED
      BY <1>2, <1>4, <2>1, <3>1 DEF AnswersFit
  <2>2. CASE granted
    <3>1. Len(box[c]) = 2 /\ box[c][2].fd # 0 /\ bound[box[c][2].fd] = sock[c].p
      BY <1>1, <1>13, <2>2 DEF AnswersFit, granted
    <3>2. Len(box'[c]) = 1 /\ box'[c][1] = box[c][2]
      BY <1>2, <3>1
    <3> QED
      BY <1>1, <1>4, <1>5, <2>2, <3>1, <3>2 DEF AnswersFit
  <2> QED
    BY <2>1, <2>2
<1>15. \A p \in Params : Counts(c, p)' => Counts(c, p)
  <2>1. CASE ~granted
    BY <1>1, <1>4, <2>1 DEF Counts, Holds
  <2>2. CASE granted
    BY <1>1, <1>4, <1>5, <2>2 DEF Counts, Holds, granted
  <2> QED
    BY <2>1, <2>2
<1>16. CallInv'
  BY <1>1, <1>4, <1>6, <1>7, <1>12, <1>13, <1>14, <1>15, StepCalls
<1> QED
  BY <1>6, <1>10, <1>11, <1>16 DEF IndInv, SocketInv

\* The descriptor is received.
LEMMA ReceiveFDKeeps ==
    ASSUME IndInv, NEW c \in Clients, ReceiveFD(c) PROVE IndInv'
<1> DEFINE fd == Head(box[c]).fd
<1>1. /\ pc[c] = "receiveFD" /\ box[c] # <<>> /\ fd # 0
      /\ box' = [box EXCEPT ![c] = Tail(box[c])]
      /\ sock' = [sock EXCEPT ![c].s = fd]
      /\ fds' = [fds EXCEPT ![c] = fds[c] \cup {fd}]
      /\ pc' = [pc EXCEPT ![c] = "open"] /\ NoAnswer
      /\ UNCHANGED <<opens, conn, inbox, lost, asked, bound, ecu, rx, sent, given,
                     interrupts, deaths, restarts>>
  BY DEF ReceiveFD, daemonVars, carVars, faultVars
<1>2. /\ box'[c] = Tail(box[c]) /\ \A d \in Clients \ {c} : box'[d] = box[d]
      /\ fd = box[c][1].fd /\ fd \in Nat /\ 1 \in DOMAIN box[c]
      /\ box' \in [Clients -> Seq(Datagrams)]
      /\ Len(box[c]) = 1 => box'[c] = <<>>
      /\ \A i \in DOMAIN box'[c] : \E j \in DOMAIN box[c] : box'[c][i].fd = box[c][j].fd
  <2>1. /\ box'[c] = Tail(box[c]) /\ \A d \in Clients \ {c} : box'[d] = box[d]
        /\ Head(box[c]) = box[c][1] /\ box[c][1].fd \in Nat
        /\ Len(box[c]) \in Nat \ {0} /\ DOMAIN box[c] = 1..Len(box[c])
        /\ box' \in [Clients -> Seq(Datagrams)]
        /\ Len(box[c]) = 1 => box'[c] = <<>>
        /\ \A i \in DOMAIN box'[c] : \E j \in DOMAIN box[c] : box'[c][i].fd = box[c][j].fd
    BY <1>1, BoxTail
  <2>2. 1 \in DOMAIN box[c]
    BY <2>1
  <2>3. fd = box[c][1].fd /\ fd \in Nat
    BY <2>1
  <2> QED
    BY <2>1, <2>2, <2>3
<1> HIDE DEF fd
<1>3. /\ pc'[c] = "open"
      /\ \A d \in Clients \ {c} : pc'[d] = pc[d] /\ sock'[d] = sock[d] /\ box'[d] = box[d]
  BY <1>1, <1>2 DEF IndInv, SocketInv, TypeOK
<1>4. /\ sock' \in [Clients -> Sock] /\ sock'[c].s = fd /\ sock'[c].p = sock[c].p
      /\ sock'[c].shared = sock[c].shared
  <2>1. sock \in [Clients -> Sock] /\ sock[c] \in Sock
    BY DEF IndInv, SocketInv, TypeOK
  <2>2. sock'[c] = [sock[c] EXCEPT !.s = fd] /\ \A d \in Clients \ {c} : sock'[d] = sock[d]
    BY <1>1, <2>1
  <2>3. sock'[c] \in Sock /\ sock'[c].s = fd /\ sock'[c].p = sock[c].p
    BY <1>2, <2>1, <2>2 DEF Sock
  <2>4. sock'[c].shared = sock[c].shared
    BY <2>1, <2>2 DEF Sock
  <2> QED
    BY <1>1, <2>1, <2>2, <2>3, <2>4
<1>5. TypeOK'
  <2>1. fds' \in [Clients -> SUBSET Nat]
    BY <1>1, <1>2 DEF IndInv, SocketInv, TypeOK
  <2> QED
    BY <1>1, <1>2, <1>4, <2>1, NoResultType DEF NoAnswer, IndInv, SocketInv, TypeOK
<1>6. StepOf(c)
  BY <1>1, <1>3 DEF StepOf
<1>7. fd \in 0..Len(bound) /\ sock[c].shared /\ sock[c].p \in Params
  BY <1>1, <1>2 DEF IndInv, SocketInv, Known
<1>8. ~Private(c)'
  BY <1>4, <1>7 DEF Private
<1>9. QueryInv'
  BY <1>1, <1>3, <1>8, QueriesSame
<1>10. Known' /\ Listed' /\ PrivateAlone'
  BY <1>1, <1>2, <1>3, <1>4, <1>6, <1>7, <1>8, StepSockets
<1>11. HasReply(c)'
  BY <1>3 DEF HasReply
<1>12. interrupts = 0 => AnswersFit(c) /\ \A i \in DOMAIN inbox : inbox[i].from # c
  BY <1>1, NoRequest DEF IndInv, CallInv, OneAnswer
<1>13. interrupts = 0 => box'[c] = <<>> /\ bound[sock'[c].s] = sock'[c].p
  BY <1>1, <1>2, <1>4, <1>12 DEF AnswersFit
<1>14. interrupts = 0 => AnswersFit(c)'
  BY <1>3, <1>13 DEF AnswersFit
<1>15. \A p \in Params : Counts(c, p)' => Counts(c, p)
  BY <1>1, <1>3, <1>4 DEF Counts, Holds
<1>16. CallInv'
  BY <1>1, <1>3, <1>5, <1>6, <1>11, <1>12, <1>13, <1>14, <1>15, StepCalls
<1> QED
  BY <1>5, <1>9, <1>10, <1>16 DEF IndInv, SocketInv

\* The daemon is started again, and nobody is connected to it.
LEMMA DaemonRestartKeeps ==
    ASSUME IndInv, DaemonRestart PROVE IndInv'
<1>1. /\ restarts' = restarts + 1 /\ conn' = [p \in Params |-> NoConn] /\ inbox' = <<>>
      /\ lost' = [c \in Clients |-> TRUE] /\ NoAnswer
      /\ UNCHANGED <<opens, pc, sock, fds, box, asked, bound, ecu, rx, sent, given,
                     interrupts, deaths>>
  BY DEF DaemonRestart, carVars
<1>2. /\ \A p \in Params : conn'[p].s = 0 /\ conn'[p].refcount = 0
      /\ \A c \in Clients : lost'[c]
      /\ \A i \in DOMAIN inbox' : FALSE
  BY <1>1 DEF NoConn
<1>3. TypeOK'
  <2>1. conn' \in [Params -> [s : Nat, refcount : Nat]]
    BY <1>1 DEF NoConn
  <2>2. lost' \in [Clients -> BOOLEAN]
    BY <1>1
  <2>3. inbox' \in Seq(Requests) /\ restarts' \in Nat
    BY <1>1 DEF IndInv, SocketInv, TypeOK
  <2> QED
    BY <1>1, <2>1, <2>2, <2>3, NoResultType DEF NoAnswer, IndInv, SocketInv, TypeOK
<1>4. QueryInv'
  BY <1>1, QueriesSame
<1>5. Known' /\ Listed' /\ PrivateAlone'
  <2>1. 0 \in 0..Len(bound)
    BY SocketTypes DEF IndInv, SocketInv
  <2>2. Known'
    BY <1>1, <1>2, <2>1 DEF IndInv, SocketInv, Known
  <2>3. Listed'
    BY <1>2 DEF Listed
  <2>4. PrivateAlone'
    BY <1>1, <1>2 DEF IndInv, SocketInv, PrivateAlone, Private
  <2> QED
    BY <2>2, <2>3, <2>4
<1>6. Replied' /\ OneRequest'
  BY <1>2 DEF Replied, HasReply, OneRequest
<1>7. OneAnswer' /\ SocketAsAsked'
  BY <1>1 DEF IndInv, CallInv, OneAnswer, AnswersFit, SocketAsAsked
<1>8. Counted'
  <2>1. \A p \in Params : {c \in Clients : Counts(c, p)'} = {}
    BY <1>2 DEF Counts, Holds
  <2> QED
    BY <1>2, <2>1, FS_EmptySet DEF Counted
<1> QED
  BY <1>3, <1>4, <1>5, <1>6, <1>7, <1>8 DEF IndInv, SocketInv, CallInv

\* The numbers of sockets that are known, when a socket is new.
LEMMA NewNumber ==
    ASSUME IndInv
    PROVE  /\ Len(bound) + 1 \in Nat /\ Len(bound) + 1 # 0
           /\ \A p \in Params : conn[p].s # Len(bound) + 1 /\ conn[p].s \in 0..(Len(bound) + 1)
           /\ \A c \in Clients :
                 /\ sock[c].s # Len(bound) + 1 /\ sock[c].s \in 0..(Len(bound) + 1)
                 /\ \A i \in DOMAIN box[c] : /\ box[c][i].fd # Len(bound) + 1
                                             /\ box[c][i].fd \in 0..(Len(bound) + 1)
                                             /\ box[c][i].fd # 0 => box[c][i].fd \in Sockets
                 /\ sock[c].s # 0 => sock[c].s \in Sockets
           /\ \A p \in Params : conn[p].s # 0 => conn[p].s \in Sockets
<1>1. Len(bound) \in Nat /\ Sockets = 1..Len(bound)
  BY SocketTypes DEF IndInv, SocketInv
<1>2. \A x \in 0..Len(bound) : /\ x # Len(bound) + 1 /\ x \in 0..(Len(bound) + 1)
                               /\ x # 0 => x \in Sockets
  BY <1>1
<1> QED
  BY <1>1, <1>2 DEF IndInv, SocketInv, Known

\* A private socket is opened.
LEMMA OpenPrivateKeeps ==
    ASSUME IndInv, NEW c \in Clients, NEW p \in Params, OpenPrivate(c, p) PROVE IndInv'
<1> DEFINE n == Len(bound) + 1
           k == [s |-> n, p |-> p, shared |-> FALSE]
<1>1. /\ pc[c] = "closed" /\ CanBind(p) /\ NewSocket(p)
      /\ opens < MaxOpens /\ opens' = opens + 1
      /\ sock' = [sock EXCEPT ![c] = k]
      /\ fds' = [fds EXCEPT ![c] = fds[c] \cup {n}]
      /\ pc' = [pc EXCEPT ![c] = "open"] /\ NoAnswer
      /\ UNCHANGED <<conn, inbox, box, lost, asked, interrupts, deaths, restarts>>
  BY DEF OpenPrivate, daemonVars, faultVars
<1>2. /\ bound' \in Seq(Params) /\ Len(bound') = n /\ Len(bound') <= MaxSockets
      /\ ecu' \in Seq(Seq(Answers)) /\ Len(ecu') = Len(bound')
      /\ rx' \in Seq(Seq(Answers)) /\ Len(rx') = Len(bound')
      /\ sent' \in Seq(Nat) /\ Len(sent') = Len(bound')
      /\ given' \in Seq(Nat) /\ Len(given') = Len(bound')
      /\ Sockets' = Sockets \cup {n} /\ bound'[n] = p
      /\ \A s \in Sockets : bound'[s] = bound[s]
  BY <1>1, NewSocketOf DEF IndInv, SocketInv
<1>3. /\ n \in Nat /\ n # 0
      /\ \A q \in Params : conn[q].s # n /\ conn[q].s \in 0..n
      /\ \A d \in Clients :
            /\ sock[d].s # n /\ sock[d].s \in 0..n
            /\ \A i \in DOMAIN box[d] : /\ box[d][i].fd # n /\ box[d][i].fd \in 0..n
                                        /\ box[d][i].fd # 0 => box[d][i].fd \in Sockets
            /\ sock[d].s # 0 => sock[d].s \in Sockets
      /\ \A q \in Params : conn[q].s # 0 => conn[q].s \in Sockets
  BY NewNumber
<1> HIDE DEF n
<1>4. k \in Sock /\ k.s = n /\ k.p = p /\ ~k.shared
  BY <1>3 DEF Sock
<1> HIDE DEF k
<1>5. /\ pc'[c] = "open" /\ sock'[c] = k
      /\ \A d \in Clients \ {c} : pc'[d] = pc[d] /\ sock'[d] = sock[d]
  BY <1>1 DEF IndInv, SocketInv, TypeOK
<1>6. TypeOK'
  <2>1. sock' \in [Clients -> Sock]
    BY <1>1, <1>4 DEF IndInv, SocketInv, TypeOK
  <2>2. fds' \in [Clients -> SUBSET Nat]
    BY <1>1, <1>3 DEF IndInv, SocketInv, TypeOK
  <2>3. opens' \in 0..MaxOpens
    BY <1>1, ObdiiAssumption DEF IndInv, SocketInv, TypeOK
  <2> QED
    BY <1>1, <1>2, <2>1, <2>2, <2>3, NoResultType DEF NoAnswer, IndInv, SocketInv, TypeOK
<1>7. QueryInv'
  <2>1. \A d \in Clients : pc'[d] \in {"select", "read"} \/ Private(d)' =>
               \/ pc'[d] = pc[d] /\ sock'[d] = sock[d] /\ sock[d].s \in Sockets
               \/ pc'[d] = "open" /\ sock'[d].s = n
    <3>1. CASE \A d \in Clients \ {c} : pc[d] \in {"select", "read"} => sock[d].s # 0
      BY <1>3, <1>4, <1>5, <3>1 DEF Private
    <3> QED
      BY <3>1 DEF IndInv, SocketInv, Known
  <2> QED
    BY <1>1, <2>1, QueriesNew DEF n
<1>8. Known'
  <2>1. \A d \in Clients \ {c} :
          /\ sock'[d].s # 0 <=> pc'[d] \in {"open", "select", "read"}
          /\ pc'[d] \in {"opening", "receiveFD", "closing"} => sock'[d].shared
          /\ sock'[d].shared => sock'[d].p \in Params
    BY <1>5 DEF IndInv, SocketInv, Known
  <2>2. /\ sock'[c].s # 0 <=> pc'[c] \in {"open", "select", "read"}
        /\ pc'[c] \in {"opening", "receiveFD", "closing"} => sock'[c].shared
        /\ sock'[c].shared => sock'[c].p \in Params
    BY <1>3, <1>4, <1>5
  <2>3. \A d \in Clients : sock'[d].s \in 0..Len(bound')
    <3>1. n \in 0..n
      BY <1>3
    <3>2. sock'[c].s \in 0..n
      BY <1>4, <1>5, <3>1
    <3>3. \A d \in Clients \ {c} : sock'[d].s \in 0..n
      BY <1>3, <1>5
    <3> QED
      BY <1>2, <3>2, <3>3
  <2> QED
    BY <1>1, <1>2, <1>3, <2>1, <2>2, <2>3 DEF Known
<1>9. Listed'
  BY <1>1, <1>2, <1>3 DEF IndInv, SocketInv, Listed
<1>10. PrivateAlone'
  <2> SUFFICES ASSUME NEW d \in Clients, Private(d)'
               PROVE  /\ \A e \in Clients \ {d} : sock'[e].s # sock'[d].s
                      /\ \A q \in Params : conn[q].s # sock'[d].s
                      /\ \A e \in Clients : \A i \in DOMAIN box[e] : box[e][i].fd # sock'[d].s
    BY <1>1 DEF PrivateAlone
  <2>1. CASE d = c
    BY <1>3, <1>4, <1>5, <2>1
  <2>2. CASE d # c
    <3>1. Private(d) /\ sock'[d] = sock[d]
      BY <1>5, <2>2 DEF Private
    <3>2. /\ \A e \in Clients \ {d} : sock[e].s # sock[d].s
          /\ \A q \in Params : conn[q].s # sock[d].s
          /\ \A e \in Clients : \A i \in DOMAIN box[e] : box[e][i].fd # sock[d].s
      BY <3>1 DEF IndInv, SocketInv, PrivateAlone
    <3> QED
      BY <1>3, <1>4, <1>5, <2>2, <3>1, <3>2
  <2> QED
    BY <2>1, <2>2
<1>11. Replied'
  <2>1. \A d \in Clients : HasReply(d)'
    <3> SUFFICES ASSUME NEW d \in Clients PROVE HasReply(d)'
      OBVIOUS
    <3>1. HasReply(d)
      BY DEF IndInv, CallInv, Replied
    <3> QED
      BY <1>1, <1>5, <3>1 DEF HasReply
  <2> QED
    BY <2>1 DEF Replied
<1>12. interrupts = 0 =>
        box[c] = <<>> /\ \A i \in DOMAIN inbox : inbox[i].from # c
  BY <1>1, NoRequest DEF IndInv, CallInv, OneAnswer, AnswersFit
<1>13. OneRequest'
  <2> SUFFICES ASSUME interrupts = 0
               PROVE  /\ \A i, j \in DOMAIN inbox : inbox[i].from = inbox[j].from => i = j
                      /\ \A i \in DOMAIN inbox : FromWaiting(inbox[i])'
    BY <1>1 DEF OneRequest
  <2>1. \A i \in DOMAIN inbox : inbox[i].from \in Clients
    <3>1. inbox \in Seq(Requests)
      BY DEF IndInv, SocketInv, TypeOK
    <3>2. \A i \in DOMAIN inbox : inbox[i] \in Requests
      BY <3>1, ElementOfSeq, LenProperties
    <3> QED
      BY <3>2 DEF Requests
  <2>2. /\ \A i, j \in DOMAIN inbox : inbox[i].from = inbox[j].from => i = j
        /\ \A i \in DOMAIN inbox : FromWaiting(inbox[i])
    BY DEF IndInv, CallInv, OneRequest
  <2> QED
    BY <1>1, <1>5, <1>12, <2>1, <2>2 DEF FromWaiting
<1>14. OneAnswer'
  <2> SUFFICES ASSUME interrupts = 0, NEW d \in Clients PROVE AnswersFit(d)'
    BY <1>1 DEF OneAnswer
  <2>1. CASE d = c
    BY <1>1, <1>5, <1>12, <2>1 DEF AnswersFit
  <2>2. CASE d # c
    <3>1. AnswersFit(d)
      BY DEF IndInv, CallInv, OneAnswer
    <3>2. \A i \in DOMAIN box[d] : box[d][i].fd # 0 => bound'[box[d][i].fd] = bound[box[d][i].fd]
      BY <1>2, <1>3
    <3>3. DOMAIN box[d] = 1..Len(box[d])
      BY ClientTypes, LenProperties DEF IndInv, SocketInv
    <3>4. pc'[d] = pc[d] /\ sock'[d] = sock[d] /\ box'[d] = box[d]
      BY <1>1, <1>5, <2>2
    <3> QED
      BY <3>1, <3>2, <3>3, <3>4 DEF AnswersFit
  <2> QED
    BY <2>1, <2>2
<1>15. SocketAsAsked'
  <2> SUFFICES ASSUME interrupts = 0, NEW d \in Clients, pc'[d] \in {"open", "select", "read"}
               PROVE  bound'[sock'[d].s] = sock'[d].p
    BY <1>1 DEF SocketAsAsked
  <2>1. CASE d = c
    BY <1>2, <1>4, <1>5, <2>1
  <2>2. CASE d # c
    <3>1. pc[d] \in {"open", "select", "read"} /\ sock'[d] = sock[d]
      BY <1>5, <2>2
    <3>2. sock[d].s \in Sockets
      BY <1>3, <3>1 DEF IndInv, SocketInv, Known
    <3> QED
      BY <1>2, <3>1, <3>2 DEF IndInv, CallInv, SocketAsAsked
  <2> QED
    BY <2>1, <2>2
<1>16. Counted'
  <2>1. \A d \in Clients : \A q \in Params : Counts(d, q)' => Counts(d, q)
    <3>1. \A q \in Params : Counts(c, q)' => Counts(c, q)
      BY <1>1, <1>4, <1>5 DEF Counts, Holds
    <3>2. \A d \in Clients \ {c} : \A q \in Params : Counts(d, q)' => Counts(d, q)
      BY <1>1, <1>5 DEF Counts, Holds
    <3> QED
      BY <3>1, <3>2
  <2> QED
    BY <1>1, <1>6, <2>1, CountedLess
<1> QED
  BY <1>6, <1>7, <1>8, <1>9, <1>10, <1>11, <1>13, <1>14, <1>15, <1>16
     DEF IndInv, SocketInv, CallInv

-----------------------------------------------------------------------------
(* Steps of the daemon *)

\* The daemon takes a request of c and answers ds; sockets stay what they are.
Handles(c, ds) ==
    /\ inbox # <<>> /\ Head(inbox).from = c /\ inbox' = Tail(inbox)
    /\ ds \in Seq(Datagrams) /\ ds # <<>>
    /\ Answer(c, ds)
    /\ UNCHANGED <<pc, sock, lost, interrupts>>
    /\ Len(bound') \in Nat /\ Len(bound) <= Len(bound')
    /\ \A s \in Sockets : bound'[s] = bound[s]

\* The request.
LEMMA RequestOf ==
    ASSUME IndInv, inbox # <<>>, inbox' = Tail(inbox)
    PROVE  /\ Head(inbox) = inbox[1] /\ 1 \in DOMAIN inbox
           /\ inbox[1] \in Requests /\ inbox[1].from \in Clients /\ inbox[1].p \in Params
           /\ inbox' \in Seq(Requests)
           /\ \A i \in DOMAIN inbox' :
                 i + 1 \in DOMAIN inbox /\ i + 1 # 1 /\ inbox'[i] = inbox[i + 1] /\ i \in Nat
           /\ \A i \in DOMAIN inbox :
                 i # 1 => \E j \in DOMAIN inbox' : inbox'[j] = inbox[i]
           /\ \A i \in DOMAIN inbox : inbox[i].from \in Clients
<1>1. inbox \in Seq(Requests)
  BY DEF IndInv, SocketInv, TypeOK
<1>2. /\ Head(inbox) = inbox[1] /\ Len(inbox) \in Nat \ {0} /\ DOMAIN inbox = 1..Len(inbox)
      /\ inbox' \in Seq(Requests) /\ DOMAIN inbox' = 1..(Len(inbox) - 1)
      /\ \A i \in 1..(Len(inbox) - 1) : inbox'[i] = inbox[i + 1]
  BY <1>1, TailOf
<1>3. \A i \in DOMAIN inbox : inbox[i] \in Requests
  BY <1>1, <1>2, ElementOfSeq
<1>4. \A i \in DOMAIN inbox : inbox[i].from \in Clients /\ inbox[i].p \in Params
  BY <1>3 DEF Requests
<1>5. 1 \in DOMAIN inbox
  BY <1>2
<1>6. \A i \in DOMAIN inbox' :
         i + 1 \in DOMAIN inbox /\ i + 1 # 1 /\ inbox'[i] = inbox[i + 1] /\ i \in Nat
  BY <1>2
<1>7. \A i \in DOMAIN inbox : i # 1 => \E j \in DOMAIN inbox' : inbox'[j] = inbox[i]
  <2> SUFFICES ASSUME NEW i \in DOMAIN inbox, i # 1
               PROVE  \E j \in DOMAIN inbox' : inbox'[j] = inbox[i]
    OBVIOUS
  <2>1. i - 1 \in 1..(Len(inbox) - 1) /\ (i - 1) + 1 = i
    BY <1>2
  <2>2. i - 1 \in DOMAIN inbox' /\ inbox'[i - 1] = inbox[i]
    BY <1>2, <2>1
  <2> QED
    BY <2>2
<1> QED
  BY <1>2, <1>3, <1>4, <1>5, <1>6, <1>7

\* The datagrams that wait then.
LEMMA BoxOf ==
    ASSUME IndInv, NEW c \in Clients, NEW ds \in Seq(Datagrams), ds # <<>>, Answer(c, ds)
    PROVE  /\ box' \in [Clients -> Seq(Datagrams)]
           /\ \A d \in Clients \ {c} : box'[d] = box[d]
           /\ pc[c] = "dead" => box'[c] = box[c]
           /\ pc[c] # "dead" => /\ box'[c] # <<>>
                                /\ Len(box'[c]) = Len(box[c]) + Len(ds)
                                /\ box[c] = <<>> => box'[c] = ds
           /\ Len(box[c]) \in Nat /\ Len(ds) \in Nat \ {0}
           /\ box[c] # <<>> => Len(box[c]) # 0
           /\ box[c] = <<>> <=> Len(box[c]) = 0
           /\ \A d \in Clients : \A i \in DOMAIN box'[d] :
                 \/ i \in DOMAIN box[d] /\ box'[d][i] = box[d][i]
                 \/ \E j \in DOMAIN ds : box'[d][i] = ds[j]
<1>1. box \in [Clients -> Seq(Datagrams)] /\ box[c] \in Seq(Datagrams)
  BY DEF IndInv, SocketInv, TypeOK
<1>2. /\ Len(box[c]) \in Nat /\ Len(ds) \in Nat \ {0} /\ DOMAIN ds = 1..Len(ds)
      /\ DOMAIN box[c] = 1..Len(box[c])
      /\ box[c] = <<>> <=> Len(box[c]) = 0
  BY <1>1, LenProperties, EmptySeq
<1> DEFINE q == box[c] \o ds
<1>3. /\ q \in Seq(Datagrams) /\ Len(q) = Len(box[c]) + Len(ds) /\ DOMAIN q = 1..Len(q)
      /\ \A i \in 1..Len(q) : q[i] = IF i <= Len(box[c]) THEN box[c][i] ELSE ds[i - Len(box[c])]
  BY <1>1, ConcatProperties, LenProperties
<1>4. box[c] = <<>> => q = ds
  BY ConcatEmptySeq
<1>5. q # <<>>
  BY <1>2, <1>3
<1>6. \A i \in DOMAIN q : \/ i \in DOMAIN box[c] /\ q[i] = box[c][i]
                          \/ \E j \in DOMAIN ds : q[i] = ds[j]
  <2> SUFFICES ASSUME NEW i \in DOMAIN q
               PROVE  \/ i \in DOMAIN box[c] /\ q[i] = box[c][i]
                      \/ \E j \in DOMAIN ds : q[i] = ds[j]
    OBVIOUS
  <2>1. i \in 1..Len(q)
    BY <1>3
  <2> HIDE DEF q
  <2>2. CASE i <= Len(box[c])
    BY <1>2, <1>3, <2>1, <2>2
  <2>3. CASE ~(i <= Len(box[c]))
    <3>1. i - Len(box[c]) \in DOMAIN ds
      BY <1>2, <1>3, <2>1, <2>3
    <3> QED
      BY <1>3, <2>1, <2>3, <3>1
  <2> QED
    BY <2>2, <2>3
<1>7. CASE pc[c] = "dead"
  <2>1. box' = box
    BY <1>7 DEF Answer
  <2> QED
    BY <1>1, <1>2, <1>7, <2>1
<1>8. CASE pc[c] # "dead"
  <2>1. box' = [box EXCEPT ![c] = q]
    BY <1>8 DEF Answer
  <2> HIDE DEF q
  <2>2. box'[c] = q /\ \A d \in Clients \ {c} : box'[d] = box[d]
    BY <1>1, <2>1
  <2>3. box' \in [Clients -> Seq(Datagrams)]
    BY <1>1, <1>3, <2>1
  <2> QED
    BY <1>2, <1>3, <1>4, <1>5, <1>6, <1>8, <2>2, <2>3
<1> QED
  BY <1>7, <1>8

\* What it has to keep for the sockets.
LEMMA DaemonSockets ==
    ASSUME IndInv, NEW c, NEW ds, Handles(c, ds),
           \A p \in Params : /\ conn'[p].s \in 0..Len(bound')
                             /\ \A d \in Clients : Private(d) => conn'[p].s # sock[d].s,
           \A j \in DOMAIN ds : /\ ds[j].fd \in 0..Len(bound')
                                /\ \A d \in Clients : Private(d) => ds[j].fd # sock[d].s
    PROVE  Known' /\ PrivateAlone'
<1>1. /\ sock' = sock /\ pc' = pc /\ c \in Clients
      /\ Len(bound) \in Nat /\ Len(bound') \in Nat /\ Len(bound) <= Len(bound')
  BY RequestOf, SocketTypes DEF Handles, IndInv, SocketInv
<1>2. \A d \in Clients : \A i \in DOMAIN box'[d] :
         \/ i \in DOMAIN box[d] /\ box'[d][i] = box[d][i]
         \/ \E j \in DOMAIN ds : box'[d][i] = ds[j]
  BY <1>1, BoxOf DEF Handles
<1>3. \A x \in 0..Len(bound) : x \in 0..Len(bound')
  BY <1>1
<1>4. Known'
  <2>1. \A d \in Clients : \A i \in DOMAIN box'[d] : box'[d][i].fd \in 0..Len(bound')
    BY <1>2, <1>3 DEF IndInv, SocketInv, Known
  <2>2. \A d \in Clients :
          /\ sock[d].s \in 0..Len(bound')
          /\ sock[d].s # 0 <=> pc[d] \in {"open", "select", "read"}
          /\ pc[d] \in {"opening", "receiveFD", "closing"} => sock[d].shared
          /\ sock[d].shared => sock[d].p \in Params
    BY <1>3 DEF IndInv, SocketInv, Known
  <2> QED
    BY <1>1, <2>1, <2>2 DEF Known
<1>5. PrivateAlone'
  <2> SUFFICES ASSUME NEW d \in Clients, Private(d)
               PROVE  /\ \A e \in Clients \ {d} : sock[e].s # sock[d].s
                      /\ \A p \in Params : conn'[p].s # sock[d].s
                      /\ \A e \in Clients : \A i \in DOMAIN box'[e] : box'[e][i].fd # sock[d].s
    BY <1>1 DEF PrivateAlone, Private
  <2>1. /\ \A e \in Clients \ {d} : sock[e].s # sock[d].s
        /\ \A e \in Clients : \A i \in DOMAIN box[e] : box[e][i].fd # sock[d].s
    BY DEF IndInv, SocketInv, PrivateAlone
  <2> QED
    BY <1>2, <2>1
<1> QED
  BY <1>4, <1>5

\* An answer that fits to the request r.
Fitting(ds, r) ==
    IF r.open
    THEN \/ Len(ds) = 1 /\ ds[1].code # "success"
         \/ /\ Len(ds) = 2 /\ ds[1].code = "success"
            /\ ds[2].fd # 0 /\ bound'[ds[2].fd] = r.p
    ELSE Len(ds) = 1

\* Who has sent nothing and got nothing is not concerned.
LEMMA AnswersKept ==
    ASSUME IndInv, NEW d \in Clients, AnswersFit(d),
           pc'[d] = pc[d], sock'[d] = sock[d], box'[d] = box[d],
           \A s \in Sockets : bound'[s] = bound[s]
    PROVE  AnswersFit(d)'
<1>1. \A i \in DOMAIN box[d] : box[d][i].fd # 0 => bound'[box[d][i].fd] = bound[box[d][i].fd]
  BY NewNumber
<1>2. DOMAIN box[d] = 1..Len(box[d])
  BY ClientTypes, LenProperties DEF IndInv, SocketInv
<1> QED
  BY <1>1, <1>2 DEF AnswersFit

\* What it has to keep for the calls.
LEMMA DaemonCalls ==
    ASSUME IndInv, NEW c, NEW ds, Handles(c, ds), Fitting(ds, inbox[1])
    PROVE  Replied' /\ OneRequest' /\ OneAnswer' /\ SocketAsAsked'
<1>1. /\ sock' = sock /\ pc' = pc /\ lost' = lost /\ interrupts' = interrupts
      /\ \A s \in Sockets : bound'[s] = bound[s]
      /\ inbox # <<>> /\ inbox' = Tail(inbox)
  BY DEF Handles
<1>2. /\ 1 \in DOMAIN inbox /\ inbox[1].from = c /\ c \in Clients
      /\ \A i \in DOMAIN inbox' :
            i + 1 \in DOMAIN inbox /\ i + 1 # 1 /\ inbox'[i] = inbox[i + 1] /\ i \in Nat
      /\ \A i \in DOMAIN inbox :
            i # 1 => \E j \in DOMAIN inbox' : inbox'[j] = inbox[i]
      /\ \A i \in DOMAIN inbox : inbox[i].from \in Clients
  BY <1>1, RequestOf DEF Handles
<1>3. /\ \A d \in Clients \ {c} : box'[d] = box[d]
      /\ pc[c] = "dead" => box'[c] = box[c]
      /\ pc[c] # "dead" => /\ box'[c] # <<>>
                           /\ Len(box'[c]) = Len(box[c]) + Len(ds)
                           /\ box[c] = <<>> => box'[c] = ds
      /\ Len(box[c]) \in Nat /\ Len(ds) \in Nat \ {0}
      /\ box[c] = <<>> <=> Len(box[c]) = 0
  BY <1>2, BoxOf DEF Handles
<1>4. Replied'
  <2> SUFFICES ASSUME NEW d \in Clients PROVE HasReply(d)'
    BY DEF Replied
  <2>1. HasReply(d)
    BY DEF IndInv, CallInv, Replied
  <2>2. CASE d # c
    <3>1. \A i \in DOMAIN inbox : inbox[i].from = d => \E j \in DOMAIN inbox' : inbox'[j] = inbox[i]
      BY <1>2, <2>2
    <3> QED
      BY <1>1, <1>3, <2>1, <2>2, <3>1 DEF HasReply
  <2>3. CASE d = c
    <3> SUFFICES ASSUME ~lost[c], pc[c] # "dead", pc[c] = "opening"
                 PROVE  \/ \E i \in DOMAIN inbox' : inbox'[i].from = c /\ inbox'[i].open
                        \/ Len(box'[c]) = 1 => box'[c][1].code # "success"
      BY <1>1, <1>3, <2>3 DEF HasReply
    <3>1. CASE inbox[1].open
      <4> SUFFICES ASSUME Len(box'[c]) = 1 PROVE box'[c][1].code # "success"
        OBVIOUS
      <4>1. Len(box[c]) = 0 /\ Len(ds) = 1
        BY <1>3
      <4> QED
        BY <1>3, <3>1, <4>1 DEF Fitting
    <3>2. CASE ~inbox[1].open
      <4>1. CASE \E i \in DOMAIN inbox : inbox[i].from = c /\ inbox[i].open
        BY <1>2, <3>2, <4>1
      <4>2. CASE box[c] # <<>>
        <5>1. Len(box[c]) \in Nat \ {0} /\ Len(ds) \in Nat \ {0}
          BY <1>3, <4>2
        <5>2. Len(box[c]) + Len(ds) # 1
          BY <5>1
        <5> QED
          BY <1>3, <5>2
      <4> QED
        BY <2>1, <2>3, <4>1, <4>2 DEF HasReply
    <3> QED
      BY <3>1, <3>2
  <2> QED
    BY <2>2, <2>3
<1>5. OneRequest'
  <2> SUFFICES ASSUME interrupts = 0
               PROVE  /\ \A i, j \in DOMAIN inbox' : inbox'[i].from = inbox'[j].from => i = j
                      /\ \A i \in DOMAIN inbox' : FromWaiting(inbox[i])'
    BY <1>1 DEF OneRequest
  <2>1. /\ \A i, j \in DOMAIN inbox : inbox[i].from = inbox[j].from => i = j
        /\ \A i \in DOMAIN inbox : FromWaiting(inbox[i])
    BY DEF IndInv, CallInv, OneRequest
  <2>2. \A i, j \in DOMAIN inbox' : inbox'[i].from = inbox'[j].from => i = j
    <3> SUFFICES ASSUME NEW i \in DOMAIN inbox', NEW j \in DOMAIN inbox',
                        inbox'[i].from = inbox'[j].from
                 PROVE  i = j
      OBVIOUS
    <3>1. i + 1 = j + 1
      BY <1>2, <2>1
    <3> QED
      BY <1>2, <3>1
  <2>3. \A i \in DOMAIN inbox' : FromWaiting(inbox[i])'
    <3> SUFFICES ASSUME NEW i \in DOMAIN inbox' PROVE FromWaiting(inbox[i])'
      OBVIOUS
    <3> DEFINE r == inbox[i + 1]
    <3>1. inbox'[i] = r /\ r.from \in Clients \ {c} /\ FromWaiting(r)
      BY <1>2, <2>1
    <3> HIDE DEF r
    <3> QED
      BY <1>1, <1>3, <3>1 DEF FromWaiting
  <2> QED
    BY <2>2, <2>3
<1>6. OneAnswer'
  <2> SUFFICES ASSUME interrupts = 0, NEW d \in Clients PROVE AnswersFit(d)'
    BY <1>1 DEF OneAnswer
  <2>1. AnswersFit(d)
    BY DEF IndInv, CallInv, OneAnswer
  <2>2. CASE d # c
    BY <1>1, <1>3, <2>1, <2>2, AnswersKept
  <2>3. CASE d = c
    <3>1. FromWaiting(inbox[1])
      BY <1>2 DEF IndInv, CallInv, OneRequest
    <3>2. /\ box[c] = <<>>
          /\ pc[c] = "dead" \/ (/\ pc[c] = IF inbox[1].open THEN "opening" ELSE "closing"
                                /\ inbox[1].p = sock[c].p)
      BY <1>2, <3>1 DEF FromWaiting
    <3>3. CASE pc[c] = "dead"
      BY <1>1, <1>3, <2>3, <3>2, <3>3 DEF AnswersFit
    <3>4. CASE pc[c] # "dead" /\ inbox[1].open
      <4>1. pc[c] = "opening" /\ inbox[1].p = sock[c].p /\ box'[c] = ds
        BY <1>3, <3>2, <3>4
      <4> QED
        BY <1>1, <2>3, <3>4, <4>1 DEF AnswersFit, Fitting
    <3>5. CASE pc[c] # "dead" /\ ~inbox[1].open
      <4>1. pc[c] = "closing" /\ box'[c] = ds /\ Len(ds) = 1
        BY <1>3, <3>2, <3>5 DEF Fitting
      <4> QED
        BY <1>1, <2>3, <4>1 DEF AnswersFit
    <3> QED
      BY <3>3, <3>4, <3>5
  <2> QED
    BY <2>2, <2>3
<1>7. SocketAsAsked'
  <2> SUFFICES ASSUME interrupts = 0, NEW d \in Clients, pc[d] \in {"open", "select", "read"}
               PROVE  bound'[sock[d].s] = sock[d].p
    BY <1>1 DEF SocketAsAsked
  <2>1. sock[d].s \in Sockets
    BY OwnSocket
  <2> QED
    BY <1>1, <2>1 DEF IndInv, CallInv, SocketAsAsked
<1> QED
  BY <1>4, <1>5, <1>6, <1>7

\* Who counts then: c counts no more, or its open was granted.
LEMMA DaemonCounts ==
    ASSUME IndInv, NEW c, NEW ds, Handles(c, ds), interrupts = 0
    PROVE  \A d \in Clients : \A q \in Params : Counts(d, q)' =>
               \/ d # c /\ Counts(d, q)
               \/ d = c /\ inbox[1].open /\ q = inbox[1].p /\ ds[1].code = "success"
<1> SUFFICES ASSUME NEW d \in Clients, NEW q \in Params, Counts(d, q)'
             PROVE  \/ d # c /\ Counts(d, q)
                    \/ d = c /\ inbox[1].open /\ q = inbox[1].p /\ ds[1].code = "success"
  OBVIOUS
<1>1. /\ sock' = sock /\ pc' = pc /\ lost' = lost /\ inbox # <<>> /\ inbox' = Tail(inbox)
  BY DEF Handles
<1>2. /\ 1 \in DOMAIN inbox /\ inbox[1].from = c /\ c \in Clients
      /\ \A i \in DOMAIN inbox' :
            i + 1 \in DOMAIN inbox /\ i + 1 # 1 /\ inbox'[i] = inbox[i + 1]
  BY <1>1, RequestOf DEF Handles
<1>3. /\ \A e \in Clients \ {c} : box'[e] = box[e]
      /\ pc[c] = "dead" => box'[c] = box[c]
      /\ pc[c] # "dead" /\ box[c] = <<>> => box'[c] = ds
  BY <1>2, BoxOf DEF Handles
<1>4. CASE d # c
  <2>1. (\E i \in DOMAIN inbox' : inbox'[i].from = d /\ ~inbox'[i].open /\ inbox'[i].p = q)
          => \E i \in DOMAIN inbox : inbox[i].from = d /\ ~inbox[i].open /\ inbox[i].p = q
    BY <1>2
  <2> QED
    BY <1>1, <1>3, <1>4, <2>1 DEF Counts, Holds
<1>5. CASE d = c
  <2>1. \A i \in DOMAIN inbox' : inbox'[i].from # c
    BY <1>2 DEF IndInv, CallInv, OneRequest
  <2>2. FromWaiting(inbox[1])
    BY <1>2 DEF IndInv, CallInv, OneRequest
  <2>3. /\ box[c] = <<>>
        /\ pc[c] = "dead" \/ (/\ pc[c] = IF inbox[1].open THEN "opening" ELSE "closing"
                              /\ inbox[1].p = sock[c].p)
    BY <1>2, <2>2 DEF FromWaiting
  <2>4. pc[c] = "opening" /\ sock[c].p = q /\ box'[c][1].code = "success"
    BY <1>1, <1>5, <2>1, <2>3 DEF Counts, Holds
  <2> QED
    BY <1>3, <1>5, <2>3, <2>4
<1> QED
  BY <1>4, <1>5

\* One process more counts, and the refcount grows.
LEMMA CountedUp ==
    ASSUME IndInv, TypeOK', interrupts' = interrupts, NEW c \in Clients, NEW p \in Params,
           interrupts = 0 => \A d \in Clients : \A q \in Params : Counts(d, q)' =>
               Counts(d, q) \/ (d = c /\ q = p),
           conn'[p].refcount = conn[p].refcount + 1,
           \A q \in Params \ {p} : conn'[q].refcount = conn[q].refcount
    PROVE  Counted'
<1> SUFFICES ASSUME interrupts = 0, NEW q \in Params
             PROVE  Cardinality({d \in Clients : Counts(d, q)'}) <= conn'[q].refcount
  BY DEF Counted
<1> DEFINE S == {d \in Clients : Counts(d, q)}
           T == {d \in Clients : Counts(d, q)'}
<1>1. Cardinality(S) <= conn[q].refcount /\ conn[q].refcount \in Nat
  BY DEF IndInv, CallInv, Counted, SocketInv, TypeOK
<1>2. T \subseteq S \cup {c} /\ (q # p => T \subseteq S)
  OBVIOUS
<1>3. IsFiniteSet(S)
  BY ObdiiAssumption, FS_Subset
<1> HIDE DEF S, T
<1>4. /\ IsFiniteSet(S \cup {c}) /\ Cardinality(S) \in Nat /\ Cardinality(S \cup {c}) \in Nat
      /\ Cardinality(S \cup {c}) <= Cardinality(S) + 1
  <2>1. /\ IsFiniteSet(S \cup {c})
        /\ Cardinality(S \cup {c}) = IF c \in S THEN Cardinality(S) ELSE Cardinality(S) + 1
    BY <1>3, FS_AddElement
  <2>2. Cardinality(S) \in Nat
    BY <1>3, FS_CardinalityType
  <2> QED
    BY <2>1, <2>2
<1>5. IsFiniteSet(T) /\ Cardinality(T) <= Cardinality(S \cup {c})
  BY <1>2, <1>4, FS_Subset
<1>6. q # p => Cardinality(T) <= Cardinality(S)
  BY <1>2, <1>3, FS_Subset
<1>7. Cardinality(T) \in Nat
  BY <1>5, FS_CardinalityType
<1>8. Cardinality(T) <= conn'[q].refcount
  <2>1. CASE q = p
    BY <1>1, <1>4, <1>5, <1>7, <2>1
  <2>2. CASE q # p
    BY <1>1, <1>4, <1>6, <1>7, <2>2
  <2> QED
    BY <2>1, <2>2
<1> QED
  BY <1>8 DEF T

\* One process less, and it shrinks.
LEMMA CountedDown ==
    ASSUME IndInv, TypeOK', interrupts' = interrupts, NEW c \in Clients, NEW p \in Params,
           interrupts = 0 => /\ \A d \in Clients : \A q \in Params : Counts(d, q)' =>
                                   d # c /\ Counts(d, q)
                             /\ Counts(c, p),
           conn[p].refcount > 0, conn'[p].refcount = conn[p].refcount - 1,
           \A q \in Params \ {p} : conn'[q].refcount = conn[q].refcount
    PROVE  Counted'
<1> SUFFICES ASSUME interrupts = 0, NEW q \in Params
             PROVE  Cardinality({d \in Clients : Counts(d, q)'}) <= conn'[q].refcount
  BY DEF Counted
<1> DEFINE S == {d \in Clients : Counts(d, q)}
           T == {d \in Clients : Counts(d, q)'}
<1>1. Cardinality(S) <= conn[q].refcount /\ conn[q].refcount \in Nat
  BY DEF IndInv, CallInv, Counted, SocketInv, TypeOK
<1>2. T \subseteq S \ {c} /\ (q = p => c \in S)
  OBVIOUS
<1>3. IsFiniteSet(S)
  BY ObdiiAssumption, FS_Subset
<1> HIDE DEF S, T
<1>4. /\ IsFiniteSet(S \ {c}) /\ Cardinality(S) \in Nat /\ Cardinality(S \ {c}) \in Nat
      /\ Cardinality(S \ {c}) = IF c \in S THEN Cardinality(S) - 1 ELSE Cardinality(S)
  BY <1>3, FS_RemoveElement, FS_CardinalityType
<1>5. IsFiniteSet(T) /\ Cardinality(T) <= Cardinality(S \ {c})
  BY <1>2, <1>4, FS_Subset
<1>6. Cardinality(T) \in Nat
  BY <1>5, FS_CardinalityType
<1>7. Cardinality(T) <= conn'[q].refcount
  <2>1. CASE q = p
    <3>1. Cardinality(S \ {c}) = Cardinality(S) - 1
      BY <1>2, <1>4, <2>1
    <3> QED
      BY <1>1, <1>4, <1>5, <1>6, <2>1, <3>1
  <2>2. CASE q # p
    <3>1. Cardinality(S \ {c}) <= Cardinality(S)
      BY <1>4
    <3> QED
      BY <1>1, <1>4, <1>5, <1>6, <2>2, <3>1
  <2> QED
    BY <2>1, <2>2
<1> QED
  BY <1>7 DEF T

\* The answers of the daemon.
LEMMA CodeOnly ==
    ASSUME NEW code \in {"success", "open_error", "no_such_socket"}
    PROVE  LET ds == <<Code(code)>> IN
           /\ ds \in Seq(Datagrams) /\ ds # <<>> /\ Len(ds) = 1 /\ DOMAIN ds = {1}
           /\ ds[1].code = code /\ ds[1].fd = 0
<1>1. Code(code) \in Datagrams /\ Code(code).code = code /\ Code(code).fd = 0
  BY DEF Code, Datagrams
<1> QED
  BY <1>1

\* The response code, and the descriptor after it.
LEMMA CodeAndDescriptor ==
    ASSUME NEW s \in Nat
    PROVE  LET ds == <<Code("success"), Fd(s)>> IN
           /\ ds \in Seq(Datagrams) /\ ds # <<>> /\ Len(ds) = 2 /\ DOMAIN ds = {1, 2}
           /\ ds[1].code = "success" /\ ds[1].fd = 0 /\ ds[2].fd = s
<1>1. /\ Code("success") \in Datagrams /\ Code("success").code = "success"
      /\ Code("success").fd = 0 /\ Fd(s) \in Datagrams /\ Fd(s).fd = s
  BY DEF Code, Fd, Datagrams
<1> QED
  BY <1>1

\* A request to close is handled.
LEMMA HandleCloseKeeps ==
    ASSUME IndInv, HandleClose PROVE IndInv'
<1> DEFINE c == inbox[1].from
           p == inbox[1].p
<1>1. /\ inbox # <<>> /\ ~Head(inbox).open /\ inbox' = Tail(inbox) /\ NoAnswer
      /\ UNCHANGED <<bound, ecu, rx, sent, given, opens, pc, sock, fds, lost, asked,
                     interrupts, deaths, restarts>>
  BY DEF HandleClose, SameSockets, faultVars
<1>2. /\ Head(inbox) = inbox[1] /\ 1 \in DOMAIN inbox
      /\ c \in Clients /\ p \in Params /\ inbox' \in Seq(Requests)
  BY <1>1, RequestOf
<1>3. PICK code \in {"success", "no_such_socket"} :
        /\ Answer(c, <<Code(code)>>)
        /\ \/ conn[p].refcount > 0 /\ conn' = closeSocketConnection(p)
           \/ ~(conn[p].refcount > 0) /\ conn' = conn
  BY <1>2 DEF HandleClose, socketConnectionMatchingParams
<1> DEFINE ds == <<Code(code)>>
<1>4. ds \in Seq(Datagrams) /\ ds # <<>> /\ Len(ds) = 1 /\ DOMAIN ds = {1} /\ ds[1].fd = 0
  BY CodeOnly
<1> HIDE DEF ds, c, p
<1>5. conn \in [Params -> [s : Nat, refcount : Nat]]
  BY DEF IndInv, SocketInv, TypeOK
<1>6. conn' = conn \/ (/\ conn' \in [Params -> [s : Nat, refcount : Nat]]
                       /\ conn[p].refcount > 0 /\ conn'[p].refcount = conn[p].refcount - 1
                       /\ conn'[p].s = conn[p].s \/ (conn'[p].s = 0 /\ conn'[p].refcount = 0)
                       /\ \A q \in Params \ {p} : conn'[q] = conn[q])
  <2>1. CASE conn' = conn
    BY <2>1
  <2>2. CASE conn[p].refcount > 0 /\ conn' = closeSocketConnection(p)
    <3> DEFINE k == conn[p]
               m == IF k.refcount = 1 THEN NoConn ELSE [s |-> k.s, refcount |-> k.refcount - 1]
    <3>1. conn' = [conn EXCEPT ![p] = m]
      BY <2>2 DEF closeSocketConnection
    <3>2. k \in [s : Nat, refcount : Nat] /\ k.refcount > 0
      BY <1>2, <1>5, <2>2
    <3> HIDE DEF k
    <3>3. /\ m \in [s : Nat, refcount : Nat] /\ m.refcount = k.refcount - 1
          /\ m.s = k.s \/ (m.s = 0 /\ m.refcount = 0)
      <4>1. CASE k.refcount = 1
        BY <3>2, <4>1 DEF NoConn
      <4>2. CASE k.refcount # 1
        BY <3>2, <4>2
      <4> QED
        BY <4>1, <4>2
    <3> HIDE DEF m
    <3> QED
      BY <1>2, <1>5, <2>2, <3>1, <3>3 DEF k
  <2> QED
    BY <1>3, <2>1, <2>2
<1>7. box' \in [Clients -> Seq(Datagrams)]
  BY <1>2, <1>3, <1>4, BoxOf DEF ds
<1>8. TypeOK'
  BY <1>1, <1>2, <1>5, <1>6, <1>7, NoResultType DEF NoAnswer, IndInv, SocketInv, TypeOK
<1>9. Handles(c, ds)
  <2>1. Answer(c, ds)
    BY <1>3 DEF ds
  <2>2. Head(inbox).from = c /\ Len(bound) \in Nat
    BY <1>2, SocketTypes DEF c, IndInv, SocketInv
  <2> QED
    BY <1>1, <1>4, <2>1, <2>2 DEF Handles
<1>10. QueryInv'
  BY <1>1, QueriesSame
<1>11. \A q \in Params : conn'[q].s \in {0, conn[q].s} /\ (conn'[q].refcount > 0 =>
          conn[q].refcount > 0 /\ conn'[q].s = conn[q].s)
  <2>1. \A q \in Params : conn[q].refcount \in Nat /\ conn'[q].refcount \in Nat
    BY <1>5, <1>6
  <2> QED
    BY <1>2, <1>6, <2>1
<1>12. Known' /\ PrivateAlone'
  <2>1. \A d \in Clients : Private(d) => sock[d].s # 0 /\ \A q \in Params : conn[q].s # sock[d].s
    BY DEF IndInv, SocketInv, PrivateAlone, Private
  <2>2. 0 \in 0..Len(bound') /\ \A q \in Params : conn[q].s \in 0..Len(bound')
    BY <1>1, SocketTypes DEF IndInv, SocketInv, Known
  <2>3. \A q \in Params : /\ conn'[q].s \in 0..Len(bound')
                          /\ \A d \in Clients : Private(d) => conn'[q].s # sock[d].s
    BY <1>11, <2>1, <2>2
  <2>4. \A j \in DOMAIN ds : /\ ds[j].fd \in 0..Len(bound')
                             /\ \A d \in Clients : Private(d) => ds[j].fd # sock[d].s
    BY <1>4, <2>1, <2>2
  <2> QED
    BY <1>9, <2>3, <2>4, DaemonSockets
<1>13. Listed'
  BY <1>1, <1>11 DEF IndInv, SocketInv, Listed
<1>14. Replied' /\ OneRequest' /\ OneAnswer' /\ SocketAsAsked'
  BY <1>1, <1>2, <1>4, <1>9, DaemonCalls DEF Fitting
<1>15. Counted'
  <2>1. interrupts = 0 => \A d \in Clients : \A q \in Params : Counts(d, q)' =>
          d # c /\ Counts(d, q)
    BY <1>1, <1>2, <1>9, DaemonCounts
  <2>2. Counts(c, p)
    BY <1>1, <1>2 DEF Counts, c, p
  <2>3. CASE conn' = conn
    BY <1>1, <1>8, <2>1, <2>3, CountedLess
  <2>4. CASE conn' # conn
    BY <1>1, <1>2, <1>6, <1>8, <2>1, <2>2, <2>4, CountedDown
  <2> QED
    BY <2>3, <2>4
<1> QED
  BY <1>8, <1>10, <1>12, <1>13, <1>14, <1>15 DEF IndInv, SocketInv, CallInv

\* What the daemon sends with an open that it grants: socket s, bound to p.
LEMMA GrantKeeps ==
    ASSUME IndInv, TypeOK', QueryInv', NEW c \in Clients, NEW p \in Params, NEW s \in Nat,
           Handles(c, <<Code("success"), Fd(s)>>),
           inbox[1].open, inbox[1].p = p,
           s # 0, s \in 0..Len(bound'), bound'[s] = p,
           \A d \in Clients : Private(d) => s # sock[d].s,
           conn'[p].s = s, conn'[p].refcount = conn[p].refcount + 1,
           \A q \in Params \ {p} : conn'[q] = conn[q]
    PROVE  IndInv'
<1> DEFINE ds == <<Code("success"), Fd(s)>>
<1>1. /\ Len(ds) = 2 /\ DOMAIN ds = {1, 2}
      /\ ds[1].code = "success" /\ ds[1].fd = 0 /\ ds[2].fd = s
  BY CodeAndDescriptor
<1> HIDE DEF ds
<1>2. Handles(c, ds)
  BY DEF ds
<1>3. /\ interrupts' = interrupts /\ Len(bound') \in Nat /\ Len(bound) <= Len(bound')
      /\ \A u \in Sockets : bound'[u] = bound[u]
  BY <1>2 DEF Handles
<1>4. \A x \in 0..Len(bound) : x \in 0..Len(bound')
  BY <1>3, SocketTypes DEF IndInv, SocketInv
<1>5. Known' /\ PrivateAlone'
  <2>1. \A d \in Clients : Private(d) => sock[d].s # 0 /\ \A q \in Params : conn[q].s # sock[d].s
    BY DEF IndInv, SocketInv, PrivateAlone, Private
  <2>2. 0 \in 0..Len(bound') /\ \A q \in Params : conn[q].s \in 0..Len(bound')
    BY <1>3, <1>4 DEF IndInv, SocketInv, Known
  <2>3. \A q \in Params : /\ conn'[q].s \in 0..Len(bound')
                          /\ \A d \in Clients : Private(d) => conn'[q].s # sock[d].s
    BY <2>1, <2>2
  <2>4. \A j \in DOMAIN ds : /\ ds[j].fd \in 0..Len(bound')
                             /\ \A d \in Clients : Private(d) => ds[j].fd # sock[d].s
    BY <1>1, <2>1, <2>2
  <2> QED
    BY <1>2, <2>3, <2>4, DaemonSockets
<1>6. Listed'
  <2>1. \A q \in Params : conn[q].s # 0 => conn[q].s \in Sockets
    BY NewNumber
  <2> QED
    BY <1>3, <2>1 DEF IndInv, SocketInv, Listed
<1>7. Replied' /\ OneRequest' /\ OneAnswer' /\ SocketAsAsked'
  <2>1. Fitting(ds, inbox[1])
    BY <1>1 DEF Fitting
  <2> QED
    BY <1>2, <2>1, DaemonCalls
<1>8. Counted'
  <2>1. interrupts = 0 => \A d \in Clients : \A q \in Params : Counts(d, q)' =>
          Counts(d, q) \/ (d = c /\ q = p)
    BY <1>2, DaemonCounts
  <2> QED
    BY <1>3, <2>1, CountedUp
<1> QED
  BY <1>5, <1>6, <1>7, <1>8 DEF IndInv, SocketInv, CallInv

\* A request to open is handled.
LEMMA HandleOpenKeeps ==
    ASSUME IndInv, HandleOpen PROVE IndInv'
<1> DEFINE c == inbox[1].from
           p == inbox[1].p
           n == Len(bound) + 1
<1>1. /\ inbox # <<>> /\ Head(inbox).open /\ inbox' = Tail(inbox) /\ NoAnswer
      /\ UNCHANGED <<opens, pc, sock, fds, lost, asked, interrupts, deaths, restarts>>
  BY DEF HandleOpen, faultVars
<1>2. /\ Head(inbox) = inbox[1] /\ 1 \in DOMAIN inbox
      /\ c \in Clients /\ p \in Params /\ inbox' \in Seq(Requests)
  BY <1>1, RequestOf
<1>3. \/ /\ conn[p].refcount > 0
         /\ conn' = [conn EXCEPT ![p].refcount = conn[p].refcount + 1]
         /\ Answer(c, <<Code("success"), Fd(conn[p].s)>>)
         /\ UNCHANGED <<bound, ecu, rx, sent, given>>
      \/ /\ ~(conn[p].refcount > 0) /\ CanBind(p) /\ NewSocket(p)
         /\ conn' = [conn EXCEPT ![p] = [s |-> n, refcount |-> 1]]
         /\ Answer(c, <<Code("success"), Fd(n)>>)
      \/ /\ conn' = conn /\ Answer(c, <<Code("open_error")>>)
         /\ UNCHANGED <<bound, ecu, rx, sent, given>>
  BY <1>2 DEF HandleOpen, socketConnectionMatchingParams, OpenFails, SameSockets
<1> HIDE DEF c, p
<1>4. /\ conn \in [Params -> [s : Nat, refcount : Nat]]
      /\ conn[p] \in [s : Nat, refcount : Nat]
      /\ conn[p].s \in Nat /\ conn[p].refcount \in Nat
  BY <1>2 DEF IndInv, SocketInv, TypeOK
<1>5. /\ Len(bound) \in Nat /\ Sockets = 1..Len(bound) /\ n \in Nat /\ n # 0 /\ n \in 0..n
      /\ Len(bound) <= n
  BY SocketTypes DEF IndInv, SocketInv
<1> HIDE DEF n
<1>6. Head(inbox).from = c /\ inbox[1].open /\ inbox[1].p = p
  BY <1>1, <1>2 DEF c, p
<1>7. CASE /\ conn[p].refcount > 0
           /\ conn' = [conn EXCEPT ![p].refcount = conn[p].refcount + 1]
           /\ Answer(c, <<Code("success"), Fd(conn[p].s)>>)
           /\ UNCHANGED <<bound, ecu, rx, sent, given>>
  <2> DEFINE s == conn[p].s
             ds == <<Code("success"), Fd(s)>>
  <2>1. s # 0 /\ s \in 0..Len(bound) /\ bound[s] = p
    BY <1>2, <1>7 DEF IndInv, SocketInv, Listed, Known
  <2>2. ds \in Seq(Datagrams) /\ ds # <<>>
    BY <1>4, CodeAndDescriptor
  <2>3. /\ conn' \in [Params -> [s : Nat, refcount : Nat]]
        /\ conn'[p].s = s /\ conn'[p].refcount = conn[p].refcount + 1
        /\ \A q \in Params \ {p} : conn'[q] = conn[q]
    <3> DEFINE k == [conn[p] EXCEPT !.refcount = conn[p].refcount + 1]
    <3>1. k \in [s : Nat, refcount : Nat] /\ k.s = s /\ k.refcount = conn[p].refcount + 1
      BY <1>4
    <3>2. conn' = [conn EXCEPT ![p] = k]
      BY <1>7
    <3> HIDE DEF k
    <3> QED
      BY <1>2, <1>4, <3>1, <3>2
  <2>4. Answer(c, ds)
    BY <1>7
  <2> HIDE DEF ds
  <2>5. box' \in [Clients -> Seq(Datagrams)]
    BY <1>2, <2>2, <2>4, BoxOf
  <2>6. TypeOK'
    BY <1>1, <1>2, <1>7, <2>3, <2>5, NoResultType DEF NoAnswer, IndInv, SocketInv, TypeOK
  <2>7. QueryInv'
    BY <1>1, <1>7, QueriesSame
  <2>8. Handles(c, ds)
    BY <1>1, <1>5, <1>6, <1>7, <2>2, <2>4 DEF Handles
  <2>9. \A d \in Clients : Private(d) => s # sock[d].s
    BY <1>2 DEF IndInv, SocketInv, PrivateAlone
  <2>10. s \in 0..Len(bound') /\ bound'[s] = p
    BY <1>7, <2>1
  <2>11. s \in Nat
    BY <1>4
  <2> HIDE DEF s
  <2> QED
    BY <1>2, <1>6, <2>1, <2>3, <2>6, <2>7, <2>8, <2>9, <2>10, <2>11, GrantKeeps DEF ds
<1>8. CASE /\ ~(conn[p].refcount > 0) /\ CanBind(p) /\ NewSocket(p)
           /\ conn' = [conn EXCEPT ![p] = [s |-> n, refcount |-> 1]]
           /\ Answer(c, <<Code("success"), Fd(n)>>)
  <2> DEFINE ds == <<Code("success"), Fd(n)>>
  <2>1. /\ bound' \in Seq(Params) /\ Len(bound') = n /\ Len(bound') <= MaxSockets
        /\ ecu' \in Seq(Seq(Answers)) /\ Len(ecu') = Len(bound')
        /\ rx' \in Seq(Seq(Answers)) /\ Len(rx') = Len(bound')
        /\ sent' \in Seq(Nat) /\ Len(sent') = Len(bound')
        /\ given' \in Seq(Nat) /\ Len(given') = Len(bound')
        /\ bound'[n] = p
        /\ \A s \in Sockets : bound'[s] = bound[s]
    BY <1>2, <1>8, NewSocketOf DEF IndInv, SocketInv, n
  <2>2. ds \in Seq(Datagrams) /\ ds # <<>>
    BY <1>5, CodeAndDescriptor
  <2>3. /\ conn' \in [Params -> [s : Nat, refcount : Nat]]
        /\ conn'[p].s = n /\ conn'[p].refcount = conn[p].refcount + 1
        /\ \A q \in Params \ {p} : conn'[q] = conn[q]
    <3> DEFINE k == [s |-> n, refcount |-> 1]
    <3>1. conn[p].refcount = 0
      BY <1>4, <1>8
    <3>2. k \in [s : Nat, refcount : Nat] /\ k.s = n /\ k.refcount = 1
      BY <1>5
    <3>3. conn' = [conn EXCEPT ![p] = k]
      BY <1>8
    <3> HIDE DEF k
    <3> QED
      BY <1>2, <1>4, <3>1, <3>2, <3>3
  <2>4. Answer(c, ds)
    BY <1>8
  <2> HIDE DEF ds
  <2>5. box' \in [Clients -> Seq(Datagrams)]
    BY <1>2, <2>2, <2>4, BoxOf
  <2>6. TypeOK'
    BY <1>1, <1>2, <2>1, <2>3, <2>5, NoResultType DEF NoAnswer, IndInv, SocketInv, TypeOK
  <2>7. QueryInv'
    <3>1. \A d \in Clients : pc[d] \in {"select", "read"} \/ Private(d) => sock[d].s # 0
      BY DEF IndInv, SocketInv, Known, Private
    <3>2. \A d \in Clients : pc[d] \in {"select", "read"} \/ Private(d) => sock[d].s \in Sockets
      BY <3>1, NewNumber
    <3>3. \A d \in Clients : pc'[d] \in {"select", "read"} \/ Private(d)' =>
               pc'[d] = pc[d] /\ sock'[d] = sock[d] /\ sock[d].s \in Sockets
      BY <1>1, <3>2 DEF Private
    <3> QED
      BY <1>1, <1>2, <1>8, <3>3, QueriesNew
  <2>8. Handles(c, ds)
    BY <1>1, <1>5, <1>6, <2>1, <2>2, <2>4 DEF Handles
  <2>9. \A d \in Clients : Private(d) => n # sock[d].s
    BY NewNumber DEF n
  <2> QED
    BY <1>2, <1>5, <1>6, <2>1, <2>3, <2>6, <2>7, <2>8, <2>9, GrantKeeps DEF ds
<1>9. CASE /\ conn' = conn /\ Answer(c, <<Code("open_error")>>)
           /\ UNCHANGED <<bound, ecu, rx, sent, given>>
  <2> DEFINE ds == <<Code("open_error")>>
  <2>1. /\ ds \in Seq(Datagrams) /\ ds # <<>> /\ Len(ds) = 1 /\ DOMAIN ds = {1}
        /\ ds[1].code # "success" /\ ds[1].fd = 0
    BY CodeOnly
  <2>2. Answer(c, ds)
    BY <1>9
  <2> HIDE DEF ds
  <2>3. box' \in [Clients -> Seq(Datagrams)]
    BY <1>2, <2>1, <2>2, BoxOf
  <2>4. TypeOK'
    BY <1>1, <1>2, <1>9, <2>3, NoResultType DEF NoAnswer, IndInv, SocketInv, TypeOK
  <2>5. QueryInv'
    BY <1>1, <1>9, QueriesSame
  <2>6. Handles(c, ds)
    BY <1>1, <1>5, <1>6, <1>9, <2>1, <2>2 DEF Handles
  <2>7. Known' /\ PrivateAlone'
    <3>1. \A d \in Clients : Private(d) => sock[d].s # 0 /\ \A q \in Params : conn[q].s # sock[d].s
      BY DEF IndInv, SocketInv, PrivateAlone, Private
    <3>2. 0 \in 0..Len(bound') /\ \A q \in Params : conn'[q].s \in 0..Len(bound')
      BY <1>5, <1>9 DEF IndInv, SocketInv, Known
    <3> QED
      BY <1>9, <2>1, <2>6, <3>1, <3>2, DaemonSockets
  <2>8. Listed'
    BY <1>9 DEF IndInv, SocketInv, Listed
  <2>9. Replied' /\ OneRequest' /\ OneAnswer' /\ SocketAsAsked'
    BY <1>6, <2>1, <2>6, DaemonCalls DEF Fitting
  <2>10. Counted'
    <3>1. interrupts = 0 => \A d \in Clients : \A q \in Params : Counts(d, q)' => Counts(d, q)
      BY <2>1, <2>6, DaemonCounts
    <3> QED
      BY <1>1, <1>9, <2>4, <3>1, CountedLess
  <2> QED
    BY <2>4, <2>5, <2>7, <2>8, <2>9, <2>10 DEF IndInv, SocketInv, CallInv
<1> QED
  BY <1>3, <1>7, <1>8, <1>9

-----------------------------------------------------------------------------
(* The invariant *)

\* The invariant holds at the start.
LEMMA InitInd == Init => IndInv
<1> SUFFICES ASSUME Init PROVE IndInv
  OBVIOUS
<1>1. /\ \A p \in Params : conn[p].s = 0 /\ conn[p].refcount = 0
      /\ \A c \in Clients : /\ pc[c] = "closed" /\ sock[c] = NoSocket /\ box[c] = <<>>
                            /\ sock[c].s = 0 /\ ~sock[c].shared
      /\ inbox = <<>> /\ Len(bound) = 0 /\ Sockets = {} /\ result = NoResult
      /\ DOMAIN inbox = {}
  BY NoSocketType DEF Init, NoConn, Sockets
<1>2. TypeOK
  <2>1. conn \in [Params -> [s : Nat, refcount : Nat]]
    BY DEF Init, NoConn
  <2>2. /\ sock \in [Clients -> Sock] /\ asked \in [Clients -> Results] /\ result \in Results
        /\ fds \in [Clients -> SUBSET Nat]
    BY NoSocketType, NoResultType DEF Init
  <2>3. lost \in [Clients -> BOOLEAN] /\ box \in [Clients -> Seq(Datagrams)]
    BY DEF Init
  <2>4. /\ inbox \in Seq(Requests)
        /\ pc \in [Clients -> {"closed", "opening", "receiveFD", "open", "closing",
                               "select", "read", "dead"}]
        /\ opens \in 0..MaxOpens /\ interrupts \in Nat /\ deaths \in Nat /\ restarts \in Nat
    BY ObdiiAssumption DEF Init
  <2>5. /\ bound \in Seq(Params) /\ Len(bound) <= MaxSockets
        /\ ecu \in Seq(Seq(Answers)) /\ Len(ecu) = Len(bound)
        /\ rx \in Seq(Seq(Answers)) /\ Len(rx) = Len(bound)
        /\ sent \in Seq(Nat) /\ Len(sent) = Len(bound)
        /\ given \in Seq(Nat) /\ Len(given) = Len(bound)
    BY ObdiiAssumption DEF Init
  <2> QED
    BY <2>1, <2>2, <2>3, <2>4, <2>5 DEF TypeOK
<1>3. Known /\ Listed /\ PrivateAlone
  BY <1>1 DEF Known, Listed, PrivateAlone, Private
<1>4. QueryInv
  BY <1>1 DEF QueryInv, Awaited, InOrder, Unread, Private, AnswerAge, NoResult, ReadReady
<1>5. Replied /\ OneRequest /\ OneAnswer /\ SocketAsAsked
  BY <1>1 DEF Replied, HasReply, OneRequest, OneAnswer, AnswersFit, SocketAsAsked
<1>6. Counted
  <2>1. \A p \in Params : {c \in Clients : Counts(c, p)} = {}
    BY <1>1 DEF Counts, Holds
  <2>2. \A p \in Params : Cardinality({c \in Clients : Counts(c, p)}) = 0 /\ conn[p].refcount = 0
    BY <1>1, <2>1, FS_EmptySet, Zenon
  <2> QED
    BY <2>2 DEF Counted
<1> QED
  BY <1>2, <1>3, <1>4, <1>5, <1>6 DEF IndInv, SocketInv, CallInv

\* Nothing happens.
LEMMA StutterKeeps == ASSUME IndInv, UNCHANGED vars PROVE IndInv'
<1>1. UNCHANGED <<conn, inbox, pc, sock, fds, box, lost, asked, bound, ecu, rx, sent,
                  given, opens, result, interrupts, deaths, restarts>>
  BY DEF vars
<1>2. SocketInv'
  BY <1>1 DEF IndInv, SocketInv, TypeOK, Known, Listed, PrivateAlone, Private
<1>3. QueryInv'
  <2>1. Awaited' /\ AnswerAge' /\ ReadReady'
    BY <1>1 DEF IndInv, QueryInv, Awaited, AnswerAge, ReadReady
  <2>2. InOrder'
    BY <1>1 DEF IndInv, QueryInv, InOrder, Sockets, Ordered, Ascending, Above
  <2>3. Unread'
    BY <1>1 DEF IndInv, QueryInv, Unread, Private, Taken, Above
  <2> QED
    BY <2>1, <2>2, <2>3 DEF QueryInv
<1>4. CallInv'
  <2>1. Replied'
    BY <1>1 DEF IndInv, CallInv, Replied, HasReply
  <2>2. OneRequest'
    BY <1>1 DEF IndInv, CallInv, OneRequest, FromWaiting
  <2>3. OneAnswer' /\ SocketAsAsked'
    BY <1>1 DEF IndInv, CallInv, OneAnswer, AnswersFit, SocketAsAsked
  <2>4. Counted'
    BY <1>1, <1>2, CountedLess DEF Counts, Holds, SocketInv
  <2> QED
    BY <2>1, <2>2, <2>3, <2>4 DEF CallInv
<1> QED
  BY <1>2, <1>3, <1>4 DEF IndInv

\* One step per action.
LEMMA NextInd == IndInv /\ [Next]_vars => IndInv'
<1> SUFFICES ASSUME IndInv, [Next]_vars PROVE IndInv'
  OBVIOUS
<1>1. ASSUME NEW c \in Clients, Calls(c) PROVE IndInv'
  <2>1. ASSUME NEW p \in Params, OpenPrivate(c, p) PROVE IndInv'
    BY <2>1, OpenPrivateKeeps
  <2>2. ASSUME NEW p \in Params, OpenShared(c, p) PROVE IndInv'
    BY <2>2, OpenSharedKeeps
  <2>3. CASE Close(c)
    BY <2>3, CloseKeeps
  <2>4. ASSUME NEW k \in Commands, Query(c, k) PROVE IndInv'
    BY <2>4, QueryKeeps
  <2> QED
    BY <1>1, <2>1, <2>2, <2>3, <2>4 DEF Calls
<1>2. ASSUME NEW c \in Clients, Returns(c) PROVE IndInv'
  <2>1. CASE ReceiveCode(c)
    BY <2>1, ReceiveCodeKeeps
  <2>2. CASE ReceiveFD(c)
    BY <2>2, ReceiveFDKeeps
  <2>3. CASE NoDescriptor(c)
    <3>1. pc[c] # "dead" /\ Dies(c) /\ deaths' \in Nat
      BY <2>3 DEF NoDescriptor, IndInv, SocketInv, TypeOK
    <3> QED
      BY <3>1, DiesKeeps
  <2>4. CASE Select(c)
    BY <2>4, SelectKeeps
  <2>5. CASE Timeout(c)
    BY <2>5, TimeoutKeeps
  <2>6. CASE Read(c)
    BY <2>6, ReadKeeps
  <2> QED
    BY <1>2, <2>1, <2>2, <2>3, <2>4, <2>5, <2>6 DEF Returns
<1>3. ASSUME NEW c \in Clients, Interrupted(c) PROVE IndInv'
  BY <1>3, InterruptedKeeps
<1>4. ASSUME NEW c \in Clients, Death(c) PROVE IndInv'
  <2>1. pc[c] # "dead" /\ Dies(c) /\ deaths' \in Nat
    BY <1>4 DEF Death, IndInv, SocketInv, TypeOK
  <2> QED
    BY <2>1, DiesKeeps
<1>5. CASE Daemon
  BY <1>5, HandleOpenKeeps, HandleCloseKeeps DEF Daemon
<1>6. CASE DaemonRestart
  BY <1>6, DaemonRestartKeeps
<1>7. ASSUME NEW s \in Sockets, Car(s) PROVE IndInv'
  BY <1>7, CarKeeps
<1>8. CASE UNCHANGED vars
  BY <1>8, StutterKeeps
<1> QED
  BY <1>1, <1>2, <1>3, <1>4, <1>5, <1>6, <1>7, <1>8 DEF Next

\* The invariant holds always.
LEMMA Inductive == Spec => []IndInv
BY InitInd, NextInd, PTL DEF Spec

\* OBDIICommunication.c and OBDIIDaemon.c: every variable has a value of its type.
THEOREM TypeCorrect == Spec => []TypeOK
<1>1. IndInv => TypeOK
  BY DEF IndInv, SocketInv
<1> QED
  BY <1>1, Inductive, PTL

\* OBDIIDaemon.c: the refcount of a connection is at least the number of the
\* processes that use it, as long as no call was interrupted.
THEOREM ObdiiHeldListed == Spec => []HeldIsListed
<1>1. ASSUME IndInv PROVE HeldIsListed
  <2> SUFFICES ASSUME interrupts = 0, NEW p \in Params
               PROVE  Cardinality({c \in Clients : Holds(c, p)}) <= conn[p].refcount
    BY DEF HeldIsListed
  <2> DEFINE S == {c \in Clients : Counts(c, p)}
             T == {c \in Clients : Holds(c, p)}
  <2>1. Cardinality(S) <= conn[p].refcount /\ conn[p].refcount \in Nat
    BY <1>1 DEF IndInv, CallInv, Counted, SocketInv, TypeOK
  <2>2. T \subseteq S
    BY DEF Counts
  <2>3. IsFiniteSet(S)
    BY ObdiiAssumption, FS_Subset
  <2> HIDE DEF S, T
  <2>4. IsFiniteSet(T) /\ Cardinality(T) <= Cardinality(S)
    BY <2>2, <2>3, FS_Subset
  <2>5. Cardinality(T) \in Nat /\ Cardinality(S) \in Nat
    BY <2>3, <2>4, FS_CardinalityType
  <2>6. Cardinality(T) <= conn[p].refcount
    BY <2>1, <2>4, <2>5
  <2> QED
    BY <2>6 DEF T
<1> QED
  BY <1>1, Inductive, PTL

\* requestRemoteSocket and handleSocketRequest: the socket that OBDIIOpenSocket
\* returns is bound to what was asked for, as long as no call was interrupted.
THEOREM ObdiiSocketAsAsked == Spec => []SocketAsAsked
<1>1. IndInv => SocketAsAsked
  BY DEF IndInv, CallInv
<1> QED
  BY <1>1, Inductive, PTL

\* OBDIIPerformQuery: an answer that is returned is one to the command that was
\* asked, and on a private socket no older than the queries that were given up.
THEOREM ObdiiAnswerAge == Spec => []AnswerAge
<1>1. IndInv => AnswerAge
  BY DEF IndInv, QueryInv
<1> QED
  BY <1>1, Inductive, PTL

\* OBDIIOpenSocket, OBDIICloseSocket, OBDIIPerformQuery: whoever waits for the
\* daemon has an answer or a request in front of it, and the read after select does
\* not block on a private socket, whatever is interrupted.
THEOREM ObdiiWaits == Spec => []WaitsForAnswer
<1>1. ASSUME IndInv PROVE WaitsForAnswer
  <2>1. \A c \in Clients : HasReply(c)
    BY <1>1 DEF IndInv, CallInv, Replied
  <2>2. ReadReady
    BY <1>1 DEF IndInv, QueryInv
  <2> QED
    BY <2>1, <2>2 DEF WaitsForAnswer, HasReply, ReadReady
<1> QED
  BY <1>1, Inductive, PTL
=============================================================================
