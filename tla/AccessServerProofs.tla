------------------------- MODULE AccessServerProofs -------------------------
(***************************************************************************)
(* Proofs about the life of the server, for any number of connections and  *)
(* every set of faults.                                                    *)
(***************************************************************************)
EXTENDS AccessServer, TLAPS

\* The initial states satisfy the inductive invariant.
LEMMA InitInd == Init => IndInv
<1> SUFFICES ASSUME Init PROVE IndInv
  OBVIOUS
<1>1. TypeOK
  <2>1. running \in BOOLEAN /\ updater \in BOOLEAN /\ end \in BOOLEAN
    BY Zenon DEF Init
  <2>2. /\ main \in Starting /\ request \in Commands /\ decision \in Decisions
        /\ {pep, pap, wallet, loader, delivered, ctx, net, reply} = {"none"}
        /\ recv = "null"
    BY DEF Init, Starting, Commands, Decisions
  <2>3. /\ clients \in 0..MaxClients /\ state \in 0..1
        /\ {waiting, answered, leaked} = {clients} /\ clients = 0
    BY ServerAssumption DEF Init
  <2> QED
    BY <2>1, <2>2, <2>3 DEF TypeOK
<1>2. NothingLost /\ Accounted /\ InTurn
  BY DEF Init, NothingLost, Accounted, InSession, InTurn
<1>3. InOrder
  BY DEF Init, InOrder, Starting
<1> QED
  BY <1>1, <1>2, <1>3 DEF IndInv

\* Bringing the actors up and down, an interrupt at any moment: no step of main
\* takes the PAP, the PEP or the context from those who use them (main.c).
LEMMA MainInd ==
    ASSUME IndInv, Main \/ Interrupt
    PROVE  IndInv'
<1> USE ServerAssumption
<1>1. CASE LoaderStart \/ AccessInit \/ WalletInit \/ Plugins
  BY <1>1 DEF IndInv, TypeOK, NothingLost, Accounted, InSession, InOrder, InTurn,
              Starting, Stopping, netVars, connVars, LoaderStart, AccessInit,
              WalletInit, Plugins
<1>2. CASE NetInit \/ NetStart \/ NetStartFails
  <2>1. CASE NetInit
    <3>1. running' \in BOOLEAN /\ updater' \in BOOLEAN /\ end' \in BOOLEAN
      BY <2>1, Zenon DEF IndInv, TypeOK, NetInit
    <3>2. TypeOK'
      BY <2>1, <3>1 DEF IndInv, TypeOK, Starting, Stopping, connVars, NetInit
    <3>3. NothingLost' /\ Accounted' /\ InOrder' /\ InTurn'
      BY <2>1 DEF IndInv, NothingLost, Accounted, InSession, InOrder, InTurn,
                  Starting, connVars, NetInit
    <3> QED
      BY <3>2, <3>3 DEF IndInv
  <2>2. CASE NetStart
    BY <1>2, <2>2 DEF IndInv, TypeOK, NothingLost, Accounted, InSession, InOrder,
                      InTurn, Starting, Stopping, connVars, NetStart
  <2>3. CASE NetStartFails
    <3>1. running' \in BOOLEAN /\ updater' \in BOOLEAN /\ end' \in BOOLEAN
      BY <2>3, Zenon DEF IndInv, TypeOK, NetStartFails, netVars
    <3>2. TypeOK'
      BY <2>3, <3>1 DEF IndInv, TypeOK, Starting, Stopping, netVars, connVars,
                        NetStartFails
    <3>3. NothingLost' /\ Accounted' /\ InOrder' /\ InTurn'
      BY <2>3 DEF IndInv, NothingLost, Accounted, InSession, InOrder, InTurn,
                  Starting, netVars, connVars, NetStartFails
    <3> QED
      BY <3>2, <3>3 DEF IndInv
  <2> QED
    BY <1>2, <2>1, <2>2, <2>3
<1>3. CASE Interrupt \/ RunEnds
  <2>1. running' \in BOOLEAN /\ updater' \in BOOLEAN /\ end' \in BOOLEAN
    BY <1>3, Zenon DEF IndInv, TypeOK, netVars, Interrupt, RunEnds
  <2>2. TypeOK'
    BY <1>3, <2>1 DEF IndInv, TypeOK, Stopping, netVars, connVars, Interrupt,
                      RunEnds
  <2>3. NothingLost' /\ Accounted' /\ InOrder' /\ InTurn'
    BY <1>3 DEF IndInv, NothingLost, Accounted, InSession, InOrder, InTurn,
                Starting, netVars, connVars, Interrupt, RunEnds
  <2> QED
    BY <2>2, <2>3 DEF IndInv
<1>4. CASE NetStop
  <2>1. running' \in BOOLEAN /\ updater' \in BOOLEAN /\ end' \in BOOLEAN
    BY <1>4, Zenon DEF IndInv, TypeOK, NetStop, mainVars
  <2>2. TypeOK'
    BY <1>4, <2>1 DEF IndInv, TypeOK, mainVars, connVars, NetStop
  <2>3. NothingLost' /\ Accounted' /\ InOrder' /\ InTurn'
    BY <1>4 DEF IndInv, NothingLost, Accounted, InSession, InOrder, InTurn,
                mainVars, connVars, NetStop
  <2> QED
    BY <2>2, <2>3 DEF IndInv
<1>5. CASE NetJoin \/ NetStopFreed
  BY <1>5 DEF IndInv, TypeOK, NothingLost, Accounted, InSession, InOrder, InTurn,
              Starting, Stopping, netVars, connVars, NetJoin, NetStopFreed
<1>6. CASE AccessTerm \/ LoaderStop \/ WalletDestroy
  BY <1>6 DEF IndInv, TypeOK, NothingLost, Accounted, InSession, InOrder, InTurn,
              Starting, Stopping, netVars, connVars, AccessTerm, LoaderStop,
              WalletDestroy
<1> QED
  BY <1>1, <1>2, <1>3, <1>4, <1>5, <1>6 DEF Main

\* A policy delivered by the loader, a client that connects.
LEMMA EnvironmentInd ==
    ASSUME IndInv, LoaderDelivers \/ Connect
    PROVE  IndInv'
<1> USE ServerAssumption
<1>1. CASE LoaderDelivers
  BY <1>1 DEF IndInv, TypeOK, NothingLost, Accounted, InSession, InOrder, InTurn,
              netVars, connVars, LoaderDelivers
<1>2. CASE Connect
  BY <1>2 DEF IndInv, TypeOK, NothingLost, Accounted, InSession, InOrder, InTurn,
              mainVars, connVars, Connect
<1> QED
  BY <1>1, <1>2

\* A session with a client (network.c, network_thread_function and
\* calculate_decision).
LEMMA NetworkInd ==
    ASSUME IndInv, Network
    PROVE  IndInv'
<1> USE ServerAssumption
<1>1. CASE ThreadEnds \/ Accept
  BY <1>1 DEF IndInv, TypeOK, NothingLost, Accounted, InSession, InOrder, InTurn,
              mainVars, connVars, Decisions, ThreadEnds, Accept
<1>2. CASE Authenticated \/ AuthFails
  BY <1>2 DEF IndInv, TypeOK, NothingLost, Accounted, InSession, InOrder, InTurn,
              mainVars, connVars, Authenticated, AuthFails
<1>3. CASE ReceiveFails
  BY <1>3 DEF IndInv, TypeOK, NothingLost, Accounted, InSession, InOrder, InTurn,
              Starting, Alive, netVars, connVars, ReceiveFails
<1>4. ASSUME NEW c \in Commands, Receive(c) PROVE IndInv'
  BY <1>4 DEF IndInv, TypeOK, NothingLost, Accounted, InSession, InOrder, InTurn,
              mainVars, Receive
<1>5. ASSUME NEW d \in Decisions, Resolve(d) PROVE IndInv'
  BY <1>5 DEF IndInv, TypeOK, NothingLost, Accounted, InSession, InOrder, InTurn,
              mainVars, Resolve
<1>6. CASE PolList \/ EnablePolicy \/ Handle
  BY <1>6 DEF IndInv, TypeOK, NothingLost, Accounted, InSession, InOrder, InTurn,
              mainVars, PolList, EnablePolicy, Handle
<1>7. CASE Send \/ Release
  BY <1>7 DEF IndInv, TypeOK, NothingLost, Accounted, InSession, InOrder, InTurn,
              mainVars, connVars, Send, Release
<1>8. CASE Close
  BY <1>8 DEF IndInv, TypeOK, NothingLost, Accounted, InSession, InOrder, InTurn,
              mainVars, connVars, Close
<1> QED
  BY <1>1, <1>2, <1>3, <1>4, <1>5, <1>6, <1>7, <1>8 DEF Network

\* Every step keeps the inductive invariant.
LEMMA NextInd == IndInv /\ [Next]_vars => IndInv'
<1> SUFFICES ASSUME IndInv, [Next]_vars PROVE IndInv'
  OBVIOUS
<1>1. CASE UNCHANGED vars
  <2>1. TypeOK'
    BY <1>1 DEF vars, IndInv, TypeOK
  <2>2. NothingLost' /\ Accounted'
    BY <1>1 DEF vars, IndInv, NothingLost, Accounted, InSession
  <2>3. InOrder' /\ InTurn'
    BY <1>1 DEF vars, IndInv, InOrder, InTurn
  <2> QED
    BY <2>1, <2>2, <2>3 DEF IndInv
<1>2. CASE Next
  BY <1>2, MainInd, EnvironmentInd, NetworkInd, Zenon DEF Next
<1> QED
  BY <1>1, <1>2, Zenon

\* The inductive invariant holds in every reachable state.
LEMMA Inductive == Spec => []IndInv
BY InitInd, NextInd, PTL DEF Spec

\* The variables of main and of the network thread keep their types.
THEOREM TypeCorrect == Spec => []TypeOK
<1>1. IndInv => TypeOK
  BY DEF IndInv
<1> QED
  BY <1>1, Inductive, PTL

\* In whatever order main, the loader and the clients take their steps, no policy
\* is delivered before main has registered the PAP plugin: the loader runs from
\* the first line of main on, but has no address until network_init.
THEOREM ServerNothingLost == Spec => []NothingLost
<1>1. IndInv => NothingLost
  BY DEF IndInv
<1> QED
  BY <1>1, Inductive, PTL

\* The network thread never outlives its context or the PEP, and what it sends is
\* memory it owns (network.c, network_stop; main.c, the order of the stops).
THEOREM ServerServedAlive == Spec => []ServedAlive
<1>1. IndInv => ServedAlive
  BY DEF IndInv, InOrder, InTurn, ServedAlive
<1> QED
  BY <1>1, Inductive, PTL

\* Whatever faults and requests there are, every connection made is in the
\* backlog, being served or answered; and the messages leaked are never more than
\* the connections taken from the backlog (network.c, calculate_decision).
THEOREM ServerAccounts == Spec => []Accounted
<1>1. IndInv => Accounted
  BY DEF IndInv
<1> QED
  BY <1>1, Inductive, PTL
=============================================================================
