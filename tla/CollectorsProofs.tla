-------------------------- MODULE CollectorsProofs --------------------------
(***************************************************************************)
(* Proofs about the collectors, for every set of builds, every period of   *)
(* the dumper and any length of time.                                      *)
(***************************************************************************)
EXTENDS Collectors, SequenceTheorems, TLAPS

\* Nobody joins a thread twice or out of order: in the order of the joins the
\* reader of the body bus comes right behind the reader of the chassis bus.
LEMMA JoinOrder ==
    /\ Joined \in Seq(Readers)
    /\ \A i \in 1..Len(Joined) :
          Joined[i] = "body" => i - 1 \in 1..Len(Joined) /\ Joined[i - 1] = "chas"
<1> DEFINE Others == {"canopen", "gps", "modbus"}
           a == IfBuilt("can", <<"chas", "body">>)
           c == IfBuilt("canopen", <<"canopen">>)
           g == IfBuilt("gps", <<"gps">>)
           m == IfBuilt("modbus", <<"modbus">>)
           b == c \o (g \o m)
<1>1. c \in Seq(Others) /\ g \in Seq(Others) /\ m \in Seq(Others)
  <2>1. <<>> \in Seq(Others) /\ <<"canopen">> \in Seq(Others)
        /\ <<"gps">> \in Seq(Others) /\ <<"modbus">> \in Seq(Others)
    OBVIOUS
  <2> QED
    BY <2>1, Zenon DEF IfBuilt
<1> HIDE DEF c, g, m
<1>2. b \in Seq(Others)
  BY <1>1, ConcatProperties
<1>3. Joined = a \o b
  BY DEF Joined, a, b, c, g, m
<1> HIDE DEF b
<1>4. a \in Seq(Readers) /\ b \in Seq(Readers)
  <2>1. <<>> \in Seq(Readers) /\ <<"chas", "body">> \in Seq(Readers)
    BY DEF Readers
  <2>2. Others \subseteq Readers
    BY DEF Readers
  <2>3. a \in Seq(Readers)
    BY <2>1, Zenon DEF IfBuilt
  <2>4. b \in Seq(Readers)
    BY <1>2, <2>2, SeqMonotonic
  <2> QED
    BY <2>3, <2>4
<1>5. /\ Joined \in Seq(Readers) /\ Len(Joined) = Len(a) + Len(b)
      /\ \A i \in 1..(Len(a) + Len(b)) :
            Joined[i] = IF i <= Len(a) THEN a[i] ELSE b[i - Len(a)]
  BY <1>3, <1>4, ConcatProperties, Zenon
<1>6. ASSUME NEW i \in 1..Len(Joined), Joined[i] = "body"
      PROVE  i - 1 \in 1..Len(Joined) /\ Joined[i - 1] = "chas"
  <2>1. Len(a) \in 0..2 /\ Len(b) \in Nat /\ Len(Joined) = Len(a) + Len(b)
    BY <1>2, <1>5 DEF IfBuilt
  <2>2. i <= Len(a)
    <3> SUFFICES ASSUME ~(i <= Len(a)) PROVE FALSE
      OBVIOUS
    <3>1. i - Len(a) \in 1..Len(b)
      BY <2>1
    <3>2. Joined[i] = b[i - Len(a)]
      BY <1>5, <2>1
    <3>3. b[i - Len(a)] \in Others
      BY <1>2, <3>1, ElementOfSeq
    <3> QED
      BY <1>6, <3>2, <3>3
  <2>3. Joined[i] = a[i] /\ i \in 1..Len(a)
    BY <1>5, <2>1, <2>2
  <2>4. i = 2 /\ Len(a) = 2 /\ a[1] = "chas"
    BY <1>6, <2>1, <2>2, <2>3 DEF IfBuilt
  <2> QED
    BY <1>5, <2>1, <2>4
<1> QED
  BY <1>5, <1>6

\* The order of the joins is that of the build, which no step changes.
LEMMA JoinedSame == ASSUME build' = build PROVE Joined' = Joined
BY DEF Joined, IfBuilt

\* A thread that is running moves: who has been joined is not disturbed, and its
\* dataset is as it was.
LEMMA MoveKeepsJoined ==
    ASSUME IndInv, NEW t \in Threads, NEW x \in Labels,
           pc[t] \notin {"off", "ended"}, pc' = [pc EXCEPT ![t] = x],
           UNCHANGED <<build, dataset, stopped, main>>
    PROVE  EndedWhenJoined'
<1>1. Joined' = Joined /\ \A u \in Threads : u # t => pc'[u] = pc[u]
  BY JoinedSame DEF IndInv, TypeOK
<1>2. main # "start"
  BY DEF IndInv, EndedWhenJoined
<1>3. ASSUME NEW i \in 1..stopped PROVE pc'[Joined[i]] = "ended"
  <2>1. pc[Joined[i]] = "ended"
    BY DEF IndInv, EndedWhenJoined
  <2>2. i \in 1..Len(Joined) /\ stopped \in Nat
    BY JoinOrder DEF IndInv, TypeOK
  <2>3. Joined[i] \in Threads
    BY <2>2, JoinOrder, ElementOfSeq DEF Threads
  <2> QED
    BY <1>1, <2>1, <2>3
<1>4. ASSUME NEW u \in CanReaders, dataset[PluginOf(u)] = "freed"
      PROVE  pc'[u] = "ended"
  BY <1>1, <1>4 DEF IndInv, EndedWhenJoined, Threads, Readers, CanReaders
<1> QED
  BY <1>1, <1>2, <1>3, <1>4 DEF IndInv, EndedWhenJoined

\* A step of a thread outside the lock.
LEMMA MoveInd ==
    ASSUME IndInv, NEW t \in Threads,
           NEW x \in Labels \ {"unlock", "dump", "fill"},
           pc[t] \notin {"off", "ended", "unlock", "dump", "fill"},
           pc' = [pc EXCEPT ![t] = x],
           end' \in [Readers -> BOOLEAN], sentence' \in BOOLEAN,
           missed' \subseteq CanReaders,
           UNCHANGED <<now, treeVars, dumpVars, build, wanted, dataset, bgEnd,
                       stopped, main, lock, dead, wild>>
    PROVE  IndInv'
<1>1. EndedWhenJoined'
  BY MoveKeepsJoined
<1>2. TypeOK'
  BY JoinedSame DEF IndInv, TypeOK, treeVars, dumpVars
<1>3. LockedWritesLive'
  BY DEF IndInv, LockedWritesLive, treeVars
<1>4. LockHeld' /\ (Filling => Filling')
  BY DEF IndInv, TypeOK, LockHeld, Filling
<1>5. FreedWhileFilling' /\ FilesDated'
  BY <1>4 DEF IndInv, FreedWhileFilling, FilesDated, SignalsOf, treeVars, dumpVars
<1> QED
  BY <1>1, <1>2, <1>3, <1>4, <1>5 DEF IndInv

\* The steps of a CAN reader that need no lock.
LEMMA ReaderInd ==
    ASSUME IndInv, NEW t \in Readers,
           OpenFails(t) \/ DeafEnds(t) \/ TestLoop(t) \/ NoFrame(t) \/ ReadFails(t)
           \/ OtherFrame(t) \/ Frame(t)
    PROVE  IndInv'
<1>1. PICK x \in {"deaf", "ended", "reg1", "recv", "test", "check", "lock"} :
          pc' = [pc EXCEPT ![t] = x]
  BY DEF OpenFails, DeafEnds, TestLoop, NoFrame, ReadFails, OtherFrame, Frame, Goto
<1>2. /\ pc[t] \in {"open", "deaf", "test", "recv"}
      /\ UNCHANGED <<now, treeVars, dumpVars, mainVars, lock, sentence, dead, wild>>
  BY DEF OpenFails, DeafEnds, TestLoop, NoFrame, ReadFails, OtherFrame, Frame
<1>3. x \in Labels \ {"unlock", "dump", "fill"}
  BY DEF Labels
<1>4. end' \in [Readers -> BOOLEAN] /\ sentence' \in BOOLEAN /\ missed' \subseteq CanReaders
  BY <1>2 DEF IndInv, TypeOK, mainVars
<1> QED
  BY <1>1, <1>2, <1>3, <1>4, MoveInd DEF mainVars, Threads

\* can_open clears the flag.
LEMMA OpenInd == ASSUME IndInv, NEW t \in Readers, Open(t) PROVE IndInv'
<1>1. end' \in [Readers -> BOOLEAN]
  BY DEF Open, IndInv, TypeOK
<1>2. missed' \subseteq CanReaders /\ sentence' \in BOOLEAN
  BY DEF Open, IndInv, TypeOK
<1>3. "test" \in Labels \ {"unlock", "dump", "fill"} /\ t \in Threads
  BY DEF Labels, Threads
<1> QED
  BY <1>1, <1>2, <1>3, MoveInd DEF Open, Goto

\* The steps of the GPS thread that need no lock.
LEMMA GpsInd ==
    ASSUME IndInv, (\E ok \in BOOLEAN : GpsOpen(ok)) \/ GpsRead \/ GpsToken
    PROVE  IndInv'
<1>1. PICK x \in {"test", "token", "check", "lock"} : pc' = [pc EXCEPT !["gps"] = x]
  BY DEF GpsOpen, GpsRead, GpsToken, Goto
<1>2. pc["gps"] \in {"open", "recv", "token"}
  BY DEF GpsOpen, GpsRead, GpsToken
<1>3. UNCHANGED <<now, treeVars, dumpVars, build, wanted, dataset, bgEnd,
                  stopped, main, missed, lock, dead, wild>>
  BY DEF GpsOpen, GpsRead, GpsToken, mainVars
<1>4. end' \in [Readers -> BOOLEAN]
  BY DEF GpsOpen, GpsRead, GpsToken, mainVars, IndInv, TypeOK, Readers
<1>5. sentence' \in BOOLEAN
  BY Zenon DEF GpsOpen, GpsRead, GpsToken, IndInv, TypeOK
<1>6. missed' \subseteq CanReaders
  BY <1>3 DEF IndInv, TypeOK
<1>7. "gps" \in Threads /\ x \in Labels \ {"unlock", "dump", "fill"}
  BY DEF Threads, Readers, Labels
<1> QED
  BY <1>1, <1>2, <1>3, <1>4, <1>5, <1>6, <1>7, MoveInd

\* The Modbus thread asks, the background thread ends, a reader finds the tree old
\* enough or not.
LEMMA OtherInd ==
    ASSUME IndInv, NEW t \in Threads,
           \/ t = "modbus" /\ \E label \in {"reg1", "reg2"} : ModbusTest(label)
           \/ t = "bg" /\ BgEnds
           \/ Check(t)
    PROVE  IndInv'
<1>1. PICK x \in {"write1", "write2", "reg2", "check", "ended", "try", "token", "test"} :
          pc' = [pc EXCEPT ![t] = x]
  BY DEF ModbusTest, ModbusNext, BgEnds, Check, Back, Goto
<1>2. /\ pc[t] \in {"reg1", "reg2", "run", "check"}
      /\ UNCHANGED <<now, treeVars, dumpVars, mainVars, lock, sentence, dead, wild>>
  BY DEF ModbusTest, BgEnds, Check
<1>3. x \in Labels \ {"unlock", "dump", "fill"}
  BY DEF Labels
<1>4. end' \in [Readers -> BOOLEAN] /\ sentence' \in BOOLEAN /\ missed' \subseteq CanReaders
  BY <1>2 DEF IndInv, TypeOK, mainVars
<1> QED
  BY <1>1, <1>2, <1>3, <1>4, MoveInd DEF mainVars

\* The clock.
LEMMA TickInd == ASSUME IndInv, Tick PROVE IndInv'
<1>1. TypeOK'
  BY JoinedSame, TimeAssumption DEF IndInv, TypeOK, Tick, treeVars, dumpVars, mainVars
<1>2. LockedWritesLive' /\ LockHeld'
  BY DEF IndInv, Tick, LockedWritesLive, LockHeld, treeVars
<1>3. FreedWhileFilling'
  BY DEF IndInv, Tick, FreedWhileFilling, Filling, SignalsOf, treeVars, mainVars
<1>4. FilesDated'
  BY TimeAssumption DEF IndInv, TypeOK, Tick, FilesDated, Filling, dumpVars
<1>5. EndedWhenJoined'
  BY JoinedSame DEF IndInv, Tick, EndedWhenJoined, mainVars
<1> QED
  BY <1>1, <1>2, <1>3, <1>4, <1>5 DEF IndInv

\* The threads are created.
LEMMA StartInd == ASSUME IndInv, StartAll PROVE IndInv'
<1>1. \A t \in Threads : pc[t] = "off"
  BY DEF IndInv, EndedWhenJoined, StartAll
<1>2. pc' \in [Threads -> {"off", "run", "test", "open"}]
  BY Zenon DEF StartAll
<1>3. \A t \in Readers : pc[t] = "off" /\ pc'[t] \in {"off", "run", "test", "open"}
  BY <1>1, <1>2 DEF Threads
<1>4. ~Filling /\ ~Filling'
  BY <1>3 DEF Filling
<1>5. \A t \in CanReaders : dataset[PluginOf(t)] # "freed"
  BY <1>3 DEF IndInv, EndedWhenJoined, CanReaders, Readers
<1>6. stopped = 0
  <2> SUFFICES ASSUME stopped # 0 PROVE FALSE
    OBVIOUS
  <2>1. 1 \in 1..stopped /\ 1 \in 1..Len(Joined) /\ stopped \in Nat
    BY JoinOrder DEF IndInv, TypeOK
  <2>2. Joined[1] \in Threads
    BY <2>1, JoinOrder, ElementOfSeq DEF Threads
  <2> QED
    BY <1>1, <2>1, <2>2 DEF IndInv, EndedWhenJoined
<1>7. TypeOK'
  <2>1. pc' \in [Threads -> Labels]
    BY <1>2 DEF Labels
  <2> QED
    BY <2>1, JoinedSame DEF StartAll, IndInv, TypeOK, treeVars, dumpVars
<1>8. LockedWritesLive' /\ LockHeld'
  BY <1>3 DEF StartAll, IndInv, LockedWritesLive, LockHeld, treeVars
<1>9. FreedWhileFilling'
  BY <1>4 DEF StartAll, IndInv, FreedWhileFilling, SignalsOf, treeVars
<1>10. FilesDated'
  BY <1>4 DEF StartAll, IndInv, FilesDated, dumpVars
<1>11. EndedWhenJoined'
  BY <1>5, <1>6 DEF StartAll, EndedWhenJoined
<1> QED
  BY <1>7, <1>8, <1>9, <1>10, <1>11 DEF IndInv

\* What changes neither a thread nor the tree: a client's choice and a stop flag.
LEMMA ControlInd ==
    ASSUME IndInv, (\E s \in Signals : SetDataset(s)) \/ StopReader
    PROVE  IndInv'
<1>1. UNCHANGED <<now, treeVars, dumpVars, build, dataset, stopped, missed, lock, pc,
                  sentence, dead, wild>>
  BY DEF SetDataset, StopReader
<1>2. Joined' = Joined
  BY <1>1, JoinedSame
<1>3. \/ main' = main
      \/ main = "signal" /\ main' = "join" /\ stopped < Len(Joined)
  BY DEF SetDataset, StopReader
<1>4. wanted' \subseteq Signals
  BY DEF SetDataset, StopReader, IndInv, TypeOK
<1>5. end' \in [Readers -> BOOLEAN] /\ bgEnd' \in BOOLEAN
  <2>1. CASE \E s \in Signals : SetDataset(s)
    BY <2>1 DEF SetDataset, IndInv, TypeOK
  <2>2. CASE StopReader
    <3>1. stopped + 1 \in 1..Len(Joined)
      BY <2>2, JoinOrder DEF StopReader, IndInv, TypeOK
    <3>2. Joined[stopped + 1] \in Readers
      BY <3>1, JoinOrder, ElementOfSeq
    <3>3. bgEnd' \in BOOLEAN
      BY <2>2, Zenon DEF StopReader
    <3> QED
      BY <2>2, <3>2, <3>3 DEF StopReader, IndInv, TypeOK
  <2> QED
    BY <2>1, <2>2
<1>6. TypeOK'
  BY <1>1, <1>2, <1>3, <1>4, <1>5 DEF IndInv, TypeOK, treeVars, dumpVars
<1>7. LockedWritesLive' /\ LockHeld'
  BY <1>1 DEF IndInv, LockedWritesLive, LockHeld, treeVars
<1>8. FreedWhileFilling' /\ FilesDated'
  BY <1>1 DEF IndInv, FreedWhileFilling, FilesDated, Filling, SignalsOf, treeVars, dumpVars
<1>9. EndedWhenJoined'
  BY <1>1, <1>2, <1>3 DEF IndInv, EndedWhenJoined
<1> QED
  BY <1>6, <1>7, <1>8, <1>9 DEF IndInv

\* The join returns: of the two CAN readers the first has been joined before, so
\* that both have ended when the dataset is freed.
LEMMA JoinInd == ASSUME IndInv, JoinReader PROVE IndInv'
<1> DEFINE t == Joined[stopped + 1]
<1>1. stopped \in Nat /\ stopped < Len(Joined) /\ stopped + 1 \in 1..Len(Joined)
  BY JoinOrder DEF IndInv, TypeOK, EndedWhenJoined, JoinReader
<1>2. t \in Readers
  BY <1>1, JoinOrder, ElementOfSeq
<1>3. t = "body" => pc["chas"] = "ended"
  <2> SUFFICES ASSUME t = "body" PROVE pc["chas"] = "ended"
    OBVIOUS
  <2>1. stopped \in 1..Len(Joined) /\ Joined[stopped] = "chas"
    BY <1>1, JoinOrder
  <2> QED
    BY <1>1, <2>1 DEF IndInv, EndedWhenJoined
<1>4. pc[t] = "ended" /\ Joined' = Joined
  BY JoinedSame DEF JoinReader
<1> HIDE DEF t
<1>5. /\ stopped' = stopped + 1
      /\ dataset' = IF t \in {"body", "canopen"}
                    THEN [dataset EXCEPT ![PluginOf(t)] = "freed"] ELSE dataset
      /\ main' \in {"signal", "done"}
      /\ UNCHANGED <<now, treeVars, dumpVars, build, wanted, end, bgEnd, missed, lock,
                     pc, sentence, dead, wild>>
  BY DEF JoinReader, t
<1>6. TypeOK'
  <2>1. dataset' \in [Plugins -> {"alive", "freed"}]
    BY <1>5 DEF IndInv, TypeOK
  <2> QED
    BY <1>1, <1>4, <1>5, <2>1 DEF IndInv, TypeOK, treeVars, dumpVars
<1>7. LockedWritesLive' /\ LockHeld'
  BY <1>5 DEF IndInv, LockedWritesLive, LockHeld, treeVars
<1>8. FreedWhileFilling' /\ FilesDated'
  BY <1>5 DEF IndInv, FreedWhileFilling, FilesDated, Filling, SignalsOf, treeVars, dumpVars
<1>9. EndedWhenJoined'
  <2>1. main' # "start" /\ main' # "join"
    BY <1>5
  <2>2. \A i \in 1..stopped' : pc'[Joined'[i]] = "ended"
    BY <1>1, <1>4, <1>5 DEF IndInv, EndedWhenJoined, t
  <2>3. ASSUME NEW u \in CanReaders, dataset'[PluginOf(u)] = "freed"
        PROVE  pc'[u] = "ended"
    <3>1. dataset[PluginOf(u)] = "freed" => pc[u] = "ended"
      BY DEF IndInv, EndedWhenJoined
    <3>2. CASE t \in {"body", "canopen"} /\ PluginOf(u) = PluginOf(t)
      BY <1>3, <1>4, <1>5, <3>2 DEF PluginOf, CanReaders
    <3>3. CASE ~(t \in {"body", "canopen"} /\ PluginOf(u) = PluginOf(t))
      <4>1. dataset'[PluginOf(u)] = dataset[PluginOf(u)]
        BY <1>5, <3>3 DEF IndInv, TypeOK, Plugins, PluginOf, CanReaders
      <4> QED
        BY <1>5, <2>3, <3>1, <4>1
    <3> QED
      BY <3>2, <3>3
  <2> QED
    BY <2>1, <2>2, <2>3 DEF EndedWhenJoined
<1> QED
  BY <1>6, <1>7, <1>8, <1>9 DEF IndInv

\* A callback that has the lock finds every object it looks at alive: nobody is
\* filling, and what is not wanted or has no object is left alone.
LEMMA LockFrameInd == ASSUME IndInv, NEW t \in Readers, LockFrame(t) PROVE IndInv'
<1>1. /\ t \in CanReaders /\ pc[t] = "lock" /\ lock = "none" /\ lock' = t
      /\ pc' = [pc EXCEPT ![t] = "unlock"]
      /\ UNCHANGED <<now, treeVars, dumpVars, mainVars, sentence>>
  BY DEF LockFrame, Goto
<1>2. ~Filling
  BY <1>1 DEF IndInv, LockHeld, Filling, Readers
<1>3. \A s \in CanSignals \cup CanopenSignals : node[s] \in {"null", "live"}
  BY <1>2 DEF IndInv, TypeOK, FreedWhileFilling, Signals
<1>4. wild' = wild /\ dead' \in BOOLEAN
  <2>1. PICK fields \in SUBSET Carried(t) : Access(t, FrameWrites(t, fields))
    BY DEF LockFrame
  <2>2. \A s \in FrameWrites(t, fields) : node[s] = "live"
    BY <1>3 DEF FrameWrites, Carried
  <2>3. {s \in FrameWrites(t, fields) : node[s] # "live"} = {}
    BY <2>2
  <2> QED
    BY <2>1, <2>3, Zenon DEF Access
<1>5. TypeOK'
  <2>1. pc' \in [Threads -> Labels]
    BY <1>1 DEF IndInv, TypeOK, Labels
  <2> QED
    BY <1>1, <1>4, <2>1, JoinedSame DEF IndInv, TypeOK, treeVars, dumpVars, mainVars
<1>6. LockedWritesLive'
  BY <1>1, <1>4 DEF IndInv, LockedWritesLive, treeVars, Readers
<1>7. LockHeld'
  BY <1>1 DEF IndInv, TypeOK, LockHeld, Threads, Readers
<1>8. FreedWhileFilling' /\ FilesDated'
  BY <1>1, <1>2 DEF IndInv, FreedWhileFilling, FilesDated, SignalsOf, treeVars, dumpVars,
                    mainVars
<1>9. EndedWhenJoined'
  BY <1>1, MoveKeepsJoined DEF mainVars, Threads, Labels
<1> QED
  BY <1>5, <1>6, <1>7, <1>8, <1>9 DEF IndInv

\* A position is written, alive or not, under the lock.
LEMMA LockPositionInd == ASSUME IndInv, LockPosition PROVE IndInv'
<1>1. /\ "gps" \in Readers /\ pc["gps"] = "lock" /\ lock = "none" /\ lock' = "gps"
      /\ pc' = [pc EXCEPT !["gps"] = "unlock"]
      /\ UNCHANGED <<now, treeVars, dumpVars, mainVars, sentence>>
  BY DEF LockPosition, Goto, Readers
<1>2. ~Filling
  BY <1>1 DEF IndInv, LockHeld, Filling, Readers
<1>3. wild' \subseteq wild \cup {"gps"}
  BY DEF LockPosition, Access
<1>4. dead' \in BOOLEAN
  BY Zenon DEF LockPosition, Access
<1>5. TypeOK'
  <2>1. pc' \in [Threads -> Labels]
    BY <1>1 DEF IndInv, TypeOK, Labels
  <2> QED
    BY <1>1, <1>3, <1>4, <2>1, JoinedSame DEF IndInv, TypeOK, treeVars, dumpVars, mainVars
<1>6. LockedWritesLive'
  BY <1>1, <1>3 DEF IndInv, LockedWritesLive, treeVars, CanReaders
<1>7. LockHeld'
  BY <1>1 DEF IndInv, TypeOK, LockHeld, Threads, Readers
<1>8. FreedWhileFilling' /\ FilesDated'
  BY <1>1, <1>2 DEF IndInv, FreedWhileFilling, FilesDated, SignalsOf, treeVars, dumpVars,
                    mainVars
<1>9. EndedWhenJoined'
  BY <1>1, MoveKeepsJoined DEF mainVars, Threads, Labels
<1> QED
  BY <1>5, <1>6, <1>7, <1>8, <1>9 DEF IndInv

\* A register is written without the lock.
LEMMA ModbusWriteInd ==
    ASSUME IndInv, NEW label \in {"reg1", "reg2", "write1", "write2"}, ModbusWrite(label)
    PROVE  IndInv'
<1>1. PICK x \in {"reg2", "check"} : pc' = [pc EXCEPT !["modbus"] = x]
  BY DEF ModbusWrite, ModbusNext, Goto
<1>2. /\ "modbus" \in Readers /\ pc["modbus"] \in {"write1", "write2"}
      /\ UNCHANGED <<now, treeVars, dumpVars, mainVars, lock, sentence>>
  BY DEF ModbusWrite, Readers
<1>3. wild' \subseteq wild \cup {"modbus"}
  BY DEF ModbusWrite, Access
<1>4. dead' \in BOOLEAN
  BY Zenon DEF ModbusWrite, Access
<1>5. TypeOK'
  <2>1. pc' \in [Threads -> Labels]
    BY <1>1 DEF IndInv, TypeOK, Labels
  <2> QED
    BY <1>2, <1>3, <1>4, <2>1, JoinedSame DEF IndInv, TypeOK, treeVars, dumpVars, mainVars
<1>6. LockedWritesLive'
  BY <1>2, <1>3 DEF IndInv, LockedWritesLive, treeVars, CanReaders
<1>7. LockHeld' /\ (Filling => Filling')
  BY <1>1, <1>2 DEF IndInv, TypeOK, LockHeld, Filling, Threads, Readers
<1>8. FreedWhileFilling' /\ FilesDated'
  BY <1>2, <1>7 DEF IndInv, FreedWhileFilling, FilesDated, SignalsOf, treeVars, dumpVars,
                    mainVars
<1>9. EndedWhenJoined'
  BY <1>1, <1>2, MoveKeepsJoined DEF mainVars, Threads, Labels
<1> QED
  BY <1>5, <1>6, <1>7, <1>8, <1>9 DEF IndInv

\* The lock is given back after a frame, or taken for a dump: nobody is filling.
LEMMA UnlockInd ==
    ASSUME IndInv, NEW t \in Readers, Unlock(t) \/ TryLock(t) PROVE IndInv'
<1>1. UNCHANGED <<now, treeVars, dumpVars, mainVars, sentence, dead, wild>>
  BY DEF Unlock, TryLock
<1>2. PICK x \in {"check", "dump", "test", "token"} : pc' = [pc EXCEPT ![t] = x]
  BY DEF Unlock, TryLock, Goto, Back
<1>3. pc[t] \in {"unlock", "try"} /\ t \in Threads
  BY DEF Unlock, TryLock, Threads
<1>4. TypeOK'
  <2>1. pc' \in [Threads -> Labels]
    BY <1>2 DEF IndInv, TypeOK, Labels
  <2>2. lock' \in Readers \cup {"none"}
    BY DEF Unlock, TryLock, IndInv, TypeOK
  <2> QED
    BY <1>1, <2>1, <2>2, JoinedSame DEF IndInv, TypeOK, treeVars, dumpVars, mainVars
<1>5. LockHeld'
  <2>1. CASE Unlock(t)
    BY <2>1 DEF Unlock, Goto, IndInv, TypeOK, LockHeld, Threads, Readers
  <2>2. CASE TryLock(t)
    BY <2>2 DEF TryLock, Goto, Back, IndInv, TypeOK, LockHeld, Threads, Readers
  <2> QED
    BY <2>1, <2>2
<1>6. Filling => Filling'
  BY <1>2, <1>3 DEF IndInv, TypeOK, Filling, Threads
<1>7. LockedWritesLive'
  <2>1. lock' = "none" => ~Filling'
    BY <1>5 DEF LockHeld, Filling, Readers
  <2> QED
    BY <1>1, <1>6, <2>1 DEF IndInv, LockedWritesLive, FreedWhileFilling, treeVars
<1>8. FreedWhileFilling' /\ FilesDated'
  BY <1>1, <1>6 DEF IndInv, FreedWhileFilling, FilesDated, SignalsOf, treeVars, dumpVars,
                    mainVars
<1>9. EndedWhenJoined'
  BY <1>1, <1>2, <1>3, MoveKeepsJoined DEF mainVars, Labels
<1> QED
  BY <1>4, <1>5, <1>7, <1>8, <1>9 DEF IndInv

\* The tree is written and freed by the holder of the lock: it was not freed before,
\* and if no tree was ever dumped early its name is older than the clock.
LEMMA DumpInd == ASSUME IndInv, NEW t \in Readers, Dump(t) PROVE IndInv'
<1>1. /\ pc[t] = "dump" /\ files' = files \cup {started}
      /\ pc' = [pc EXCEPT ![t] = "fill"]
      /\ UNCHANGED <<now, started, mainVars, lock, sentence, dead>>
  BY DEF Dump, Goto
<1>2. ~Filling /\ lock = t
  BY <1>1 DEF IndInv, LockHeld, Filling
<1>3. root # "freed"
  BY <1>2 DEF IndInv, FreedWhileFilling
<1>4. wild' = wild
  BY <1>3 DEF Dump
<1>5. pc' \in [Threads -> Labels] /\ pc'[t] = "fill"
  BY <1>1 DEF IndInv, TypeOK, Labels, Threads
<1>6. Filling'
  BY <1>5 DEF Filling
<1>7. early' \in BOOLEAN
  BY Zenon DEF Dump
<1>8. TypeOK'
  <2>1. node' \in [Signals -> {"null", "live", "freed"}]
    BY DEF Dump
  <2>2. root' \in {"null", "alive", "freed"}
    BY DEF Dump
  <2> QED
    BY <1>1, <1>4, <1>5, <1>7, <2>1, <2>2, JoinedSame DEF IndInv, TypeOK, mainVars
<1>9. LockedWritesLive'
  BY <1>1, <1>2, <1>4 DEF IndInv, LockedWritesLive, Readers
<1>10. LockHeld'
  BY <1>1, <1>2 DEF IndInv, TypeOK, LockHeld, Threads
<1>11. FreedWhileFilling'
  <2>1. ASSUME NEW p \in {"can", "canopen"}, p \notin build',
               NEW s \in SignalsOf(p)
        PROVE  node'[s] = "null"
    BY <1>1, <2>1 DEF Dump, IndInv, FreedWhileFilling, mainVars, SignalsOf, Signals
  <2> QED
    BY <1>6, <2>1 DEF FreedWhileFilling, SignalsOf
<1>12. FilesDated'
  <2> SUFFICES ASSUME ~early' PROVE \A f \in files' : f < now'
    BY <1>6 DEF FilesDated
  <2>1. ~early /\ Due
    BY Zenon DEF Dump
  <2>2. started < now
    BY <2>1, TimeAssumption DEF Due, IndInv, TypeOK
  <2> QED
    BY <1>1, <2>1, <2>2 DEF IndInv, FilesDated
<1>13. EndedWhenJoined'
  BY <1>1, MoveKeepsJoined DEF mainVars, Threads, Labels
<1> QED
  BY <1>8, <1>9, <1>10, <1>11, <1>12, <1>13 DEF IndInv

\* What the fillers leave behind: every pointer of the CAN plugins is NULL or points
\* into the new tree, whatever a filler finds in the dataset.
LEMMA FillersLeave ==
    ASSUME IndInv, NEW W \in Seen
    PROVE  /\ call_all_filler_callbacks(W) \in [Signals -> {"null", "live", "freed"}]
           /\ \A s \in CanSignals \cup CanopenSignals :
                 call_all_filler_callbacks(W)[s] # "freed"
           /\ \A p \in {"can", "canopen"} : p \notin build =>
                 \A s \in SignalsOf(p) : call_all_filler_callbacks(W)[s] = "null"
<1> DEFINE f == call_all_filler_callbacks(W)
<1>1. /\ f["trunk"] = IF "can" \in build THEN can_json_filler(W)["trunk"] ELSE node["trunk"]
      /\ f["sdo"] = IF "canopen" \in build THEN canopen_json_filler(W)["sdo"] ELSE node["sdo"]
      /\ f["location"] = IF "gps" \in build THEN gps_json_filler["location"]
                                            ELSE node["location"]
      /\ f["brake1"] = IF "modbus" \in build THEN modbus_json_filler(W)["brake1"]
                                             ELSE node["brake1"]
      /\ f["brake2"] = IF "modbus" \in build THEN modbus_json_filler(W)["brake2"]
                                             ELSE node["brake2"]
  BY DEF call_all_filler_callbacks, Signals, CanSignals, CanopenSignals, GpsSignals,
         ModbusSignals
<1>2. /\ can_json_filler(W)["trunk"] \in {"null", "live"}
      /\ canopen_json_filler(W)["sdo"] \in {"null", "live"}
      /\ gps_json_filler["location"] = "live"
  BY DEF can_json_filler, canopen_json_filler, gps_json_filler, CanSignals, CanopenSignals,
         GpsSignals
<1>3. node \in [Signals -> {"null", "live", "freed"}]
  BY DEF IndInv, TypeOK
<1>4. /\ modbus_json_filler(W)["brake1"] \in {"null", "live"}
      /\ modbus_json_filler(W)["brake2"] \in {"null", "live", "freed"}
  BY <1>3 DEF modbus_json_filler, Signals, ModbusSignals
<1>5. /\ "can" \notin build => node["trunk"] = "null"
      /\ "canopen" \notin build => node["sdo"] = "null"
  BY DEF IndInv, FreedWhileFilling, SignalsOf, CanSignals, CanopenSignals
<1>6. f = [s \in Signals |-> f[s]]
  BY DEF call_all_filler_callbacks
<1> HIDE DEF f
<1>7. \A s \in Signals : f[s] \in {"null", "live", "freed"}
  BY <1>1, <1>2, <1>3, <1>4 DEF Signals, CanSignals, CanopenSignals, GpsSignals, ModbusSignals
<1>8. f \in [Signals -> {"null", "live", "freed"}]
  BY <1>6, <1>7
<1>9. \A s \in CanSignals \cup CanopenSignals : f[s] # "freed"
  BY <1>1, <1>2, <1>5 DEF CanSignals, CanopenSignals
<1>10. \A p \in {"can", "canopen"} : p \notin build => \A s \in SignalsOf(p) : f[s] = "null"
  BY <1>1, <1>5 DEF SignalsOf, CanSignals, CanopenSignals
<1> QED
  BY <1>8, <1>9, <1>10 DEF f

\* The next tree is built, with a name that no file has yet if none was dumped early.
LEMMA RestartInd == ASSUME IndInv, NEW t \in Readers, Restart(t) PROVE IndInv'
<1>1. /\ pc[t] = "fill" /\ started' = now /\ root' = "alive" /\ lock' = "none"
      /\ UNCHANGED <<now, files, early, mainVars, sentence, dead, wild>>
  BY DEF Restart
<1>2. PICK x \in {"test", "token"} : pc' = [pc EXCEPT ![t] = x]
  BY DEF Restart, Goto, Back
<1>3. PICK W \in Seen : node' = call_all_filler_callbacks(W)
  BY DEF Restart
<1>4. /\ node' \in [Signals -> {"null", "live", "freed"}]
      /\ \A s \in CanSignals \cup CanopenSignals : node'[s] # "freed"
      /\ \A p \in {"can", "canopen"} : p \notin build =>
            \A s \in SignalsOf(p) : node'[s] = "null"
  BY <1>3, FillersLeave
<1>5. TypeOK'
  <2>1. pc' \in [Threads -> Labels]
    BY <1>2 DEF IndInv, TypeOK, Labels
  <2> QED
    BY <1>1, <1>4, <2>1, JoinedSame, TimeAssumption DEF IndInv, TypeOK, mainVars
<1>6. LockedWritesLive'
  BY <1>1 DEF IndInv, LockedWritesLive
<1>7. LockHeld'
  BY <1>1, <1>2 DEF IndInv, TypeOK, LockHeld, Threads, Readers
<1>8. FreedWhileFilling'
  BY <1>1, <1>4 DEF FreedWhileFilling, SignalsOf, mainVars
<1>9. FilesDated'
  BY <1>1, TimeAssumption DEF IndInv, TypeOK, FilesDated
<1>10. EndedWhenJoined'
  BY <1>1, <1>2, MoveKeepsJoined DEF mainVars, Threads, Labels
<1> QED
  BY <1>5, <1>6, <1>7, <1>8, <1>9, <1>10 DEF IndInv

\* Before the start nobody runs and there is no tree.
LEMMA InitInd == Init => IndInv
<1> SUFFICES ASSUME Init PROVE IndInv
  OBVIOUS
<1>1. TypeOK
  <2>1. Len(Joined) \in Nat
    BY JoinOrder
  <2>2. bgEnd \in BOOLEAN /\ sentence \in BOOLEAN /\ dead \in BOOLEAN /\ early \in BOOLEAN
    BY Zenon DEF Init
  <2>3. end \in [Readers -> BOOLEAN]
    BY DEF Init
  <2>4. pc \in [Threads -> Labels]
    BY DEF Init, Labels
  <2>5. wanted \subseteq Signals
    BY DEF Init, Signals
  <2> QED
    BY <2>1, <2>2, <2>3, <2>4, <2>5, TimeAssumption DEF Init, TypeOK
<1>2. LockedWritesLive /\ LockHeld
  BY DEF Init, LockedWritesLive, LockHeld, Threads, Readers
<1>3. FreedWhileFilling /\ FilesDated
  BY DEF Init, FreedWhileFilling, FilesDated, SignalsOf, Signals
<1>4. EndedWhenJoined
  <2>1. \A t \in CanReaders : PluginOf(t) \in Plugins
    BY DEF CanReaders, PluginOf, Plugins
  <2> QED
    BY <2>1 DEF Init, EndedWhenJoined
<1> QED
  BY <1>1, <1>2, <1>3, <1>4 DEF IndInv

\* A step that changes nothing.
LEMMA StutterInd == ASSUME IndInv, UNCHANGED vars PROVE IndInv'
<1>1. UNCHANGED <<now, root, node, started, files, early, build, wanted, dataset, end, bgEnd,
                  stopped, main, missed, lock, pc, sentence, dead, wild>>
  BY DEF vars, treeVars, dumpVars, mainVars
<1>2. Joined' = Joined
  BY <1>1, JoinedSame
<1> QED
  BY <1>1, <1>2 DEF IndInv, TypeOK, LockedWritesLive, LockHeld, FreedWhileFilling, FilesDated,
                    Filling, EndedWhenJoined, SignalsOf

\* One step of any thread keeps the invariant.
LEMMA NextInd == IndInv /\ [Next]_vars => IndInv'
<1> SUFFICES ASSUME IndInv, [Next]_vars PROVE IndInv'
  OBVIOUS
<1>1. CASE Tick
  BY <1>1, TickInd
<1>2. CASE Control
  BY <1>2, StartInd, ControlInd, JoinInd DEF Control
<1>3. CASE \E t \in Readers : CanReader(t)
  BY <1>3, OpenInd, ReaderInd, LockFrameInd DEF CanReader
<1>4. CASE \E t \in Readers : Dumper(t)
  <2> PICK t \in Readers : Dumper(t)
    BY <1>4
  <2>1. CASE Check(t)
    BY <2>1, OtherInd DEF Threads
  <2> QED
    BY <2>1, UnlockInd, DumpInd, RestartInd DEF Dumper
<1>5. CASE Gps
  BY <1>5, GpsInd, LockPositionInd DEF Gps
<1>6. CASE Modbus
  <2> PICK label \in {"reg1", "reg2", "write1", "write2"} :
          ModbusTest(label) \/ ModbusWrite(label)
    BY <1>6 DEF Modbus
  <2>1. CASE ModbusTest(label)
    <3>1. label \in {"reg1", "reg2"} /\ "modbus" \in Threads
      BY <2>1 DEF ModbusTest, Threads, Readers
    <3> QED
      BY <2>1, <3>1, OtherInd
  <2> QED
    BY <2>1, ModbusWriteInd
<1>7. CASE BgEnds
  <2>1. "bg" \in Threads
    BY DEF Threads
  <2> QED
    BY <1>7, <2>1, OtherInd
<1>8. CASE UNCHANGED vars
  BY <1>8, StutterInd
<1> QED
  BY <1>1, <1>2, <1>3, <1>4, <1>5, <1>6, <1>7, <1>8 DEF Next

\* The invariant holds whenever: locks, tree, file names and joins of the collectors
\* fit together as IndInv says.
LEMMA Inductive == Spec => []IndInv
BY InitInd, NextInd, PTL DEF Spec

\* The variables of the collectors keep their types, and no tree or file is dated
\* later than the clock, at any time.
THEOREM TypeCorrect == Spec => []TypeOK
<1>1. IndInv => TypeOK
  BY DEF IndInv
<1> QED
  BY <1>1, Inductive, PTL

\* The callbacks of the CAN and CANopen plugins never touch an object outside the
\* tree and no dump uses a freed one, with any plugins built in, any period and
\* any choice of signals by the client.
THEOREM CollectorsLockedWrites == Spec => []LockedWritesLive
<1>1. IndInv => LockedWritesLive
  BY DEF IndInv
<1> QED
  BY <1>1, Inductive, PTL

\* canreceiver_deinit and canopenreceiver_deinit free a dataset only after the
\* readers that use it have ended.
THEOREM CollectorsDataAlive == Spec => []ReadersDataAlive
<1>1. IndInv => ReadersDataAlive
  <2> SUFFICES ASSUME IndInv, NEW t \in CanReaders, pc[t] \notin {"off", "ended"}
               PROVE  dataset[PluginOf(t)] = "alive"
    BY DEF ReadersDataAlive
  <2>1. dataset[PluginOf(t)] # "freed"
    BY DEF IndInv, EndedWhenJoined
  <2>2. PluginOf(t) \in Plugins
    BY DEF CanReaders, PluginOf, Plugins
  <2> QED
    BY <2>1, <2>2 DEF IndInv, TypeOK
<1> QED
  BY <1>1, Inductive, PTL

\* datadumper_dump_if_needed writes a file of json_log a second time only after
\* it has dumped a tree before its period was over.
THEOREM CollectorsOverwrite == Spec => OverwriteOnlyEarly
<1>1. IndInv /\ [Next]_vars
        => [\A t \in Readers : Dump(t) /\ started \in files => early]_vars
  <2> SUFFICES ASSUME IndInv, NEW t \in Readers, Dump(t), started \in files PROVE early
    OBVIOUS
  <2>1. ~Filling
    BY DEF Dump, IndInv, LockHeld, Filling
  <2> QED
    BY <2>1 DEF IndInv, FilesDated
<1> QED
  BY <1>1, Inductive, PTL DEF Spec, OverwriteOnlyEarly
=============================================================================
