----------------------------- MODULE Collectors -----------------------------
(***************************************************************************)
(* The data-acquisition plugins (src/plugins/pip/can, canopen, gps and     *)
(* modbus) and the dumper they share (src/data_dumper/data_dumper.c).      *)
(*                                                                         *)
(* Every collector has a thread that reads its bus and puts what it reads  *)
(* into JSON objects; all objects hang in one tree, fj_root.  Each thread  *)
(* also calls datadumper_dump_if_needed, which writes the tree to a file,  *)
(* frees it and calls the fillers of ALL plugins to build the next one.    *)
(* The mutex json_sync_lock guards the tree, with two exceptions that the  *)
(* model keeps: the Modbus thread does not take it, and the age of the     *)
(* tree is tested before it is taken.                                      *)
(*                                                                         *)
(* Data: a signal stands for one entry of a dataset with the pointer to    *)
(* its JSON object; of the twelve CAN signals there is one, "trunk", which *)
(* both CAN threads write, of the nineteen CANopen signals there is one.   *)
(* What a sample says is left out: what matters is whether the object it   *)
(* is written to still exists.  Time is in seconds, as time() counts them, *)
(* and never runs backwards.                                               *)
(*                                                                         *)
(* No file of the repository calls the GPS and the Modbus collector; they  *)
(* are taken to be used as their interfaces ask: initialised with the      *)
(* dumper's mutex before anything is started, then started, then stopped.  *)
(***************************************************************************)
EXTENDS Integers, Sequences

CONSTANTS
    Period,     \* dump_period_s, 6 in every plugin
    FirstTime,  \* the time at which the collectors are started
    MaxTime,    \* the last second that is looked at
    Builds      \* the combinations of plugins that are looked at

ASSUME TimeAssumption ==
    /\ Period \in Nat \ {0} /\ FirstTime \in Nat /\ MaxTime \in Nat
    /\ Period <= FirstTime /\ FirstTime <= MaxTime

Plugins == {"can", "canopen", "gps", "modbus"}

ASSUME BuildAssumption == Builds \subseteq SUBSET Plugins

CanSignals == {"trunk"}
CanopenSignals == {"sdo"}
GpsSignals == {"location"}
ModbusSignals == {"brake1", "brake2"}
Signals == CanSignals \cup CanopenSignals \cup GpsSignals \cup ModbusSignals

SignalsOf(p) ==
    CASE p = "can" -> CanSignals
      [] p = "canopen" -> CanopenSignals
      [] p = "gps" -> GpsSignals
      [] p = "modbus" -> ModbusSignals

Readers == {"chas", "body", "canopen", "gps", "modbus"}
CanReaders == {"chas", "body", "canopen"}

PluginOf(t) == IF t \in {"chas", "body"} THEN "can" ELSE t

\* The signals for which a frame of this thread's bus has fields.
Carried(t) == IF t = "canopen" THEN CanopenSignals ELSE CanSignals

VARIABLES
    build,      \* the plugins of this build
    now,        \* time(NULL)
    started,    \* json_started
    root,       \* what fj_root points to: "null", "alive" or "freed"
    node,       \* for each signal where its JSON pointer points: "null", "live", "freed"
    wanted,     \* the signals whose flag in its dataset is 1
    dataset,    \* for each plugin whether its dataset is "alive" or "freed"
    lock,       \* the thread that holds json_sync_lock, or "none"
    files,      \* the names of the files in json_log
    pc,         \* for each thread where it is
    end,        \* for each reader its end_loop or end_thread flag
    bgEnd,      \* end_loop of the CANopen plugin
    sentence,   \* the GPS sentence buffer holds something
    stopped,    \* the number of readers joined
    main,       \* "start", "signal", "join" or "done"
    dead,       \* the process has been killed by a bad access
    wild,       \* history: the threads that accessed a null or freed object
    early,      \* history: a tree younger than the period has been dumped
    missed      \* history: the readers whose stop flag has been cleared

treeVars == <<root, node>>
dumpVars == <<started, files, early>>
mainVars == <<build, wanted, dataset, end, bgEnd, stopped, main, missed>>
vars == <<now, treeVars, dumpVars, mainVars, lock, pc, sentence, dead, wild>>

\* The threads that are joined, in the order in which they are stopped;
\* canopen_bg_thread is not among them.
IfBuilt(p, readers) == IF p \in build THEN readers ELSE <<>>
Joined == IfBuilt("can", <<"chas", "body">>)
          \o (IfBuilt("canopen", <<"canopen">>)
              \o (IfBuilt("gps", <<"gps">>) \o IfBuilt("modbus", <<"modbus">>)))

Threads == Readers \cup {"bg"}

Init ==
    /\ build \in Builds
    /\ now = FirstTime
    /\ started = 0
    /\ root = "null"
    /\ node = [s \in Signals |-> "null"]
    /\ wanted = {} \/ ({"can", "canopen"} \subseteq build /\ wanted \in SUBSET CanopenSignals)
    /\ dataset = [p \in Plugins |-> "alive"]
    /\ lock = "none"
    /\ files = {}
    /\ pc = [t \in Threads |-> "off"]
    /\ end = [t \in Readers |-> FALSE]
    /\ bgEnd = FALSE
    /\ sentence = FALSE
    /\ stopped = 0
    /\ main = "start"
    /\ dead = FALSE
    /\ wild = {}
    /\ early = FALSE
    /\ missed = {}

Goto(t, label) == pc' = [pc EXCEPT ![t] = label]

Tick ==
    /\ ~dead
    /\ now < MaxTime
    /\ now' = now + 1
    /\ UNCHANGED <<treeVars, dumpVars, mainVars, lock, pc, sentence, dead, wild>>

-----------------------------------------------------------------------------
(* The life of the plugins: start, a client that chooses signals, stop.    *)

StartAll ==
    /\ main = "start"
    /\ pc' = [t \in Threads |->
                IF t = "bg"
                THEN IF "canopen" \in build THEN "run" ELSE "off"
                ELSE IF PluginOf(t) \notin build THEN "off"
                     ELSE IF t = "modbus" THEN "test" ELSE "open"]
    /\ main' = "signal"
    /\ UNCHANGED <<now, treeVars, dumpVars, build, wanted, dataset, end, bgEnd, stopped,
                   missed, lock, sentence, dead, wild>>

\* The first call of dataset_init cuts the shared string of options at every
\* separator, so that a second plugin finds one option only and none of its
\* flags is ever initialised or written.
HasOptions(p) == p = "can" \/ (p = "canopen" /\ "can" \notin build) \/ p = "modbus"

\* dataset_from_json, in the network thread, writes the flags one by one; the
\* dataset of the Modbus collector belongs to its caller.
SetDataset(s) ==
    /\ ~dead /\ main \in {"start", "signal"} /\ stopped = 0
    /\ \E p \in build : HasOptions(p) /\ s \in SignalsOf(p)
    /\ wanted' = IF s \in wanted THEN wanted \ {s} ELSE wanted \cup {s}
    /\ UNCHANGED <<now, treeVars, dumpVars, build, dataset, end, bgEnd, stopped, main,
                   missed, lock, pc, sentence, dead, wild>>

\* canthread_stop, gpsreceiver_end and modbusreceiver_stop set the flag and join.
StopReader ==
    /\ ~dead /\ main = "signal" /\ stopped < Len(Joined)
    /\ LET t == Joined[stopped + 1] IN
         /\ end' = [end EXCEPT ![t] = TRUE]
         /\ bgEnd' = (bgEnd \/ t = "canopen")
    /\ main' = "join"
    /\ UNCHANGED <<now, treeVars, dumpVars, build, wanted, dataset, stopped, missed, lock,
                   pc, sentence, dead, wild>>

\* Mutant: the dataset is freed after the first of the two CAN readers.
JoinReader_FreesEarly ==
    /\ ~dead /\ main = "join"
    /\ LET t == Joined[stopped + 1] IN
         /\ pc[t] = "ended"
         /\ dataset' = IF t \in {"chas", "canopen"}
                       THEN [dataset EXCEPT ![PluginOf(t)] = "freed"]
                       ELSE dataset
    /\ stopped' = stopped + 1
    /\ main' = IF stopped + 1 = Len(Joined) THEN "done" ELSE "signal"
    /\ UNCHANGED <<now, treeVars, dumpVars, build, wanted, end, bgEnd, missed, lock, pc,
                   sentence, dead, wild>>

\* After its last reader the plugin frees its dataset; the background thread
\* of the CANopen plugin is not waited for, and the fillers stay registered.
JoinReader ==
    /\ ~dead /\ main = "join"
    /\ LET t == Joined[stopped + 1] IN
         /\ pc[t] = "ended"
         /\ dataset' = IF t \in {"body", "canopen"}
                       THEN [dataset EXCEPT ![PluginOf(t)] = "freed"]
                       ELSE dataset
    /\ stopped' = stopped + 1
    /\ main' = IF stopped + 1 = Len(Joined) THEN "done" ELSE "signal"
    /\ UNCHANGED <<now, treeVars, dumpVars, build, wanted, end, bgEnd, missed, lock, pc,
                   sentence, dead, wild>>

-----------------------------------------------------------------------------
(* The readers.                                                            *)

\* can_open clears end_loop as its last step, whoever has set it before.
Open(t) ==
    /\ ~dead /\ t \in CanReaders /\ pc[t] = "open"
    /\ end' = [end EXCEPT ![t] = FALSE]
    /\ missed' = IF end[t] THEN missed \cup {t} ELSE missed
    /\ Goto(t, "test")
    /\ UNCHANGED <<now, treeVars, dumpVars, build, wanted, dataset, bgEnd, stopped, main,
                   lock, sentence, dead, wild>>

\* can_open fails, which can_thread does not look at: the loop runs on a
\* socket that never has a frame.
OpenFails(t) ==
    /\ ~dead /\ t \in CanReaders /\ pc[t] = "open"
    /\ Goto(t, "deaf")
    /\ UNCHANGED <<now, treeVars, dumpVars, mainVars, lock, sentence, dead, wild>>

\* Such a loop ends when it is told to, or at once with an error of recvmsg.
DeafEnds(t) ==
    /\ ~dead /\ pc[t] = "deaf"
    /\ Goto(t, "ended")
    /\ UNCHANGED <<now, treeVars, dumpVars, mainVars, lock, sentence, dead, wild>>

\* The GPS thread opens its port; when that fails it sets end_thread itself.
GpsOpen(ok) ==
    /\ ~dead /\ pc["gps"] = "open"
    /\ end' = IF ok THEN end ELSE [end EXCEPT !["gps"] = TRUE]
    /\ Goto("gps", "test")
    /\ UNCHANGED <<now, treeVars, dumpVars, build, wanted, dataset, bgEnd, stopped, main,
                   missed, lock, sentence, dead, wild>>

\* The condition of the reader's loop.
TestLoop(t) ==
    /\ ~dead /\ t \in Readers /\ pc[t] = "test"
    /\ Goto(t, IF end[t] THEN "ended" ELSE IF t = "modbus" THEN "reg1" ELSE "recv")
    /\ UNCHANGED <<now, treeVars, dumpVars, mainVars, lock, sentence, dead, wild>>

\* select times out, and the loop sleeps.
NoFrame(t) ==
    /\ ~dead /\ t \in CanReaders /\ pc[t] = "recv"
    /\ Goto(t, "test")
    /\ UNCHANGED <<now, treeVars, dumpVars, mainVars, lock, sentence, dead, wild>>

\* select, recvmsg or read fails, or the serial line is at its end.
ReadFails(t) ==
    /\ ~dead /\ t \in CanReaders \cup {"gps"} /\ pc[t] = "recv"
    /\ Goto(t, "ended")
    /\ UNCHANGED <<now, treeVars, dumpVars, mainVars, lock, sentence, dead, wild>>

\* A frame whose id the callback has no case for goes to the dumper directly,
\* or, for a CANopen service without node id, nowhere at all.
OtherFrame(t) ==
    /\ ~dead /\ t \in CanReaders /\ pc[t] = "recv"
    /\ \/ Goto(t, "check")
       \/ t = "canopen" /\ Goto(t, "test")
    /\ UNCHANGED <<now, treeVars, dumpVars, mainVars, lock, sentence, dead, wild>>

\* A frame with signals: the callback waits for the lock.
Frame(t) ==
    /\ ~dead /\ t \in CanReaders /\ pc[t] = "recv"
    /\ Goto(t, "lock")
    /\ UNCHANGED <<now, treeVars, dumpVars, mainVars, lock, sentence, dead, wild>>

\* The read of the GPS thread returns a buffer of tokens.
GpsRead ==
    /\ ~dead /\ pc["gps"] = "recv"
    /\ Goto("gps", "token")
    /\ UNCHANGED <<now, treeVars, dumpVars, mainVars, lock, sentence, dead, wild>>

\* One token: the sentence before it, if there is one, may hold a position and
\* is then reported under the lock; every token ends in a look at the dump.
GpsToken ==
    /\ ~dead /\ pc["gps"] = "token"
    /\ \/ Goto("gps", "check") /\ sentence' = TRUE
       \/ sentence /\ Goto("gps", "lock") /\ UNCHANGED sentence
       \/ Goto("gps", "test") /\ UNCHANGED sentence
    /\ UNCHANGED <<now, treeVars, dumpVars, mainVars, lock, dead, wild>>

\* The effect of thread t on the objects of the signals in S: a null pointer
\* kills the process, a freed object may do so.
Access(t, S) ==
    LET bad == {s \in S : node[s] # "live"} IN
    /\ wild' = IF bad = {} THEN wild ELSE wild \cup {t}
    /\ dead' \in IF bad = {} THEN {FALSE}
                 ELSE IF \E s \in bad : node[s] = "null" THEN {TRUE} ELSE BOOLEAN

\* The switch of can_body_frame_read_cb, can_chas_frame_read_cb and
\* can_read_callback: each field that was updated is written if its signal is
\* wanted and has an object.
FrameWrites(t, fields) == {s \in fields : s \in wanted /\ node[s] # "null"}

LockFrame(t) ==
    /\ ~dead /\ t \in CanReaders /\ pc[t] = "lock" /\ lock = "none"
    /\ lock' = t
    /\ \E fields \in SUBSET Carried(t) : Access(t, FrameWrites(t, fields))
    /\ Goto(t, "unlock")
    /\ UNCHANGED <<now, treeVars, dumpVars, mainVars, sentence>>

\* A position is written without a look at the pointer.
LockPosition ==
    /\ ~dead /\ pc["gps"] = "lock" /\ lock = "none"
    /\ lock' = "gps"
    /\ Access("gps", GpsSignals)
    /\ Goto("gps", "unlock")
    /\ UNCHANGED <<now, treeVars, dumpVars, mainVars, sentence>>

Unlock(t) ==
    /\ ~dead /\ pc[t] = "unlock"
    /\ lock' = "none"
    /\ Goto(t, "check")
    /\ UNCHANGED <<now, treeVars, dumpVars, mainVars, sentence, dead, wild>>

\* One register after the other is asked for if it is wanted; by the time the
\* answer has come the object is used as it is then, without the lock.
ModbusNext(label) == IF label \in {"reg1", "write1"} THEN "reg2" ELSE "check"

ModbusTest(label) ==
    /\ ~dead /\ label \in {"reg1", "reg2"} /\ pc["modbus"] = label
    /\ LET s == IF label = "reg1" THEN "brake1" ELSE "brake2"
           w == IF label = "reg1" THEN "write1" ELSE "write2"
       IN Goto("modbus", IF s \in wanted THEN w ELSE ModbusNext(label))
    /\ UNCHANGED <<now, treeVars, dumpVars, mainVars, lock, sentence, dead, wild>>

ModbusWrite(label) ==
    /\ ~dead /\ label \in {"write1", "write2"} /\ pc["modbus"] = label
    /\ Access("modbus", {IF label = "write1" THEN "brake1" ELSE "brake2"})
    /\ Goto("modbus", ModbusNext(label))
    /\ UNCHANGED <<now, treeVars, dumpVars, mainVars, lock, sentence>>

\* canopen_bg_thread_func asks the node for the wanted signals, which changes
\* nothing here, until it sees end_loop; it may be anywhere in its round, and so
\* reading the dataset, for as long as it runs.
BgEnds ==
    /\ ~dead /\ pc["bg"] = "run" /\ bgEnd
    /\ Goto("bg", "ended")
    /\ UNCHANGED <<now, treeVars, dumpVars, mainVars, lock, sentence, dead, wild>>

-----------------------------------------------------------------------------
(* datadumper_dump_if_needed, called by every reader.                      *)

Due == now > started + Period - 1

Back(t) == IF t = "gps" THEN "token" ELSE "test"

\* The age of the tree is tested before the lock is taken.
Check(t) ==
    /\ ~dead /\ pc[t] = "check"
    /\ Goto(t, IF Due THEN "try" ELSE Back(t))
    /\ UNCHANGED <<now, treeVars, dumpVars, mainVars, lock, sentence, dead, wild>>

\* pthread_mutex_trylock: whoever does not get it leaves the dump to a later call.
TryLock(t) ==
    /\ ~dead /\ pc[t] = "try"
    /\ lock' = IF lock = "none" THEN t ELSE lock
    /\ Goto(t, IF lock = "none" THEN "dump" ELSE Back(t))
    /\ UNCHANGED <<now, treeVars, dumpVars, mainVars, sentence, dead, wild>>

\* The tree is written to the file named after json_started and freed.
Dump(t) ==
    /\ ~dead /\ pc[t] = "dump"
    /\ files' = files \cup {started}
    /\ early' = (early \/ ~Due)
    /\ root' = IF root = "null" THEN "null" ELSE "freed"
    /\ node' = [s \in Signals |-> IF node[s] = "null" THEN "null" ELSE "freed"]
    /\ wild' = IF root = "freed" THEN wild \cup {t} ELSE wild
    /\ Goto(t, "fill")
    /\ UNCHANGED <<now, started, mainVars, lock, sentence, dead>>

\* Mutant: the pointer of an unwanted signal is left as it was.
can_json_filler_Keeps(W) == [s \in CanSignals |-> IF s \in W THEN "live" ELSE node[s]]

\* The fillers: an object for a wanted signal, NULL for another one.
can_json_filler(W) == [s \in CanSignals |-> IF s \in W THEN "live" ELSE "null"]

canopen_json_filler(W) == [s \in CanopenSignals |-> IF s \in W THEN "live" ELSE "null"]

gps_json_filler == [s \in GpsSignals |-> "live"]

\* When brake 2 is not wanted it is the pointer of brake 1 that is set to NULL.
modbus_json_filler(W) ==
    [brake1 |-> IF ModbusSignals \subseteq W THEN "live" ELSE "null",
     brake2 |-> IF "brake2" \in W THEN "live" ELSE node["brake2"]]

\* What the fillers see as wanted: a freed dataset may hold anything.
Seen == {W \in SUBSET Signals :
            \A p \in build : dataset[p] = "alive" =>
                W \cap SignalsOf(p) = wanted \cap SignalsOf(p)}

\* call_all_filler_callbacks, over the plugins of the build.
call_all_filler_callbacks(W) ==
    [s \in Signals |->
        CASE s \in CanSignals /\ "can" \in build -> can_json_filler(W)[s]
          [] s \in CanopenSignals /\ "canopen" \in build -> canopen_json_filler(W)[s]
          [] s \in GpsSignals /\ "gps" \in build -> gps_json_filler[s]
          [] s \in ModbusSignals /\ "modbus" \in build -> modbus_json_filler(W)[s]
          [] OTHER -> node[s]]

\* Mutants: the time of the old tree is kept, the lock is not given back.
Restart_OldName(t) ==
    /\ ~dead /\ pc[t] = "fill"
    /\ started' = IF started = 0 THEN now ELSE started
    /\ root' = "alive"
    /\ \E W \in Seen : node' = call_all_filler_callbacks(W)
    /\ lock' = "none"
    /\ Goto(t, Back(t))
    /\ UNCHANGED <<now, files, early, mainVars, sentence, dead, wild>>

Restart_KeepsLock(t) ==
    /\ ~dead /\ pc[t] = "fill"
    /\ started' = now
    /\ root' = "alive"
    /\ \E W \in Seen : node' = call_all_filler_callbacks(W)
    /\ lock' = lock
    /\ Goto(t, Back(t))
    /\ UNCHANGED <<now, files, early, mainVars, sentence, dead, wild>>

\* datadumper_init: the next tree, and the lock is given back.
Restart(t) ==
    /\ ~dead /\ pc[t] = "fill"
    /\ started' = now
    /\ root' = "alive"
    /\ \E W \in Seen : node' = call_all_filler_callbacks(W)
    /\ lock' = "none"
    /\ Goto(t, Back(t))
    /\ UNCHANGED <<now, files, early, mainVars, sentence, dead, wild>>

-----------------------------------------------------------------------------

Control == StartAll \/ (\E s \in Signals : SetDataset(s)) \/ StopReader \/ JoinReader

CanReader(t) ==
    Open(t) \/ OpenFails(t) \/ DeafEnds(t) \/ TestLoop(t) \/ NoFrame(t) \/ ReadFails(t)
    \/ OtherFrame(t) \/ Frame(t) \/ LockFrame(t)

Gps == (\E ok \in BOOLEAN : GpsOpen(ok)) \/ GpsRead \/ GpsToken \/ LockPosition

Modbus == \E label \in {"reg1", "reg2", "write1", "write2"} :
            ModbusTest(label) \/ ModbusWrite(label)

Dumper(t) == Unlock(t) \/ Check(t) \/ TryLock(t) \/ Dump(t) \/ Restart(t)

Next ==
    \/ Tick
    \/ Control
    \/ \E t \in Readers : CanReader(t) \/ Dumper(t)
    \/ Gps
    \/ Modbus
    \/ BgEnds

Spec == Init /\ [][Next]_vars

\* The steps a CAN reader takes by itself, without a frame.
OwnStep(t) ==
    Open(t) \/ OpenFails(t) \/ (end[t] /\ DeafEnds(t)) \/ TestLoop(t) \/ NoFrame(t)
    \/ LockFrame(t) \/ Dumper(t)

\* Threads are scheduled, select returns after its time-out, and a thread that
\* waits for the mutex gets it in the end (the one step that is not enabled all
\* the while, hence SF).  Nothing is assumed of the buses.
FairSpec ==
    /\ Spec
    /\ \A t \in CanReaders : SF_vars(OwnStep(t))
    /\ \A t \in Readers \ CanReaders : WF_vars(Dumper(t))

-----------------------------------------------------------------------------
(* Properties.                                                             *)

Labels == {"off", "open", "deaf", "test", "recv", "token", "lock", "unlock", "reg1",
           "write1", "reg2", "write2", "check", "try", "dump", "fill", "run", "ended"}

\* The variables keep their types; no tree or file is dated later than the clock.
TypeOK ==
    /\ build \in Builds
    /\ now \in FirstTime..MaxTime /\ started \in 0..now
    /\ root \in {"null", "alive", "freed"}
    /\ node \in [Signals -> {"null", "live", "freed"}]
    /\ wanted \subseteq Signals
    /\ dataset \in [Plugins -> {"alive", "freed"}]
    /\ lock \in Readers \cup {"none"}
    /\ files \subseteq 0..now
    /\ pc \in [Threads -> Labels]
    /\ end \in [Readers -> BOOLEAN] /\ bgEnd \in BOOLEAN /\ sentence \in BOOLEAN
    /\ stopped \in 0..Len(Joined)
    /\ main \in {"start", "signal", "join", "done"}
    /\ dead \in BOOLEAN /\ wild \subseteq Readers
    /\ early \in BOOLEAN /\ missed \subseteq CanReaders

\* The callbacks of the CAN and CANopen plugins never touch a JSON object that
\* is not part of the tree, and no dump uses a tree that is already freed,
\* whichever thread dumped last, whichever signals a client chooses while
\* frames come in, and although a filler may read a dataset that another
\* plugin has freed; fj_root points to a freed tree only while somebody has the
\* lock.  (GPS and Modbus threads can, see the README.)
LockedWritesLive ==
    /\ wild \cap CanReaders = {}
    /\ root = "freed" => lock # "none"

\* A file of json_log is written a second time, and its samples lost, only if
\* a tree was dumped before its period was over, which the test of json_started
\* outside the lock makes possible.
OverwriteOnlyEarly ==
    [][\A t \in Readers : Dump(t) /\ started \in files => early]_vars

\* The dataset of a plugin outlives the readers that use it: canreceiver_deinit
\* and canopenreceiver_deinit free it after the last join only.
ReadersDataAlive ==
    \A t \in CanReaders :
        pc[t] \notin {"off", "ended"} => dataset[PluginOf(t)] = "alive"

\* Why these hold: a thread is between its lock and its unlock exactly when it
\* holds the lock.
LockHeld ==
    \A t \in Readers : pc[t] \in {"unlock", "dump", "fill"} <=> lock = t

\* Somebody is between the free of the old tree and the building of the next.
Filling == \E t \in Readers : pc[t] = "fill"

\* Only then is there a freed tree, or a pointer of the CAN plugins into one (the
\* pointer of brake 2 may be left over); a plugin that is not part of the build
\* has no object.
FreedWhileFilling ==
    /\ root = "freed" => Filling
    /\ \A s \in CanSignals \cup CanopenSignals : node[s] = "freed" => Filling
    /\ \A p \in {"can", "canopen"} :
          p \notin build => \A s \in SignalsOf(p) : node[s] = "null"

\* Until a tree is dumped early every file is older than the clock, so that the
\* next tree has a name of its own.
FilesDated ==
    ~early => /\ \A f \in files : f < now
              /\ started \in files => Filling

\* Nobody runs before the start, who has been joined has ended, and a dataset is
\* freed after all readers of its plugin have.
EndedWhenJoined ==
    /\ main = "start" => \A t \in Threads : pc[t] = "off"
    /\ main = "join" => stopped < Len(Joined)
    /\ \A i \in 1..stopped : pc[Joined[i]] = "ended"
    /\ \A t \in CanReaders : dataset[PluginOf(t)] = "freed" => pc[t] = "ended"

\* The inductive invariant of the collectors.
IndInv ==
    /\ TypeOK /\ LockedWritesLive /\ LockHeld /\ FreedWhileFilling /\ FilesDated
    /\ EndedWhenJoined

\* The reader that is being joined.
Awaited == IF main = "join" THEN Joined[stopped + 1] ELSE "none"

\* A CAN reader that is told to stop ends, with frames coming in or not and
\* whoever holds the lock, so that canthread_stop returns; unless can_open has
\* cleared the flag after it was set.
ReaderStops ==
    (Awaited \in CanReaders) ~> (Awaited \notin CanReaders \/ pc[Awaited] = "ended"
                                  \/ Awaited \in missed \/ dead)
=============================================================================
