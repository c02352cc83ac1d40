------------------------------ MODULE Dataset -------------------------------
(***************************************************************************)
(* The selection of signals (vehicle_dataset.c): a client sends the names  *)
(* of the signals it wants as a JSON array, the network thread turns them  *)
(* into a byte per option, and the collectors look at the bytes as fields  *)
(* of a structure (can01_vehicle_dataset_t), at any time and without a     *)
(* lock.                                                                   *)
(*                                                                         *)
(* The options are those of the CAN collector, of which the model keeps    *)
(* the first seven: the two whose order differs from the structure's, and  *)
(* names that begin alike.                                                 *)
(***************************************************************************)
EXTENDS Naturals, Sequences, SequencesExt, FiniteSets

CONSTANT MaxNames   \* bound: names in one array

ASSUME DatasetAssumption == MaxNames \in Nat

\* vehicledatasetdemo01_options, and the fields at the same offsets.
options == <<"DoorDrvrReSts", "DoorDrvrSts", "VehMtnStSafe", "EngCooltLvl",
             "TrSts", "DoorPassSts", "DoorPassReSts">>
fields  == <<"DoorDrvrSts", "DoorDrvrReSts", "VehMtnStSafe", "EngCooltLvl",
             "TrSts", "DoorPassSts", "DoorPassReSts">>

Offsets == 1..Len(options)

\* Names a client may send: options, beginnings of options, others.
Names == {"DoorDrvrReSts", "DoorDrvrSts", "TrSts", "DoorPassReSts", "DoorPass",
          "", "Speed"}

\* The options that begin with the name (strncmp over the length of the name).
BeginsWith(name) ==
    CASE name = "DoorPass" -> {6, 7}
      [] name = ""         -> Offsets
      [] OTHER             -> {i \in Offsets : options[i] = name}

VARIABLES
    val,       \* tokens[i].val
    dataset,      \* the bytes of the dataset
    step,      \* vehicledataset_from_json: "idle", or what comes next
    names,     \* the array that came last
    index,     \* the name of it that is looked up next
    seen,      \* fields a collector found set at its last look since then
    (* History variables *)
    before     \* the fields that were set when the last array came

datasetVars == <<val, dataset, step, names, index, seen, before>>

None == [i \in Offsets |-> 0]

\* The fields whose byte is 1.
Set(bytes) == {fields[i] : i \in {j \in Offsets : bytes[j] = 1}}

DatasetInit ==
    /\ val = None /\ dataset = None
    /\ step = "idle"
    /\ names = <<>> /\ index = 1 /\ seen = {} /\ before = {}

-----------------------------------------------------------------------------

\* set_token: the first option that begins with the name, if there is one.
First(name) == {i \in BeginsWith(name) : \A j \in BeginsWith(name) : i <= j}

set_token(v, name) == [i \in Offsets |-> IF i \in First(name) THEN 1 ELSE v[i]]

\* An array has been found in the message; without one nothing happens.
FromJson(s) ==
    /\ step = "idle"
    /\ names' = s
    /\ before' = Set(dataset) /\ seen' = {}
    /\ step' = "init"
    /\ UNCHANGED <<val, dataset, index>>

\* Mutant: the dataset is cleared and the tokens are not.
InitData ==
    /\ step = "init"
    /\ dataset' = None
    /\ index' = 1
    /\ step' = IF names = <<>> THEN "idle" ELSE "tokens"
    /\ UNCHANGED <<val, names, seen, before>>

\* vehicledataset_init: everything is cleared; an empty array ends here.
vehicledataset_init ==
    /\ step = "init"
    /\ val' = None /\ dataset' = None
    /\ index' = 1
    /\ step' = IF names = <<>> THEN "idle" ELSE "tokens"
    /\ UNCHANGED <<names, seen, before>>

\* One name of the array.
SetToken ==
    /\ step = "tokens"
    /\ val' = set_token(val, names[index])
    /\ index' = index + 1
    /\ step' = IF index = Len(names) THEN "copy" ELSE "tokens"
    /\ UNCHANGED <<dataset, names, seen, before>>

Copy ==
    /\ step = "copy"
    /\ dataset' = val
    /\ step' = "idle"
    /\ UNCHANGED <<val, names, index, seen, before>>

\* A collector looks at the wanted signals, also while they are being changed:
\* vehicledataset_init and the copy have then been done up to some offset.
Look ==
    /\ \E n \in 0..Len(options) :
          LET next == IF step = "init" THEN None ELSE IF step = "copy" THEN val ELSE dataset
          IN  seen' = Set([i \in Offsets |-> IF i <= n THEN next[i] ELSE dataset[i]])
    /\ UNCHANGED <<val, dataset, step, names, index, before>>

\* vehicledataset_to_json, called when no array is being read: the names of the
\* options that are set.
vehicledataset_to_json == {options[i] : i \in {j \in Offsets : dataset[j] = 1}}

DatasetNext ==
    \/ \E n \in 0..MaxNames : \E s \in [1..n -> Names] : FromJson(s)
    \/ vehicledataset_init \/ SetToken \/ Copy \/ Look

DatasetSpec == DatasetInit /\ [][DatasetNext]_datasetVars

-----------------------------------------------------------------------------
(* Properties *)

\* What a name stands for: the option of that name, else the first that begins
\* with it.
Meant(name) == IF name \in ToSet(options) THEN {name}
               ELSE IF name = "DoorPass" THEN {"DoorPassSts"}
               ELSE IF name = "" THEN {"DoorDrvrReSts"} ELSE {}

\* The structure has the fields of the driver's two doors in the other order than
\* the options.
Swapped(name) == IF name = "DoorDrvrSts" THEN "DoorDrvrReSts"
                 ELSE IF name = "DoorDrvrReSts" THEN "DoorDrvrSts" ELSE name

Selection(array) == UNION {Meant(n) : n \in ToSet(array)}

\* The selection is the one the last array asked for, in whatever order and how
\* often it names a signal, with nothing of an earlier array left of it; and what
\* the collector finds set are these signals, but for the driver's doors, which
\* it takes for each other.  While the network thread replaces one selection by
\* another a collector may miss signals, but it never collects one that belongs
\* to neither.
SelectionIsLast ==
    LET asked == {Swapped(o) : o \in Selection(names)}
    IN  /\ step = "idle" => /\ vehicledataset_to_json = Selection(names)
                            /\ Set(dataset) = asked
        /\ seen \subseteq before \cup asked

\* Why: the bytes that belong to the names with the numbers in J.
Marks(J) == [i \in Offsets |-> IF \E j \in J : i \in First(names[j]) THEN 1 ELSE 0]

\* From the clearing to the copy the dataset is empty and the tokens are those of
\* the names that were looked up; afterwards both are those of the whole array.
MarkedSoFar ==
    /\ step = "init" => before = Set(dataset)
    /\ step = "tokens" => index \in 1..Len(names) /\ val = Marks(1..(index - 1))
    /\ step = "copy" => val = Marks(1..Len(names))
    /\ step \in {"tokens", "copy"} => dataset = None
    /\ step = "idle" => dataset = Marks(1..Len(names))

\* The variables keep their types.
DatasetTypeOK ==
    /\ val \in [Offsets -> {0, 1}] /\ dataset \in [Offsets -> {0, 1}]
    /\ step \in {"idle", "init", "tokens", "copy"}
    /\ names \in Seq(Names) /\ index \in Nat

\* The inductive invariant of the selection.
DatasetInd == DatasetTypeOK /\ MarkedSoFar /\ SelectionIsLast
=============================================================================
