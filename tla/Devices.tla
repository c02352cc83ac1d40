------------------------------ MODULE Devices -------------------------------
(***************************************************************************)
(* The parts at the edge of the server, each on its own: relay board and   *)
(* actions, selection of signals, GPS, Modbus, configuration file and the  *)
(* tables of OBD-II.  They share nothing, so a behaviour exercises one of  *)
(* them; functions without state are called once, with any argument.       *)
(***************************************************************************)
EXTENDS Actuators, Dataset, Nmea, Minmea, Modbus, ModbusCrc, Configuration, ObdiiCodec

CONSTANTS
    Groups, OptionNames,
    Settings,    \* values of options
    MaxLines,    \* bound: lines of a configuration file
    Sizes,       \* sizes of a caller's buffer
    FieldChars,  \* characters of a number
    MaxField,    \* bound: how many
    SampleCodes, \* characters of a sentence, and what they are changed into
    SampleBytes, \* bytes of a Modbus answer
    MaxMessage,  \* bound: length of a sentence, and of an answer
    SampleCars,  \* cars, by what they say of the commands they support
    MaxAnswer    \* bound: length of a car's answer

ASSUME DevicesAssumption ==
    /\ NamesOK(Groups) /\ NamesOK(OptionNames) /\ ValuesOK(Settings) /\ Sizes \subseteq Nat
    /\ FieldChars \subseteq Characters
    /\ SampleCodes \subseteq Bytes /\ SampleBytes \subseteq Bytes
    /\ SampleCars \subseteq BitFields
    /\ MaxLines \in Nat /\ MaxField \in Nat /\ MaxMessage \in Nat /\ MaxAnswer \in Nat

VARIABLES
    part,    \* the part that is exercised
    called,  \* a function has been called
    arg      \* with this argument

devicesVars == <<part, called, arg, relayVars, datasetVars, gpsVars, modbusVars>>

Parts == {"relay", "dataset", "gps", "modbus", "config", "scan", "check", "crc",
          "supported", "answer"}

Init ==
    /\ part \in Parts
    /\ called = FALSE /\ arg = <<>>
    /\ RelayInit /\ DatasetInit /\ GpsInit /\ ModbusInit
    /\ part # "gps" => started = 0 /\ \A i \in DOMAIN kinds : kinds[i] = "fix"
    /\ part # "relay" => pep = "relay"

Call(p, Args) ==
    /\ part = p /\ ~called
    /\ called' = TRUE
    /\ arg' \in Args
    /\ UNCHANGED <<part, relayVars, datasetVars, gpsVars, modbusVars>>

UpTo(S, n) == UNION {[1..k -> S] : k \in 0..n}

FileLines == {Comment} \cup {Group(g) : g \in Groups}
                       \cup {Option(o, v) : o \in OptionNames, v \in Settings}

\* A file begins with a group, after comments at most.
Files == {f \in UpTo(FileLines, MaxLines) :
            \A i \in DOMAIN f : f[i][1] \notin {"#", "["} => \E j \in 1..i : f[j][1] = "["}

Relay   == part = "relay" /\ RelayNext /\ UNCHANGED <<part, called, arg, datasetVars, gpsVars, modbusVars>>
Signals == part = "dataset" /\ DatasetNext /\ UNCHANGED <<part, called, arg, relayVars, gpsVars, modbusVars>>
Gps     == part = "gps" /\ GpsNext /\ UNCHANGED <<part, called, arg, relayVars, datasetVars, modbusVars>>
Serial  == part = "modbus" /\ ModbusNext /\ UNCHANGED <<part, called, arg, relayVars, datasetVars, gpsVars>>

Next ==
    \/ Relay \/ Signals \/ Gps \/ Serial
    \/ Call("config", Files)
    \/ Call("scan", UpTo(FieldChars, MaxField))
    \/ Call("check", UpTo({c \in SampleCodes : Summed(c)}, MaxMessage))
    \/ Call("crc", UpTo(SampleBytes, MaxMessage))
    \/ Call("supported", SampleCars)
    \/ Call("answer", AllCommands \X (0..MaxAnswer))

Spec == Init /\ [][Next]_devicesVars

-----------------------------------------------------------------------------
(* Properties *)

\* config_manager_get_option_string returns what an ini file means, cut to the
\* buffer, and stays within it if there is room for two bytes more than the
\* value and its 0.
ConfigMeans ==
    part = "config" /\ called =>
        \A g \in Groups, o \in OptionNames, size \in Sizes :
            LET got  == GetString(FileOf(arg), g, o, size)
                want == Lookup(arg, g, o)
            IN  IF want = NotFound THEN got.value = NotFound
                ELSE /\ got.value = SubSeq(want, 1, IF Len(want) < size THEN Len(want) ELSE size - 1)
                     /\ Len(want) + 3 <= size => got.last < size

\* What minmea takes for a number is that number to the last digit it can hold
\* (ScanIsExact); minmea_check refuses a sentence of which one character was
\* changed, except where that takes the checksum away (CheckCatches); and one
\* changed byte changes the CRC that modbus_read_registers compares (CrcCatches).
InputsExact ==
    called =>
        /\ part = "scan" => ScanIsExact(arg)
        /\ part = "check" => CheckCatches(arg, SampleCodes)
        /\ part = "crc" => CrcCatches(arg, SampleBytes)

\* The OBD-II library stays within its arrays: ListFits and DecodeInBounds.
TablesInBounds ==
    called =>
        /\ part = "supported" => ListFits(arg)
        /\ part = "answer" => DecodeInBounds(arg[1], arg[2])
=============================================================================
