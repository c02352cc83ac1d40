----------------------------- MODULE ObdiiCodec -----------------------------
(***************************************************************************)
(* The OBD-II commands (plugins/pip/obdii/ejv_obdii/OBDII.c): which answer *)
(* is taken for the answer to which command, what the decoders read of it, *)
(* and the list of supported commands that OBDIIGetSupportedCommands       *)
(* (OBDIICommunication.c) builds.  Values are abstracted: of an answer the *)
(* model keeps the two bytes it is recognised by and its length.           *)
(***************************************************************************)
EXTENDS Naturals, FiniteSets

VARIABLE_RESPONSE_LENGTH == 0
MAX_ISOTP_PAYLOAD == 4095

Command(mode, pid, len) == [mode |-> mode, pid |-> pid, len |-> len]

\* expectedResponseLength of the mode 1 commands: two bytes that repeat the
\* command and one, two or four of data.
Mode1Length(pid) ==
    CASE pid \in {0, 1, 32, 64, 65} \cup 36..43 \cup 52..59 -> 6
      [] pid \in {2, 3, 12, 16, 31, 33, 34, 35, 49, 50, 66, 67, 68, 77, 78}
               \cup 20..27 \cup 60..63 -> 4
      [] OTHER -> 3

OBDIIMode1Commands == {Command(1, pid, Mode1Length(pid)) : pid \in 0..78}
OBDIIMode3Command  == Command(3, 0, VARIABLE_RESPONSE_LENGTH)
OBDIIMode9Commands == {Command(9, 0, 6), Command(9, 1, 3),
                       Command(9, 2, VARIABLE_RESPONSE_LENGTH)}

\* Every command the library has.
AllCommands == OBDIIMode1Commands \cup OBDIIMode9Commands \cup {OBDIIMode3Command}

\* The command whose responseDecoder is NULL: VIN message count.
NoDecoder == Command(9, 1, 3)

\* How many bytes of an answer of n bytes the decoder of command c reads:
\* OBDIIDecodeBitfield and the oxygen sensors from 0x24 on read four bytes of
\* data, the two-byte values two, the single-byte values one; the freeze DTC is
\* not decoded, trouble codes are read in pairs and the VIN to its end.
DecoderReads(c, n) ==
    CASE c.mode = 1 /\ c.pid = 2 -> 0
      [] c.mode = 3 -> IF n < 2 \/ (n - 2) % 2 # 0 THEN 0 ELSE n
      [] c.mode = 9 /\ c.pid = 2 -> n
      [] c.mode = 1 /\ c.pid \in {0, 1, 32, 64, 65} \cup 36..43 \cup 52..59 -> 6
      [] c.mode = 9 /\ c.pid = 0 -> 6
      [] c.mode = 1 /\ c.pid \in {3, 12, 16, 31, 33, 34, 35, 49, 50, 66, 67, 68, 77, 78}
                          \cup 20..27 \cup 60..63 -> 4
      [] OTHER -> 3

\* What read() returns of an answer of n bytes: the buffer has the length that
\* is expected, and the rest of a longer answer is discarded.
ReadLength(c, n) ==
    LET room == IF c.len = VARIABLE_RESPONSE_LENGTH THEN MAX_ISOTP_PAYLOAD ELSE c.len
    IN  IF n < room THEN n ELSE room

\* Mutant: the length is not compared.
ResponseOfAnyLength(c, answer, n) ==
    /\ n > 0
    /\ answer.mode = c.mode
    /\ c.mode \in {1, 9} => n >= 2 /\ answer.pid = c.pid

\* An answer, n bytes of which were read, is the answer to command c: it has
\* the length expected, 0x40 plus the mode (mode here), and the PID.
OBDIIResponseSuccessful(c, answer, n) ==
    /\ n > 0
    /\ c.len # VARIABLE_RESPONSE_LENGTH => n = c.len
    /\ answer.mode = c.mode
    /\ c.mode \in {1, 9} => n >= 2 /\ answer.pid = c.pid

-----------------------------------------------------------------------------
(* OBDIIGetSupportedCommands *)

\* The bit fields a car can answer with: three of mode 1 and one of mode 9, as the
\* sets of the 32 PIDs that each of them is about.
BitFields == (SUBSET (1..32)) \X (SUBSET (33..64)) \X (SUBSET (65..96)) \X (SUBSET (1..32))

\* The PIDs of mode 1 that are asked for and believed.  car[i] is the answer to
\* the i-th bit field, empty when the query failed; the next is asked for if
\* the last PID of this one is supported.
Mode1Supported(car) ==
    LET b1 == car[1]
        b2 == IF 32 \in b1 THEN car[2] ELSE {}
        b3 == IF 64 \in b2 THEN car[3] \cap 65..78 ELSE {}
    IN  b1 \cup b2 \cup b3

\* & 0xE0000000: PIDs 1 to 3.
Mode9Supported(car) == car[4] \cap 1..3

NumCommands(car) ==
    Cardinality(Mode1Supported(car)) + Cardinality(Mode9Supported(car)) + 2 + 1

OBDIICommandSetContainsCommand(car, c) ==
    \/ c.mode = 1 /\ (c.pid = 0 \/ c.pid \in Mode1Supported(car))
    \/ c.mode = 9 /\ (c.pid = 0 \/ c.pid \in Mode9Supported(car))

\* The commands that are written into the array.
CommandList(car) ==
    {c \in OBDIIMode1Commands \cup OBDIIMode9Commands :
        OBDIICommandSetContainsCommand(car, c)} \cup {OBDIIMode3Command}

-----------------------------------------------------------------------------
(* Properties *)

\* OBDIIGetSupportedCommands never writes past the array it allocates, and fills
\* it, unless the car supports PID 3 of mode 9, which is counted and has no entry
\* in the table: one entry is then left as malloc returned it.
ListFits(car) ==
    /\ Cardinality(CommandList(car)) <= NumCommands(car)
    /\ 3 \notin car[4] => Cardinality(CommandList(car)) = NumCommands(car)

\* No decoder reads past the bytes of an answer that was taken for a successful
\* one, however short the answer or long the one that was expected.  The count of
\* VIN messages (OBDII.c:370) has no decoder, and nothing is said of it: whoever
\* decodes its answer calls a null pointer (OBDII.c:230).
DecodeInBounds(c, sent) ==
    LET n == ReadLength(c, sent)
    IN  OBDIIResponseSuccessful(c, c, n) /\ c # NoDecoder => DecoderReads(c, n) <= n
=============================================================================
