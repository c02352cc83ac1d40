------------------------------- MODULE Modbus -------------------------------
(***************************************************************************)
(* Register reads over a serial line: modbus.c and the loop of             *)
(* pip_plugin_modbus.c that calls it for one signal after the other.       *)
(*                                                                         *)
(* read() returns as soon as there is a byte (VMIN is 1) and at most 100   *)
(* of them, so a call may see the beginning of its answer only, and the    *)
(* next one the rest.  An answer does not say which register it is about.  *)
(* Of an answer the model has three pieces: address and function, the      *)
(* number of bytes, and the data with the CRC.  A read that ends within a  *)
(* piece has the outcomes of one that ends before it, or after "head".     *)
(***************************************************************************)
EXTENDS Integers, Sequences

CONSTANTS
    MaxReads,   \* bound: calls of modbus_read_registers
    MaxSlips    \* bound: what goes wrong with them

ASSUME ModbusAssumption == {MaxReads, MaxSlips} \subseteq Nat

VARIABLES
    reads,      \* calls so far; call n is about signal n modulo the signals
    line,       \* pieces sent by the device and not read yet
    waiting,    \* modbus_read_registers is in read()
    data,       \* the variable a round of the loop reads into
    overrun,    \* more than that variable was written
    reported,   \* what was last reported, for which call, and the call's result
    slips       \* history: requests not answered as they should be, and reads
                \* that failed or returned before the line was empty

modbusVars == <<reads, line, waiting, data, overrun, reported, slips>>

Piece(n, part) == [call |-> n, part |-> part]
AnswerTo(n)    == <<Piece(n, "head"), Piece(n, "count"), Piece(n, "data")>>

\* What a device sends that is no answer: an exception (address, function with its
\* upper bit set, code, CRC), bytes damaged on the line, or nothing, which is
\* also what follows from a write that fails or a port that was never opened.
Failures(n) == {<<Piece(n, "exception")>>, <<Piece(n, "damaged")>>, <<>>}

\* What data may hold: the register that call n asked for (n), -1 as at the
\* beginning of a round (Unset), or any other bytes.
Unset == 0
Noise == -2

NoReport == [call |-> 0, value |-> Unset, ok |-> FALSE, refused |-> FALSE]

ModbusInit ==
    /\ reads = 0 /\ line = <<>>
    /\ waiting = FALSE /\ data = Unset /\ overrun = FALSE
    /\ reported = NoReport
    /\ slips = 0

\* modbus_read_registers writes its request, whatever write returns.  The first
\* call of a round finds data set to -1.  What happens to the thread once its
\* stack is overwritten is not followed.
Request(answer) ==
    /\ ~waiting /\ ~overrun /\ reads < MaxReads
    /\ data' \in {data, Unset}
    /\ reads' = reads + 1
    /\ line' = line \o answer
    /\ waiting' = TRUE
    /\ UNCHANGED <<overrun, reported>>

WriteRequest == Request(AnswerTo(reads + 1)) /\ UNCHANGED slips

WriteUnanswered ==
    /\ slips < MaxSlips
    /\ \E answer \in Failures(reads + 1) : Request(answer)
    /\ slips' = slips + 1

Answered(buf) == Len(buf) >= 3 /\ buf[1].part = "head"
Refused(buf)  == Len(buf) = 1 /\ buf[1].part = "exception"

\* What buffer[2], the number of bytes, may be: 0 if that much has not come, 2 for
\* one register, and anything in a buffer that does not begin with an answer.
BytesRead(buf) ==
    IF buf[1].part = "head" THEN {IF Len(buf) = 1 THEN 0 ELSE 2} ELSE 0..255

\* The word stored first if there is one; data that has not come is 0.
Decode(buf, bytes, old) ==
    CASE bytes \div 2 = 0 -> old
      [] bytes \div 2 > 0 /\ Answered(buf) -> buf[1].call
      [] OTHER -> Noise

\* Mutant: the CRC is that of the request.
CrcOfAnything(buf) == TRUE

\* response_crc = crc.  The CRC runs over 3 + bytes bytes: it fits an answer that
\* stands at the beginning of the buffer, and an exception, after whose own CRC
\* the sum is 0, as are the bytes behind it.  That it fits by chance is left out.
CrcMatches(buf) == Answered(buf) \/ Refused(buf)

\* read() returns what has arrived, or 100 bytes of it; bytes \div 2 words are
\* stored from data on, though there is room for one; and the loop reports data
\* whatever the result of the call is.
ReadAnswer ==
    /\ waiting
    /\ \E n \in 1..Len(line) :
         LET buf == SubSeq(line, 1, n)
         IN  \E bytes \in BytesRead(buf) :
               /\ n < Len(line) => slips < MaxSlips
               /\ slips' = IF n < Len(line) THEN slips + 1 ELSE slips
               /\ data' = Decode(buf, bytes, data)
               /\ overrun' = (bytes \div 2 > 1)
               /\ reported' = [call |-> reads, value |-> data', ok |-> CrcMatches(buf),
                               refused |-> Refused(buf)]
               /\ line' = SubSeq(line, n + 1, Len(line))
    /\ waiting' = FALSE
    /\ UNCHANGED reads

\* read() fails: the buffer is all 0, and so is no answer.
ReadFails ==
    /\ waiting /\ slips < MaxSlips
    /\ slips' = slips + 1
    /\ reported' = [call |-> reads, value |-> data, ok |-> FALSE, refused |-> FALSE]
    /\ waiting' = FALSE
    /\ UNCHANGED <<reads, line, data, overrun>>

ModbusNext == WriteRequest \/ WriteUnanswered \/ ReadAnswer \/ ReadFails

ModbusSpec == ModbusInit /\ [][ModbusNext]_modbusVars

-----------------------------------------------------------------------------
(* Properties *)

\* As long as every request was answered and every answer read in one piece,
\* modbus_read_registers succeeds and stays within the variable it reads into;
\* after that, a call that returns 0 has read a register that was asked for at
\* most as many calls before as things went wrong, or an exception answer.
RegisterIsOwn ==
    reported.call # 0 =>
        /\ slips = 0 => reported.ok /\ ~reported.refused /\ ~overrun
        /\ reported.ok /\ ~reported.refused =>
              /\ reported.value \in 1..reported.call
              /\ reported.call - reported.value <= slips

\* Why: pieces on the line are not older than what went wrong allows.
Recent(p) ==
    /\ p.call \in 1..reads
    /\ p.call >= reads - slips
    /\ ~waiting => p.call > reads - slips

NotTooOld == \A i \in DOMAIN line : Recent(line[i])

\* Before that there is the answer to the present call, or nothing.
WholeAnswers == slips = 0 => line = IF waiting THEN AnswerTo(reads) ELSE <<>>

Pieces == [call : Nat, part : {"head", "count", "data", "exception", "damaged"}]

\* The variables keep their types.
ModbusTypeOK ==
    /\ reads \in Nat /\ slips \in Nat
    /\ line \in Seq(Pieces)
    /\ waiting \in BOOLEAN /\ overrun \in BOOLEAN
    /\ data \in Int
    /\ reported \in [call : Nat, value : Int, ok : BOOLEAN, refused : BOOLEAN]

\* The inductive invariant of the register reads.
ModbusInd == ModbusTypeOK /\ NotTooOld /\ WholeAnswers /\ RegisterIsOwn
=============================================================================
