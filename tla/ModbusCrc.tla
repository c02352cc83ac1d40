------------------------------ MODULE ModbusCrc ------------------------------
(* The check sum of Modbus: calculate_crc of modbus.c. *)
EXTENDS Bits

\* One bit: shifted, and 0xA001 where a 1 is shifted out.
CrcBit(crc) ==
    LET shifted == {b - 1 : b \in crc \ {0}}
    IN  IF 0 \in crc THEN SymDiff(shifted, {0, 13, 15}) ELSE shifted

\* The word as the two loops go on.
CrcBits(start) == LET crc[i \in 0..8] == IF i = 0 THEN start ELSE CrcBit(crc[i - 1]) IN crc

CrcByte(crc, byte) == CrcBits(SymDiff(crc, byte))[8]

CrcBytes(buf) ==
    LET crc[i \in 0..Len(buf)] == IF i = 0 THEN 0..15 ELSE CrcByte(crc[i - 1], buf[i])
    IN  crc

calculate_crc(buf) == CrcBytes(buf)[Len(buf)]

-----------------------------------------------------------------------------
(* Properties *)

\* No change of one byte of a message leaves the check sum what it was.
CrcCatches(buf, Sample) ==
    \A other \in OneChanged(buf, Sample) : calculate_crc(other) # calculate_crc(buf)
=============================================================================
