------------------------------ MODULE MCObdii -------------------------------
(* Obdii for TLC: two processes, two ECUs, the engine's speed and RPM. *)
EXTENDS Obdii, TLC

CONSTANTS c1, c2, ecu1, ecu2

\* Vehicle speed and engine RPM, whose answers differ in length and PID.
MCCommands == {Command(1, 12, 4), Command(1, 13, 3)}

\* Neither the processes nor the ECUs are told apart.
Symmetry == Permutations({c1, c2}) \cup Permutations({ecu1, ecu2})
=============================================================================
