----------------------------- MODULE MCDevices ------------------------------
(* Devices for TLC. *)
EXTENDS Devices

\* Names of one and two letters; values that are empty, one character long and
\* with an '=' inside.
MCLetters     == {"a", "b", "c", "x", "y", "z", "1", "2", "3", "4"}
MCGroups      == {<<"a">>, <<"b", "c">>}
MCOptionNames == {<<"x">>, <<"y", "z">>}
MCSettings    == {<<>>, <<"1">>, <<"2", "=", "3", "4">>}

\* The bits of a byte.
BitsOf(n) == {b \in 0..7 : (n \div 2^b) % 2 = 1}

\* ',' 'A' '7' 'a' '~', and Nul, newline, '$', '*', DEL and a byte above 127.
MCSampleCodes == {BitsOf(n) : n \in {44, 65, 55, 97, 126, 0, 10, 13, 36, 42, 127, 193}}
MCSampleBytes == {BitsOf(n) : n \in {0, 1, 128, 255}}

\* PIDs at both ends of each bit field, and past the end of the tables.
MCSampleCars ==
    (SUBSET {1, 12, 32}) \X (SUBSET {33, 64}) \X (SUBSET {65, 78, 79}) \X (SUBSET {2, 3, 4})
=============================================================================
