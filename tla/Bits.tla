-------------------------------- MODULE Bits --------------------------------
(***************************************************************************)
(* Bytes and words as the sets of their bits that are 1, bit 0 being the   *)
(* lowest, so that ^ is the symmetric difference; and messages that were   *)
(* changed on their way.                                                   *)
(***************************************************************************)
EXTENDS Integers, Sequences, FiniteSetsExt

Bytes == SUBSET (0..7)
Words == SUBSET (0..15)

\* The sequences that differ from s in one place, where they have one of Others.
OneChanged(s, Others) == {[s EXCEPT ![i] = v] : i \in DOMAIN s, v \in Others} \ {s}
=============================================================================
