------------------------- MODULE PolicyDistribution -------------------------
(***************************************************************************)
(* What the policy loader, the updater and the PAP promise together: the   *)
(* store holds nothing but acceptable policies that the owner has listed,  *)
(* takes them one at a time and loses none, and the version the server     *)
(* reports only moves forward, to versions that exist, or is forgotten.    *)
(* Nothing is said of how policies arrive: PolicyLoader is shown to        *)
(* implement this.                                                         *)
(***************************************************************************)
EXTENDS Naturals

CONSTANTS
    Ids,      \* policy identifiers
    BadIds    \* policies that must not be stored

VARIABLES
    tps,      \* the version of the owner's list
    listed,   \* every policy that has been on it
    version,  \* the version the server reports, 0 for none
    stored    \* the policies it holds

dvars == <<tps, listed, version, stored>>

Init ==
    /\ tps = 1
    /\ listed \subseteq Ids
    /\ version = 0
    /\ stored = {}

\* The owner publishes another list.
Publish ==
    /\ tps' = tps + 1
    /\ listed' \in SUBSET Ids /\ listed \subseteq listed'
    /\ UNCHANGED <<version, stored>>

\* The server follows the list to a newer version, never back to an older one.
Adopt ==
    /\ version' \in (version + 1)..tps
    /\ UNCHANGED <<tps, listed, stored>>

\* It loses the version: a restart, or a version that could not be read.
Forget ==
    /\ version' = 0
    /\ UNCHANGED <<tps, listed, stored>>

\* A policy arrives.
Deliver(id) ==
    /\ id \in listed \ BadIds
    /\ stored' = stored \cup {id}
    /\ UNCHANGED <<tps, listed, version>>

Next == Publish \/ Adopt \/ Forget \/ \E id \in Ids : Deliver(id)

Spec == Init /\ [][Next]_dvars
=============================================================================
