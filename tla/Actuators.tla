----------------------------- MODULE Actuators ------------------------------
(***************************************************************************)
(* The actions of a granted request: the PEP plugins relay, can, canopen   *)
(* and print, and the relay board they drive (relay_interface.c).          *)
(*                                                                         *)
(* A server is built with one of the plugins.  The network thread runs an  *)
(* action to its end; a pulse sleeps half a second with the pin high.  The *)
(* GPIO library may fail to start, and the process may die, after which    *)
(* the pins keep their levels.                                             *)
(***************************************************************************)
EXTENDS Naturals

CONSTANTS MaxActions,   \* bound: actions
          MaxGpioFaults \* bound: failed calls and deaths

ASSUME ActuatorsAssumption == {MaxActions, MaxGpioFaults} \subseteq Nat

VARIABLES
    pep,       \* the plugin
    pin,       \* level of each relay's pin; TRUE: high
    doing,     \* the action being run: what, on which relay, and at which step
    ledger,    \* the last message on the Tangle
    (* History variables *)
    wanted,    \* level each relay was left at by the last call that drove it
    cut,       \* relays whose last pulse was cut by the death of the process
    unlogged,  \* the last message could not be sent, or was not true
    acts, gpioFaults

relayVars == <<pep, pin, doing, ledger, wanted, cut, unlogged,
               acts, gpioFaults>>

Relays == 0..3
Idle   == [call |-> "none", idx |-> 0, at |-> "idle"]

\* The action set of each plugin: name, call of the relay board, relay.
Act(name, call, idx) == [name |-> name, call |-> call, idx |-> idx]

relay_actions   == <<Act("action#1", "on", 0), Act("action#2", "off", 0)>>
print_actions   == <<Act("action#1", "print", 0)>>
can_actions     == <<Act("open_door", "pulse", 1), Act("close_door", "pulse", 0),
                     Act("open_trunk", "pulse", 3), Act("start_engine", "pulse", 2)>>
canopen_actions == <<Act("open_door", "on", 3), Act("close_door", "off", 3),
                     Act("honk", "pulse", 2), Act("alarm_on", "on", 1),
                     Act("alarm_off", "off", 1)>>

g_action_set ==
    CASE pep = "relay"   -> relay_actions
      [] pep = "print"   -> print_actions
      [] pep = "can"     -> can_actions
      [] pep = "canopen" -> canopen_actions

\* Values a policy may give an action: the names of all plugins, and one that
\* begins like another.
Values == {"open_door", "close_door", "open_trunk", "start_engine", "honk",
           "alarm_on", "alarm_off", "action#1", "action#2", "action#10"}

\* memcmp over the length of the name: value begins with name.
Begins(value, name) == value = name \/ (value = "action#10" /\ name = "action#1")

RelayInit ==
    /\ pep \in {"relay", "print", "can", "canopen"}
    /\ pin = [i \in Relays |-> FALSE]
    /\ doing = Idle
    /\ ledger = "none"
    /\ wanted = [i \in Relays |-> FALSE]
    /\ cut = {}
    /\ unlogged = FALSE
    /\ acts = 0 /\ gpioFaults = 0

-----------------------------------------------------------------------------
(* action_cb *)

\* The first action whose name the value begins with.  Only the relay plugin
\* logs to the Tangle by itself, print for an obligation and before the action,
\* which it goes on to if wallet_send fails.
ActionCb(value, obligation) ==
    /\ doing = Idle
    /\ acts < MaxActions
    /\ acts' = acts + 1
    /\ LET hits == {i \in DOMAIN g_action_set : Begins(value, g_action_set[i].name)}
           i == CHOOSE i \in hits : \A j \in hits : i <= j
       IN  \/ /\ hits # {}
              /\ doing' = [call |-> g_action_set[i].call, idx |-> g_action_set[i].idx,
                           at |-> "start"]
           \/ /\ hits = {}
              /\ UNCHANGED doing
    /\ ledger' \in IF pep = "print" /\ obligation THEN {"hello", ledger} ELSE {ledger}
    /\ UNCHANGED <<pep, pin, wanted, cut, unlogged, gpioFaults>>

\* After the call the relay plugin sends its message.
Next_at == IF pep = "relay" THEN "log" ELSE "done"

\* Mutant: a pulse is a switch.
RelayWritesOnly ==
    /\ doing.at = "start" /\ doing.call \in {"on", "off", "pulse"}
    /\ pin' = [pin EXCEPT ![doing.idx] = doing.call # "off"]
    /\ doing' = [doing EXCEPT !.at = Next_at]
    /\ wanted' = [wanted EXCEPT ![doing.idx] = doing.call = "on"]
    /\ cut' = cut \ {doing.idx}
    /\ UNCHANGED <<pep, ledger, unlogged, acts, gpioFaults>>

\* relayinterface_on, _off, and _pulse up to time_sleep.
RelayWrites ==
    /\ doing.at = "start" /\ doing.call \in {"on", "off", "pulse"}
    /\ pin' = [pin EXCEPT ![doing.idx] = doing.call # "off"]
    /\ doing' = [doing EXCEPT !.at = IF doing.call = "pulse" THEN "sleep" ELSE Next_at]
    /\ wanted' = [wanted EXCEPT ![doing.idx] = doing.call = "on"]
    /\ cut' = cut \ {doing.idx}
    /\ UNCHANGED <<pep, ledger, unlogged, acts, gpioFaults>>

\* The end of a pulse.
PulseEnds ==
    /\ doing.at = "sleep"
    /\ pin' = [pin EXCEPT ![doing.idx] = FALSE]
    /\ doing' = [doing EXCEPT !.at = Next_at]
    /\ UNCHANGED <<pep, ledger, wanted, cut, unlogged, acts, gpioFaults>>

\* gpioInitialise fails: 1 is returned, which no plugin looks at.
GpioFails ==
    /\ doing.at = "start" /\ doing.call \in {"on", "off", "pulse"}
    /\ gpioFaults < MaxGpioFaults
    /\ gpioFaults' = gpioFaults + 1
    /\ doing' = [doing EXCEPT !.at = Next_at]
    /\ unlogged' = TRUE
    /\ UNCHANGED <<pep, pin, ledger, wanted, cut, acts>>

\* print_terminal.
Print_terminal ==
    /\ doing.at = "start" /\ doing.call = "print"
    /\ doing' = [doing EXCEPT !.at = "done"]
    /\ UNCHANGED <<pep, pin, ledger, wanted, cut, unlogged, acts,
                   gpioFaults>>

\* log_tangle after relay_on and relay_off: the message names the command, also
\* if the relay did not follow it.
Log_tangle ==
    /\ doing.at = "log"
    /\ doing' = [doing EXCEPT !.at = "done"]
    /\ ledger' = doing.call
    /\ unlogged' = (unlogged /\ pin[0] # (ledger' = "on"))
    /\ UNCHANGED <<pep, pin, wanted, cut, acts, gpioFaults>>

\* wallet_send fails; the result is not looked at.
LogFails ==
    /\ doing.at = "log"
    /\ gpioFaults < MaxGpioFaults
    /\ gpioFaults' = gpioFaults + 1
    /\ doing' = [doing EXCEPT !.at = "done"]
    /\ unlogged' = TRUE
    /\ UNCHANGED <<pep, pin, ledger, wanted, cut, acts>>

\* action_cb returns.
ActionDone ==
    /\ doing.at = "done"
    /\ doing' = Idle
    /\ UNCHANGED <<pep, pin, ledger, wanted, cut, unlogged, acts,
                   gpioFaults>>

\* The process dies inside an action and is started again.
DiesInAction ==
    /\ doing # Idle
    /\ gpioFaults < MaxGpioFaults
    /\ gpioFaults' = gpioFaults + 1
    /\ cut' = IF doing.at = "sleep" THEN cut \cup {doing.idx} ELSE cut
    /\ unlogged' = (unlogged \/ doing.at = "log")
    /\ doing' = Idle
    /\ UNCHANGED <<pep, pin, ledger, wanted, acts>>

-----------------------------------------------------------------------------

RelayNext ==
    \/ \E value \in Values, obligation \in BOOLEAN : ActionCb(value, obligation)
    \/ RelayWrites \/ PulseEnds \/ GpioFails \/ Print_terminal
    \/ Log_tangle \/ LogFails \/ ActionDone \/ DiesInAction

RelaySpec == RelayInit /\ [][RelayNext]_relayVars

-----------------------------------------------------------------------------
(* Properties *)

\* Between two actions every relay is where the last call that drove it meant to
\* leave it: on after on, off after off and after a pulse, whatever calls failed
\* in between, unless the process died inside a pulse (relay_interface.c), which
\* leaves the lock, the engine's starter or the horn on until the next pulse.
\* What the Tangle says of the relay is so, unless a message could not be sent
\* or the GPIO library failed, which the plugin does not notice.
RelaysSettle ==
    /\ \A i \in Relays : doing.at # "sleep" /\ i \notin cut => pin[i] = wanted[i]
    /\ doing = Idle /\ ~unlogged /\ ledger \in {"on", "off"} => pin[0] = (ledger = "on")

\* Why: an action is run on a relay of the board, the relay plugin has no pulse,
\* and the others write nothing about the relay to the Tangle.
Doing ==
    /\ doing.at = "idle" => doing = Idle
    /\ doing.call = "pulse" => pep # "relay"
    /\ doing.at = "sleep" => doing.call = "pulse"
    /\ doing.at = "log" => pep = "relay" /\ doing.call \in {"on", "off"}
    /\ pep = "relay" => doing.idx = 0
    /\ pep # "relay" => ledger \notin {"on", "off"}

\* A relay that is not in a pulse is where it is wanted, and during a pulse it is
\* wanted low.
Settled ==
    \A i \in Relays :
        IF doing.at = "sleep" /\ i = doing.idx THEN ~wanted[i]
        ELSE i \notin cut => pin[i] = wanted[i]

\* The last message is true, or the one about to be sent will be.
Logged ==
    ~unlogged =>
        /\ doing.at # "log" /\ ledger \in {"on", "off"} => pin[0] = (ledger = "on")
        /\ doing.at = "log" => pin[0] = (doing.call = "on")

\* The variables keep their types.
RelayTypeOK ==
    /\ pep \in {"relay", "print", "can", "canopen"}
    /\ pin \in [Relays -> BOOLEAN] /\ wanted \in [Relays -> BOOLEAN]
    /\ doing \in [call : {"none", "on", "off", "pulse", "print"}, idx : Relays,
                   at : {"idle", "start", "sleep", "log", "done"}]
    /\ cut \subseteq Relays
    /\ unlogged \in BOOLEAN

\* The inductive invariant of the relay board.
RelayInd == RelayTypeOK /\ Doing /\ Settled /\ Logged
=============================================================================
