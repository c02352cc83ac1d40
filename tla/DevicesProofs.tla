---------------------------- MODULE DevicesProofs ----------------------------
(***************************************************************************)
(* Proofs about the parts at the edge of the server, for any number of     *)
(* actions, faults, names, reads, slips, sentences and characters: the     *)
(* relay board, the register reads of Modbus, the selection of signals,    *)
(* the loop of the GPS plugin, what minmea makes of a checksum and of a    *)
(* number, the CRC of Modbus, the tables of OBD-II and the configuration   *)
(* file; then that Devices, where they stand side by side, implements      *)
(* each of them.                                                           *)
(***************************************************************************)
EXTENDS Devices, SequenceTheorems, FiniteSetTheorems, WellFoundedInduction, TLAPS

(* The relay board *)

\* Every action of every plugin is a call that the board has, on one of its relays,
\* and the relay plugin only switches relay 0.
LEMMA ActionSets ==
    ASSUME RelayTypeOK, NEW i \in DOMAIN g_action_set
    PROVE  /\ g_action_set[i].call \in {"on", "off", "pulse", "print"}
           /\ g_action_set[i].idx \in Relays
           /\ pep = "relay" => /\ g_action_set[i].call \in {"on", "off"}
                               /\ g_action_set[i].idx = 0
<1>1. CASE pep = "relay"
  BY <1>1 DEF g_action_set, relay_actions, Act, Relays
<1>2. CASE pep = "print"
  BY <1>2 DEF g_action_set, print_actions, Act, Relays
<1>3. CASE pep = "can"
  BY <1>3 DEF g_action_set, can_actions, Act, Relays
<1>4. CASE pep = "canopen"
  BY <1>4 DEF g_action_set, canopen_actions, Act, Relays
<1> QED
  BY <1>1, <1>2, <1>3, <1>4 DEF RelayTypeOK

\* All relays are off, and nothing has been sent.
LEMMA RelayInitInd == RelayInit => RelayInd
<1> SUFFICES ASSUME RelayInit PROVE RelayInd
  OBVIOUS
<1>1. unlogged \in BOOLEAN
  BY Zenon DEF RelayInit
<1> QED
  BY <1>1 DEF RelayInit, RelayInd, RelayTypeOK, Doing, Settled, Logged, Idle, Relays

\* An action that is not known leaves the board alone, one that is starts.
LEMMA ActionCbInd ==
    ASSUME RelayInd, NEW value \in Values, NEW obligation \in BOOLEAN,
           ActionCb(value, obligation)
    PROVE  RelayInd'
<1>1. /\ doing = Idle
      /\ UNCHANGED <<pep, pin, wanted, cut, unlogged>>
      /\ ledger' \in {"hello", ledger} /\ (pep # "print" => ledger' = ledger)
  BY DEF ActionCb
<1>2. \/ doing' = doing
      \/ \E i \in DOMAIN g_action_set :
            doing' = [call |-> g_action_set[i].call, idx |-> g_action_set[i].idx,
                      at |-> "start"]
  <2> DEFINE hits == {i \in DOMAIN g_action_set : Begins(value, g_action_set[i].name)}
             first == CHOOSE i \in hits : \A j \in hits : i <= j
  <2>1. CASE hits = {}
    BY <2>1 DEF ActionCb
  <2>2. CASE hits # {}
    <3>1. first \in hits
      <4>1. hits \subseteq Nat
        BY DEF g_action_set, relay_actions, print_actions, can_actions, canopen_actions,
               RelayInd, RelayTypeOK
      <4>2. PICK i \in hits : \A j \in hits : <<j, i>> \notin OpToRel(<, Nat)
        BY <2>2, <4>1, NatLessThanWellFounded, WFMin
      <4>3. \A j \in hits : i <= j
        <5> SUFFICES ASSUME NEW j \in hits, ~(i <= j) PROVE FALSE
          OBVIOUS
        <5>1. i \in Nat /\ j \in Nat /\ j < i
          BY <4>1
        <5>2. <<j, i>> \in OpToRel(<, Nat)
          BY <5>1 DEF OpToRel
        <5> QED
          BY <4>2, <5>2
      <4> QED
        BY <4>3
    <3> QED
      BY <2>2, <3>1 DEF ActionCb
  <2> QED
    BY <2>1, <2>2
<1>3. RelayTypeOK'
  BY <1>1, <1>2, ActionSets DEF RelayInd, RelayTypeOK
<1>4. Doing'
  BY <1>1, <1>2, ActionSets DEF RelayInd, RelayTypeOK, Doing, Idle
<1>5. Settled' /\ Logged'
  BY <1>1, <1>2 DEF RelayInd, Settled, Logged, Idle
<1> QED
  BY <1>3, <1>4, <1>5 DEF RelayInd

\* The pin is driven.
LEMMA RelayWritesInd == ASSUME RelayInd, RelayWrites PROVE RelayInd'
<1>1. PICK x \in {"sleep", "log", "done"} :
          /\ doing' = [doing EXCEPT !.at = x]
          /\ x = "sleep" <=> doing.call = "pulse"
          /\ x = "log" => pep = "relay"
          /\ x = "done" => pep # "relay"
  BY DEF RelayWrites, Next_at
<1>2. PICK on \in BOOLEAN : on = (doing.call = "on")
  OBVIOUS
<1>3. PICK off \in BOOLEAN : off = (doing.call = "off")
  OBVIOUS
<1>4. /\ doing.at = "start" /\ doing.call \in {"on", "off", "pulse"}
      /\ pin' = [pin EXCEPT ![doing.idx] = ~off]
      /\ wanted' = [wanted EXCEPT ![doing.idx] = on]
      /\ cut' = cut \ {doing.idx}
      /\ UNCHANGED <<pep, ledger, unlogged>>
  BY <1>2, <1>3 DEF RelayWrites
<1>5. RelayTypeOK'
  BY <1>1, <1>4 DEF RelayInd, RelayTypeOK
<1>6. Doing'
  BY <1>1, <1>4 DEF RelayInd, RelayTypeOK, Doing, Idle
<1>7. Settled'
  BY <1>1, <1>2, <1>3, <1>4 DEF RelayInd, RelayTypeOK, Settled
<1>8. Logged'
  BY <1>1, <1>2, <1>3, <1>4 DEF RelayInd, RelayTypeOK, Doing, Logged, Relays
<1> QED
  BY <1>5, <1>6, <1>7, <1>8 DEF RelayInd

\* The end of a pulse.
LEMMA PulseEndsInd == ASSUME RelayInd, PulseEnds PROVE RelayInd'
<1>1. PICK x \in {"log", "done"} :
          doing' = [doing EXCEPT !.at = x] /\ (x = "log" => pep = "relay")
  BY DEF PulseEnds, Next_at
<1>2. /\ doing.at = "sleep" /\ doing.call = "pulse" /\ pep # "relay"
      /\ pin' = [pin EXCEPT ![doing.idx] = FALSE]
      /\ UNCHANGED <<pep, ledger, wanted, cut, unlogged>>
  BY DEF PulseEnds, RelayInd, Doing
<1>3. RelayTypeOK'
  BY <1>1, <1>2 DEF RelayInd, RelayTypeOK
<1>4. Doing'
  BY <1>1, <1>2 DEF RelayInd, RelayTypeOK, Doing, Idle
<1>5. Settled'
  BY <1>1, <1>2 DEF RelayInd, RelayTypeOK, Settled
<1>6. Logged'
  BY <1>1, <1>2 DEF RelayInd, RelayTypeOK, Doing, Logged
<1> QED
  BY <1>3, <1>4, <1>5, <1>6 DEF RelayInd

\* A call or a message that fails, and print: no pin changes.
LEMMA NoPinInd ==
    ASSUME RelayInd, GpioFails \/ Print_terminal \/ LogFails PROVE RelayInd'
<1>1. PICK x \in {"log", "done"} :
          doing' = [doing EXCEPT !.at = x]
          /\ (x = "log" => pep = "relay" /\ doing.call \in {"on", "off", "pulse"}
                            /\ unlogged')
  BY DEF GpioFails, Print_terminal, LogFails, Next_at
<1>2. /\ doing.at \in {"start", "log"}
      /\ doing.at = "log" => unlogged'
      /\ unlogged' = unlogged \/ unlogged' = TRUE
      /\ UNCHANGED <<pep, pin, ledger, wanted, cut>>
  BY DEF GpioFails, Print_terminal, LogFails
<1>3. RelayTypeOK'
  <2>1. unlogged' \in BOOLEAN
    BY <1>2, Zenon DEF RelayInd, RelayTypeOK
  <2> QED
    BY <1>1, <1>2, <2>1 DEF RelayInd, RelayTypeOK
<1>4. Doing'
  BY <1>1, <1>2 DEF RelayInd, RelayTypeOK, Doing, Idle
<1>5. Settled'
  BY <1>1, <1>2 DEF RelayInd, RelayTypeOK, Settled
<1>6. Logged'
  BY <1>1, <1>2 DEF RelayInd, RelayTypeOK, Logged
<1> QED
  BY <1>3, <1>4, <1>5, <1>6 DEF RelayInd

\* The message names the command.
LEMMA LogInd == ASSUME RelayInd, Log_tangle PROVE RelayInd'
<1>1. PICK on \in BOOLEAN : on = (doing.call = "on")
  OBVIOUS
<1>2. /\ doing.at = "log" /\ pep = "relay" /\ doing.call \in {"on", "off"}
      /\ doing' = [doing EXCEPT !.at = "done"]
      /\ ledger' = doing.call
      /\ UNCHANGED <<pep, pin, wanted, cut>>
  BY DEF Log_tangle, RelayInd, Doing
<1>3. unlogged' = (unlogged /\ pin[0] # on)
  BY <1>1, <1>2 DEF Log_tangle
<1>4. RelayTypeOK'
  <2>1. unlogged' \in BOOLEAN
    BY <1>3, Zenon
  <2> QED
    BY <1>2, <2>1 DEF RelayInd, RelayTypeOK
<1>5. Doing' /\ Settled'
  BY <1>2 DEF RelayInd, RelayTypeOK, Doing, Settled, Idle
<1>6. Logged'
  <2>1. ~unlogged' => pin[0] = on
    <3>1. ~unlogged => pin[0] = on
      BY <1>1, <1>2 DEF RelayInd, Logged
    <3> QED
      BY <1>3, <3>1
  <2> QED
    BY <1>1, <1>2, <2>1 DEF RelayInd, RelayTypeOK, Logged
<1> QED
  BY <1>4, <1>5, <1>6 DEF RelayInd

\* The action is over, by itself or with the process.
LEMMA RelayEndInd == ASSUME RelayInd, ActionDone \/ DiesInAction PROVE RelayInd'
<1>1. /\ doing' = Idle /\ UNCHANGED <<pep, pin, ledger, wanted>>
      /\ cut' = IF doing.at = "sleep" THEN cut \cup {doing.idx} ELSE cut
      /\ doing.at = "log" => unlogged'
      /\ unlogged => unlogged'
      /\ unlogged' \in BOOLEAN
  <2>1. CASE ActionDone
    BY <2>1 DEF ActionDone, RelayInd, RelayTypeOK
  <2>2. CASE DiesInAction
    <3>1. unlogged' \in BOOLEAN
      BY <2>2, Zenon DEF DiesInAction
    <3> QED
      BY <2>2, <3>1 DEF DiesInAction
  <2> QED
    BY <2>1, <2>2
<1>2. RelayTypeOK'
  <2>1. cut' \subseteq Relays
    BY <1>1 DEF RelayInd, RelayTypeOK
  <2>2. doing' \in [call : {"none", "on", "off", "pulse", "print"}, idx : Relays,
                    at : {"idle", "start", "sleep", "log", "done"}]
    BY <1>1 DEF Idle, Relays
  <2> QED
    BY <1>1, <2>1, <2>2 DEF RelayInd, RelayTypeOK
<1>3. Doing' /\ Settled'
  BY <1>1 DEF RelayInd, RelayTypeOK, Doing, Settled, Idle
<1>4. Logged'
  BY <1>1 DEF RelayInd, RelayTypeOK, Logged, Idle
<1> QED
  BY <1>2, <1>3, <1>4 DEF RelayInd

\* No step of an action disturbs the invariant of the board.
LEMMA RelayNextInd == RelayInd /\ [RelayNext]_relayVars => RelayInd'
<1> SUFFICES ASSUME RelayInd, [RelayNext]_relayVars PROVE RelayInd'
  OBVIOUS
<1>1. CASE RelayNext
  BY <1>1, ActionCbInd, RelayWritesInd, PulseEndsInd, NoPinInd, LogInd, RelayEndInd
     DEF RelayNext
<1>2. CASE UNCHANGED relayVars
  BY <1>2 DEF relayVars, RelayInd, RelayTypeOK, Doing, Settled, Logged
<1> QED
  BY <1>1, <1>2

\* The board's variables keep their types: no action drives a pin that the board
\* does not have.
THEOREM RelaysTypeCorrect == RelaySpec => []RelayTypeOK
<1>1. RelayInd => RelayTypeOK
  BY DEF RelayInd
<1> QED
  BY <1>1, RelayInitInd, RelayNextInd, PTL DEF RelaySpec

\* Whatever actions are run, and whatever calls of the GPIO library and messages
\* fail, every relay settles where its last call meant to leave it, unless the
\* process died inside a pulse, and the Tangle tells the truth about relay 0 unless
\* a message or a call was lost.
THEOREM RelaysSettled == RelaySpec => []RelaysSettle
<1>1. RelayInd => RelaysSettle
  BY DEF RelayInd, RelaysSettle, Settled, Logged, Idle
<1> QED
  BY <1>1, RelayInitInd, RelayNextInd, PTL DEF RelaySpec

-----------------------------------------------------------------------------
(* Register reads *)

\* Nothing is on its way, and nothing has been reported.
LEMMA ModbusInitInd == ModbusInit => ModbusInd
<1> SUFFICES ASSUME ModbusInit PROVE ModbusInd
  OBVIOUS
<1>1. waiting \in BOOLEAN /\ overrun \in BOOLEAN /\ FALSE \in BOOLEAN
  BY Zenon DEF ModbusInit
<1>2. ModbusTypeOK
  <2>1. reported \in [call : Nat, value : Int, ok : BOOLEAN, refused : BOOLEAN]
    BY <1>1 DEF ModbusInit, NoReport, Unset
  <2> QED
    BY <1>1, <2>1 DEF ModbusInit, ModbusTypeOK, Unset
<1>3. NotTooOld /\ WholeAnswers /\ RegisterIsOwn
  BY DEF ModbusInit, NotTooOld, WholeAnswers, RegisterIsOwn, NoReport
<1> QED
  BY <1>2, <1>3 DEF ModbusInd

\* A request of any kind: what it adds to the line is about this call.
LEMMA RequestInd ==
  ASSUME ModbusInd, slips' \in Nat, slips' >= slips,
         NEW answer \in Seq(Pieces), \A i \in DOMAIN answer : answer[i].call = reads + 1,
         Request(answer)
  PROVE  ModbusTypeOK' /\ NotTooOld' /\ (slips' = slips => RegisterIsOwn')
<1>1. /\ ~waiting /\ reads' = reads + 1 /\ line' = line \o answer
      /\ waiting' = TRUE /\ data' \in {data, Unset}
      /\ UNCHANGED <<overrun, reported>>
  BY DEF Request
<1>2. /\ line \in Seq(Pieces) /\ reads \in Nat /\ slips \in Nat /\ data \in Int
      /\ Len(line) \in Nat /\ Len(answer) \in Nat
      /\ DOMAIN line = 1..Len(line) /\ DOMAIN answer = 1..Len(answer)
  BY DEF ModbusInd, ModbusTypeOK
<1>3. /\ line' \in Seq(Pieces) /\ Len(line') = Len(line) + Len(answer)
      /\ \A i \in 1..(Len(line) + Len(answer)) :
            line'[i] = IF i <= Len(line) THEN line[i] ELSE answer[i - Len(line)]
  BY <1>1, <1>2, ConcatProperties, Zenon
<1>4. ModbusTypeOK'
  <2>1. waiting' \in BOOLEAN
    BY <1>1, Zenon
  <2>2. data' \in Int /\ reads' \in Nat
    BY <1>1, <1>2 DEF Unset
  <2> QED
    BY <1>1, <1>3, <2>1, <2>2 DEF ModbusInd, ModbusTypeOK
<1>5. NotTooOld'
  <2>1. ASSUME NEW i \in DOMAIN line
        PROVE  line[i].call \in 1..reads /\ line[i].call >= reads + 1 - slips
    BY <1>1, <1>2 DEF ModbusInd, NotTooOld, Recent
  <2>2. ASSUME NEW i \in DOMAIN line'
        PROVE  line'[i].call \in 1..(reads + 1) /\ line'[i].call >= reads + 1 - slips
    <3>1. i \in 1..(Len(line) + Len(answer))
      BY <1>3
    <3>2. CASE i <= Len(line)
      <4>1. i \in DOMAIN line /\ line'[i] = line[i]
        BY <1>2, <1>3, <3>1, <3>2
      <4> QED
        BY <1>2, <2>1, <4>1
    <3>3. CASE ~(i <= Len(line))
      <4>1. i - Len(line) \in DOMAIN answer /\ line'[i] = answer[i - Len(line)]
        BY <1>2, <1>3, <3>1, <3>3
      <4> QED
        BY <1>2, <4>1
    <3> QED
      BY <3>2, <3>3
  <2>3. ASSUME NEW i \in DOMAIN line'
        PROVE  line'[i].call \in 1..reads' /\ line'[i].call >= reads' - slips'
    BY <1>1, <1>2, <2>2
  <2> QED
    BY <1>1, <2>3 DEF NotTooOld, Recent
<1>6. slips' = slips => RegisterIsOwn'
  BY <1>1 DEF ModbusInd, RegisterIsOwn
<1> QED
  BY <1>4, <1>5, <1>6

\* The request is written, and the device sends its three pieces.
LEMMA WriteRequestInd == ASSUME ModbusInd, WriteRequest PROVE ModbusInd'
<1> DEFINE answer == AnswerTo(reads + 1)
<1>1. Request(answer) /\ slips' = slips /\ slips \in Nat
  BY DEF WriteRequest, ModbusInd, ModbusTypeOK
<1>2. answer \in Seq(Pieces) /\ \A i \in DOMAIN answer : answer[i].call = reads + 1
  BY DEF AnswerTo, Piece, Pieces, ModbusInd, ModbusTypeOK
<1>3. /\ ~waiting /\ waiting' = TRUE /\ line' = line \o answer /\ answer = AnswerTo(reads)'
  BY <1>1 DEF Request, AnswerTo, Piece
<1> HIDE DEF answer
<1>4. WholeAnswers'
  <2> SUFFICES ASSUME slips = 0 PROVE line' = answer
    BY <1>1, <1>3 DEF WholeAnswers
  <2>1. line = <<>>
    BY <1>3 DEF ModbusInd, WholeAnswers
  <2> QED
    BY <1>2, <1>3, <2>1
<1> QED
  BY <1>1, <1>2, <1>4, RequestInd DEF ModbusInd

\* The request is written, or is not, and what comes is no answer.
LEMMA WriteUnansweredInd == ASSUME ModbusInd, WriteUnanswered PROVE ModbusInd'
<1>1. PICK answer \in Failures(reads + 1) : Request(answer)
  BY DEF WriteUnanswered
<1>2. slips \in Nat /\ reads \in Nat /\ slips' = slips + 1
  BY DEF WriteUnanswered, ModbusInd, ModbusTypeOK
<1>3. answer \in Seq(Pieces) /\ \A i \in DOMAIN answer : answer[i].call = reads + 1
  <2>1. CASE answer = <<>>
    BY <2>1
  <2>2. ASSUME NEW p \in {"exception", "damaged"}, answer = <<Piece(reads + 1, p)>>
        PROVE  answer \in Seq(Pieces) /\ \A i \in DOMAIN answer : answer[i].call = reads + 1
    BY <1>2, <2>2 DEF Piece, Pieces
  <2> QED
    BY <1>1, <2>1, <2>2 DEF Failures
<1>4. ModbusTypeOK' /\ NotTooOld'
  BY <1>1, <1>2, <1>3, RequestInd
<1>5. WholeAnswers'
  BY <1>2 DEF WholeAnswers
<1>6. RegisterIsOwn'
  <2>1. reported' = reported /\ reported.call \in Nat
    BY <1>1 DEF Request, ModbusInd, ModbusTypeOK
  <2>2. slips' # 0 /\ \A x \in Int : x <= slips => x <= slips'
    BY <1>2
  <2>3. reported.value \in Int /\ reported.call - reported.value \in Int
    BY <2>1 DEF ModbusInd, ModbusTypeOK
  <2> QED
    BY <2>1, <2>2, <2>3 DEF ModbusInd, RegisterIsOwn
<1> QED
  BY <1>4, <1>5, <1>6 DEF ModbusInd

\* What a call leaves on the line belongs to it at the latest, and its reader has
\* one thing more to be excused with.
LEMMA LeftOver ==
  ASSUME ModbusInd, waiting, waiting' = FALSE, UNCHANGED reads,
         NEW k \in 0..Len(line), line' = SubSeq(line, k + 1, Len(line)),
         slips' = IF k < Len(line) THEN slips + 1 ELSE slips
  PROVE  line' \in Seq(Pieces) /\ NotTooOld' /\ WholeAnswers' /\ slips' \in Nat
<1>1. /\ line \in Seq(Pieces) /\ reads \in Nat /\ slips \in Nat /\ Len(line) \in Nat
      /\ DOMAIN line = 1..Len(line)
  BY DEF ModbusInd, ModbusTypeOK
<1>2. /\ line' \in Seq(Pieces) /\ Len(line') = Len(line) - k
      /\ \A i \in 1..(Len(line) - k) : line'[i] = line[k + i]
  BY <1>1
<1>3. slips' \in Nat
  BY <1>1
<1>4. NotTooOld'
  <2>1. ASSUME NEW i \in DOMAIN line'
        PROVE  line'[i].call \in 1..reads /\ line'[i].call > reads - slips'
    <3>1. i \in 1..(Len(line) - k) /\ line'[i] = line[k + i] /\ k + i \in DOMAIN line
      BY <1>1, <1>2
    <3>2. line[k + i].call \in 1..reads /\ line[k + i].call >= reads - slips
      BY <3>1 DEF ModbusInd, NotTooOld, Recent
    <3>3. slips' = slips + 1
      BY <1>1, <3>1
    <3> QED
      BY <1>1, <3>1, <3>2, <3>3
  <2>2. ASSUME NEW i \in DOMAIN line'
        PROVE  line'[i].call >= reads - slips'
    BY <1>1, <1>3, <2>1
  <2> QED
    BY <2>1, <2>2 DEF NotTooOld, Recent
<1>5. WholeAnswers'
  <2> SUFFICES ASSUME slips' = 0 PROVE line' = <<>>
    BY DEF WholeAnswers
  <2>1. ~(k < Len(line))
    <3>1. slips + 1 # 0
      BY <1>1
    <3> QED
      BY <3>1
  <2>2. k \in Int /\ k <= Len(line) /\ k >= 0
    BY <1>1
  <2>3. \A m \in Nat : k <= m /\ ~(k < m) => k = m
    BY <2>2
  <2>4. k = Len(line)
    BY <1>1, <2>1, <2>2, <2>3, Zenon
  <2> QED
    BY <1>2, <2>4
<1> QED
  BY <1>2, <1>3, <1>4, <1>5

\* The read of a part or all of what the line holds.
LEMMA ReadAnswerInd == ASSUME ModbusInd, ReadAnswer PROVE ModbusInd'
<1>0. PICK n \in 1..Len(line) : \E bytes \in BytesRead(SubSeq(line, 1, n)) :
        /\ slips' = IF n < Len(line) THEN slips + 1 ELSE slips
        /\ data' = Decode(SubSeq(line, 1, n), bytes, data)
        /\ overrun' = (bytes \div 2 > 1)
        /\ reported' = [call |-> reads, value |-> data', ok |-> CrcMatches(SubSeq(line, 1, n)),
                        refused |-> Refused(SubSeq(line, 1, n))]
        /\ line' = SubSeq(line, n + 1, Len(line))
  BY DEF ReadAnswer
<1> DEFINE buf == SubSeq(line, 1, n)
<1>1. PICK bytes \in BytesRead(buf) :
        /\ slips' = IF n < Len(line) THEN slips + 1 ELSE slips
        /\ data' = Decode(buf, bytes, data)
        /\ overrun' = (bytes \div 2 > 1)
        /\ reported' = [call |-> reads, value |-> data', ok |-> CrcMatches(buf),
                        refused |-> Refused(buf)]
        /\ line' = SubSeq(line, n + 1, Len(line))
  BY <1>0
<1>2. waiting /\ waiting' = FALSE /\ UNCHANGED reads
  BY DEF ReadAnswer
<1>3. /\ line \in Seq(Pieces) /\ Len(line) \in Nat /\ reads \in Nat /\ slips \in Nat
      /\ data \in Int /\ n \in Nat /\ n >= 1 /\ n <= Len(line) /\ 1 \in DOMAIN line
  BY DEF ModbusInd, ModbusTypeOK
<1>4. buf \in Seq(Pieces) /\ Len(buf) = n /\ buf[1] = line[1]
  BY <1>3
<1>5. line[1] \in Pieces /\ line[1].call \in 1..reads /\ line[1].call >= reads - slips
  BY <1>2, <1>3 DEF ModbusInd, NotTooOld, Recent
<1>6. bytes \in 0..255 /\ bytes \div 2 \in Nat
  BY DEF BytesRead
<1>7. line' \in Seq(Pieces) /\ NotTooOld' /\ WholeAnswers' /\ slips' \in Nat
  <2>1. n \in 0..Len(line)
    BY <1>3
  <2> QED
    BY <1>1, <1>2, <2>1, LeftOver
<1>8. /\ data' = Decode(buf, bytes, data) /\ overrun' = (bytes \div 2 > 1)
      /\ bytes \in BytesRead(buf)
      /\ reported' = [call |-> reads, value |-> data', ok |-> CrcMatches(buf),
                      refused |-> Refused(buf)]
  BY <1>1
<1> HIDE DEF buf
<1>9. data' \in Int
  <2>1. Decode(buf, bytes, data) \in {data, buf[1].call, Noise}
    BY <1>6 DEF Decode
  <2> QED
    BY <1>3, <1>4, <1>5, <1>8, <2>1 DEF Noise
<1>10. PICK ok \in BOOLEAN, refused \in BOOLEAN : ok = CrcMatches(buf) /\ refused = Refused(buf)
  BY Zenon DEF CrcMatches, Answered, Refused
<1>11. reported' = [call |-> reads, value |-> data', ok |-> ok, refused |-> refused]
  BY <1>8, <1>10
<1>12. ModbusTypeOK'
  <2>1. waiting' \in BOOLEAN
    BY <1>2, Zenon
  <2>2. overrun' \in BOOLEAN
    BY <1>8
  <2>3. reported' \in [call : Nat, value : Int, ok : BOOLEAN, refused : BOOLEAN]
    BY <1>3, <1>9, <1>11
  <2> QED
    BY <1>2, <1>3, <1>7, <1>9, <2>1, <2>2, <2>3 DEF ModbusTypeOK
<1>13. ASSUME slips' = 0 PROVE ok /\ ~refused /\ ~overrun'
  <2>1. slips = 0 /\ n = Len(line)
    BY <1>1, <1>3, <1>13
  <2>2. line = AnswerTo(reads)
    BY <1>2, <2>1 DEF ModbusInd, WholeAnswers
  <2>3. Len(line) = 3 /\ line[1].part = "head"
    BY <2>2 DEF AnswerTo, Piece
  <2>4. Answered(buf) /\ ~Refused(buf) /\ bytes = 2
    BY <1>4, <1>8, <2>1, <2>3 DEF Answered, Refused, BytesRead
  <2>5. ok /\ ~refused
    BY <1>10, <2>4, Zenon DEF CrcMatches
  <2>6. ~(bytes \div 2 > 1)
    BY <2>4
  <2>7. ~overrun'
    BY <1>8, <2>6, Zenon
  <2> QED
    BY <2>5, <2>7
<1>14. ASSUME ok, ~refused PROVE data' \in 1..reads /\ reads - data' <= slips'
  <2>1. Answered(buf)
    BY <1>10, <1>14 DEF CrcMatches
  <2>2. bytes = 2
    BY <1>3, <1>4, <1>8, <2>1 DEF Answered, BytesRead
  <2>3. data' = line[1].call
    BY <1>4, <1>8, <2>1, <2>2 DEF Decode
  <2>4. slips' >= slips
    BY <1>1, <1>3
  <2> QED
    BY <1>3, <1>5, <1>7, <2>3, <2>4
<1>15. RegisterIsOwn'
  BY <1>11, <1>13, <1>14 DEF RegisterIsOwn
<1> QED
  BY <1>7, <1>12, <1>15 DEF ModbusInd

\* The read that fails.
LEMMA ReadFailsInd == ASSUME ModbusInd, ReadFails PROVE ModbusInd'
<1>1. /\ waiting /\ waiting' = FALSE /\ slips' = slips + 1
      /\ reported' = [call |-> reads, value |-> data, ok |-> FALSE, refused |-> FALSE]
      /\ UNCHANGED <<reads, line, data, overrun>>
  BY DEF ReadFails
<1>2. line \in Seq(Pieces) /\ Len(line) \in Nat /\ reads \in Nat /\ slips \in Nat /\ data \in Int
  BY DEF ModbusInd, ModbusTypeOK
<1>3. slips' \in Nat /\ slips' # 0
  BY <1>1, <1>2
<1>4. NotTooOld'
  <2>1. ASSUME NEW i \in DOMAIN line
        PROVE  line[i].call \in 1..reads /\ line[i].call >= reads - slips
    BY DEF ModbusInd, NotTooOld, Recent
  <2>2. ASSUME NEW i \in DOMAIN line
        PROVE  /\ line[i].call \in 1..reads /\ line[i].call > reads - slips'
               /\ line[i].call >= reads - slips'
    BY <1>1, <1>2, <2>1
  <2> QED
    BY <1>1, <2>2 DEF NotTooOld, Recent
<1>5. WholeAnswers' /\ RegisterIsOwn'
  BY <1>1, <1>3 DEF WholeAnswers, RegisterIsOwn
<1>6. ModbusTypeOK'
  <2>1. waiting' \in BOOLEAN /\ FALSE \in BOOLEAN
    BY <1>1, Zenon
  <2>2. reported' \in [call : Nat, value : Int, ok : BOOLEAN, refused : BOOLEAN]
    BY <1>1, <1>2, <2>1
  <2> QED
    BY <1>1, <1>2, <1>3, <2>1, <2>2 DEF ModbusInd, ModbusTypeOK
<1> QED
  BY <1>4, <1>5, <1>6 DEF ModbusInd

\* No step of a call or of the line disturbs the invariant of the reads.
LEMMA ModbusNextInd == ModbusInd /\ [ModbusNext]_modbusVars => ModbusInd'
<1> SUFFICES ASSUME ModbusInd, [ModbusNext]_modbusVars PROVE ModbusInd'
  OBVIOUS
<1>1. CASE ModbusNext
  BY <1>1, WriteRequestInd, WriteUnansweredInd, ReadAnswerInd, ReadFailsInd DEF ModbusNext
<1>2. CASE UNCHANGED modbusVars
  <2>1. AnswerTo(reads)' = AnswerTo(reads)
    BY <1>2 DEF modbusVars, AnswerTo, Piece
  <2> QED
    BY <1>2, <2>1 DEF modbusVars, ModbusInd, ModbusTypeOK, NotTooOld, Recent, WholeAnswers,
                      RegisterIsOwn
<1> QED
  BY <1>1, <1>2

\* The variables of the register reads keep their types.
THEOREM ModbusTypeCorrect == ModbusSpec => []ModbusTypeOK
<1>1. ModbusInd => ModbusTypeOK
  BY DEF ModbusInd
<1> QED
  BY <1>1, ModbusInitInd, ModbusNextInd, PTL DEF ModbusSpec

\* However the serial line delivers the answers, modbus_read_registers succeeds
\* within its variable as long as nothing goes wrong, and after n failures what
\* it reports as a success was asked for at most n calls before, or is an
\* exception answer.
THEOREM ModbusRegisters == ModbusSpec => []RegisterIsOwn
<1>1. ModbusInd => RegisterIsOwn
  BY DEF ModbusInd
<1> QED
  BY <1>1, ModbusInitInd, ModbusNextInd, PTL DEF ModbusSpec

-----------------------------------------------------------------------------
(* The selection of signals *)

\* The tables, entry by entry.
LEMMA Tables ==
    /\ Offsets = 1..7
    /\ options[1] = "DoorDrvrReSts" /\ options[2] = "DoorDrvrSts"
    /\ options[3] = "VehMtnStSafe" /\ options[4] = "EngCooltLvl" /\ options[5] = "TrSts"
    /\ options[6] = "DoorPassSts" /\ options[7] = "DoorPassReSts"
    /\ fields[1] = "DoorDrvrSts" /\ fields[2] = "DoorDrvrReSts"
    /\ fields[5] = "TrSts" /\ fields[6] = "DoorPassSts" /\ fields[7] = "DoorPassReSts"
BY DEF Offsets, options, fields

\* set_token finds the option that is meant, and the collector the field at its
\* offset.
LEMMA FirstMeant ==
    ASSUME NEW name \in Names
    PROVE  /\ First(name) \subseteq Offsets
           /\ {options[i] : i \in First(name)} = Meant(name)
           /\ {fields[i] : i \in First(name)} = {Swapped(o) : o \in Meant(name)}
<1> HIDE DEF options, fields
<1>0. ToSet(options) = {"DoorDrvrReSts", "DoorDrvrSts", "VehMtnStSafe", "EngCooltLvl",
                        "TrSts", "DoorPassSts", "DoorPassReSts"}
  BY Tables DEF ToSet, Offsets, options
<1>1. CASE name = "DoorPass"
  <2>1. First(name) = {6} /\ Meant(name) = {"DoorPassSts"}
    BY <1>0, <1>1 DEF First, BeginsWith, Meant
  <2> QED
    BY <2>1, Tables DEF Swapped
<1>2. CASE name = ""
  <2>1. First(name) = {1}
    <3>1. BeginsWith(name) = 1..7
      BY <1>2, Tables DEF BeginsWith
    <3> QED
      BY <3>1 DEF First
  <2>2. Meant(name) = {"DoorDrvrReSts"}
    BY <1>0, <1>2 DEF Meant
  <2> QED
    BY <2>1, <2>2, Tables DEF Swapped
<1>3. CASE name = "Speed"
  <2>1. First(name) = {} /\ Meant(name) = {}
    BY <1>0, <1>3, Tables DEF First, BeginsWith, Meant
  <2> QED
    BY <2>1
<1>4. CASE name = "DoorDrvrReSts"
  <2>1. First(name) = {1} /\ Meant(name) = {name}
    BY <1>0, <1>4, Tables DEF First, BeginsWith, Meant
  <2> QED
    BY <1>4, <2>1, Tables DEF Swapped
<1>5. CASE name = "DoorDrvrSts"
  <2>1. First(name) = {2} /\ Meant(name) = {name}
    BY <1>0, <1>5, Tables DEF First, BeginsWith, Meant
  <2> QED
    BY <1>5, <2>1, Tables DEF Swapped
<1>6. CASE name = "TrSts"
  <2>1. First(name) = {5} /\ Meant(name) = {name}
    BY <1>0, <1>6, Tables DEF First, BeginsWith, Meant
  <2> QED
    BY <1>6, <2>1, Tables DEF Swapped
<1>7. CASE name = "DoorPassReSts"
  <2>1. First(name) = {7} /\ Meant(name) = {name}
    BY <1>0, <1>7, Tables DEF First, BeginsWith, Meant
  <2> QED
    BY <1>7, <2>1, Tables DEF Swapped
<1> QED
  BY <1>1, <1>2, <1>3, <1>4, <1>5, <1>6, <1>7 DEF Names

\* What the bytes of the whole array stand for.
LEMMA MarksMeant ==
    ASSUME names \in Seq(Names)
    PROVE  /\ {options[i] : i \in {j \in Offsets : Marks(1..Len(names))[j] = 1}}
                = Selection(names)
           /\ Set(Marks(1..Len(names))) = {Swapped(o) : o \in Selection(names)}
<1>1. {i \in Offsets : Marks(1..Len(names))[i] = 1}
         = {i \in Offsets : \E j \in 1..Len(names) : i \in First(names[j])}
  BY DEF Marks
<1>2. \A j \in 1..Len(names) : names[j] \in Names
  OBVIOUS
<1>3. DOMAIN names = 1..Len(names)
  OBVIOUS
<1>4. Selection(names) = UNION {Meant(names[j]) : j \in 1..Len(names)}
  BY <1>3 DEF Selection, ToSet
<1>5. ASSUME NEW o PROVE o \in Selection(names)
                         <=> \E j \in 1..Len(names) : o \in Meant(names[j])
  BY <1>4
<1>6. {options[i] : i \in {k \in Offsets : \E j \in 1..Len(names) : k \in First(names[j])}}
         = Selection(names)
  BY <1>2, <1>5, FirstMeant
<1>7. {fields[i] : i \in {k \in Offsets : \E j \in 1..Len(names) : k \in First(names[j])}}
         = {Swapped(o) : o \in Selection(names)}
  <2>1. ASSUME NEW j \in 1..Len(names), NEW i \in First(names[j])
        PROVE  \E o \in Selection(names) : fields[i] = Swapped(o)
    <3>1. fields[i] \in {Swapped(o) : o \in Meant(names[j])}
      BY <1>2, FirstMeant
    <3> QED
      BY <1>5, <3>1
  <2>2. ASSUME NEW o \in Selection(names)
        PROVE  \E i \in Offsets :
                  (\E j \in 1..Len(names) : i \in First(names[j])) /\ fields[i] = Swapped(o)
    <3>1. PICK j \in 1..Len(names) : o \in Meant(names[j])
      BY <1>5
    <3>2. Swapped(o) \in {fields[i] : i \in First(names[j])}
      BY <1>2, <3>1, FirstMeant
    <3> QED
      BY <1>2, <3>2, FirstMeant
  <2> QED
    BY <2>1, <2>2
<1> QED
  BY <1>1, <1>6, <1>7 DEF Set

\* Nothing is selected.
LEMMA DatasetInitInd == DatasetInit => DatasetInd
<1> SUFFICES ASSUME DatasetInit PROVE DatasetInd
  OBVIOUS
<1>1. DatasetTypeOK
  BY DEF DatasetInit, DatasetTypeOK, None
<1>2. Len(names) = 0
  BY DEF DatasetInit
<1>3. dataset = Marks(1..Len(names))
  BY <1>2 DEF DatasetInit, None, Marks
<1>4. MarkedSoFar
  BY <1>3 DEF DatasetInit, MarkedSoFar
<1>5. /\ vehicledataset_to_json = Selection(names)
      /\ Set(dataset) = {Swapped(o) : o \in Selection(names)}
  BY <1>1, <1>3, MarksMeant DEF DatasetTypeOK, vehicledataset_to_json
<1>6. SelectionIsLast
  BY <1>5 DEF DatasetInit, SelectionIsLast
<1> QED
  BY <1>1, <1>4, <1>6 DEF DatasetInd

\* A step that leaves the array alone, after which the dataset holds its bytes.
LEMMA SelectionDone ==
    ASSUME DatasetInd, names' = names, before' = before,
           step' = "idle" => dataset' = Marks(1..Len(names)),
           seen' \subseteq before \cup {Swapped(o) : o \in Selection(names)}
    PROVE  SelectionIsLast'
<1>1. Selection(names)' = Selection(names)
  BY DEF Selection, Meant, ToSet
<1>2. ASSUME step' = "idle"
      PROVE  /\ vehicledataset_to_json' = Selection(names)
             /\ Set(dataset)' = {Swapped(o) : o \in Selection(names)}
  <2>1. dataset' = Marks(1..Len(names)) /\ names \in Seq(Names)
    BY <1>2 DEF DatasetInd, DatasetTypeOK
  <2>2. /\ vehicledataset_to_json'
              = {options[i] : i \in {j \in Offsets : Marks(1..Len(names))[j] = 1}}
        /\ Set(dataset)' = Set(Marks(1..Len(names)))
    BY <2>1 DEF vehicledataset_to_json, Set
  <2> QED
    BY <2>1, <2>2, MarksMeant
<1> QED
  BY <1>1, <1>2 DEF SelectionIsLast

\* A new array: the selection so far is what a collector may still see.
LEMMA FromJsonInd ==
    ASSUME DatasetInd, NEW n \in 0..MaxNames, NEW s \in [1..n -> Names], FromJson(s)
    PROVE  DatasetInd'
<1>1. names' \in Seq(Names)
  BY DatasetAssumption DEF FromJson
<1>2. DatasetTypeOK'
  BY <1>1 DEF FromJson, DatasetInd, DatasetTypeOK
<1>3. Set(dataset)' = Set(dataset)
  BY DEF FromJson, Set
<1>4. MarkedSoFar'
  BY <1>3 DEF FromJson, MarkedSoFar
<1>5. SelectionIsLast'
  BY DEF FromJson, SelectionIsLast
<1> QED
  BY <1>2, <1>4, <1>5 DEF DatasetInd

\* Everything is cleared, which is all there is to do for an empty array.
LEMMA InitDatasetInd == ASSUME DatasetInd, vehicledataset_init PROVE DatasetInd'
<1>1. /\ step = "init" /\ val' = None /\ dataset' = None /\ index' = 1
      /\ step' = IF names = <<>> THEN "idle" ELSE "tokens"
      /\ UNCHANGED <<names, seen, before>>
  BY DEF vehicledataset_init
<1>2. names \in Seq(Names) /\ Len(names) \in Nat /\ (names = <<>> <=> Len(names) = 0)
  BY DEF DatasetInd, DatasetTypeOK
<1>3. DatasetTypeOK'
  BY <1>1, <1>2 DEF DatasetTypeOK, None
<1>4. Marks({})' = None
  BY DEF Marks, None
<1>5. 1..0 = {}
  OBVIOUS
<1>6. MarkedSoFar'
  BY <1>1, <1>2, <1>4, <1>5 DEF MarkedSoFar
<1>7. SelectionIsLast'
  <2>1. Marks(1..Len(names))' = Marks(1..Len(names))
    BY <1>1 DEF Marks
  <2> QED
    BY <1>1, <1>6, <2>1, SelectionDone DEF MarkedSoFar, DatasetInd, SelectionIsLast
<1> QED
  BY <1>3, <1>6, <1>7 DEF DatasetInd

\* One name: its option is added to those of the names before it.
LEMMA SetTokenInd == ASSUME DatasetInd, SetToken PROVE DatasetInd'
<1>1. /\ step = "tokens" /\ val' = set_token(val, names[index]) /\ index' = index + 1
      /\ step' = IF index = Len(names) THEN "copy" ELSE "tokens"
      /\ UNCHANGED <<dataset, names, seen, before>>
  BY DEF SetToken
<1>2. /\ names \in Seq(Names) /\ Len(names) \in Nat /\ index \in 1..Len(names)
      /\ val = Marks(1..(index - 1)) /\ dataset = None
  BY <1>1 DEF DatasetInd, DatasetTypeOK, MarkedSoFar
<1>3. val' = Marks(1..index)
  <2>1. 1..index = (1..(index - 1)) \cup {index}
    BY <1>2
  <2> QED
    BY <1>1, <1>2, <2>1 DEF set_token, Marks
<1>4. DatasetTypeOK'
  <2>1. val' \in [Offsets -> {0, 1}]
    BY <1>3 DEF Marks
  <2> QED
    BY <1>1, <2>1 DEF DatasetInd, DatasetTypeOK
<1>5. MarkedSoFar'
  <2>1. ASSUME NEW J PROVE Marks(J)' = Marks(J)
    BY <1>1 DEF Marks
  <2>2. step' = "copy" => val' = Marks(1..Len(names))'
    BY <1>1, <1>3, <2>1
  <2>3. step' = "tokens" => index' \in 1..Len(names) /\ val' = Marks(1..(index' - 1))
    BY <1>1, <1>2, <1>3
  <2>4. Marks(1..(index - 1))' = Marks(1..(index' - 1))
    BY <1>1 DEF Marks
  <2>5. step' \in {"copy", "tokens"} /\ dataset' = None
    BY <1>1, <1>2
  <2> QED
    BY <1>1, <2>2, <2>3, <2>4, <2>5 DEF MarkedSoFar
<1>6. SelectionIsLast'
  BY <1>1, SelectionDone DEF DatasetInd, SelectionIsLast
<1> QED
  BY <1>4, <1>5, <1>6 DEF DatasetInd

\* The bytes are copied.
LEMMA CopyInd == ASSUME DatasetInd, Copy PROVE DatasetInd'
<1>1. /\ step = "copy" /\ dataset' = val /\ step' = "idle"
      /\ UNCHANGED <<val, names, index, seen, before>>
  BY DEF Copy
<1>2. val = Marks(1..Len(names))
  BY <1>1 DEF DatasetInd, MarkedSoFar
<1>3. DatasetTypeOK'
  BY <1>1 DEF DatasetInd, DatasetTypeOK
<1>4. MarkedSoFar'
  <2>1. Marks(1..Len(names))' = Marks(1..Len(names))
    BY <1>1 DEF Marks
  <2> QED
    BY <1>1, <1>2, <2>1 DEF MarkedSoFar
<1>5. SelectionIsLast'
  BY <1>1, <1>2, SelectionDone DEF DatasetInd, SelectionIsLast
<1> QED
  BY <1>3, <1>4, <1>5 DEF DatasetInd

\* A collector looks while the bytes change: it sees some of the old selection or
\* some of the new one.
LEMMA LookInd == ASSUME DatasetInd, Look PROVE DatasetInd'
<1>1. UNCHANGED <<val, dataset, step, names, index, before>>
  BY DEF Look
<1> DEFINE next == IF step = "init" THEN None ELSE IF step = "copy" THEN val ELSE dataset
           asked == {Swapped(o) : o \in Selection(names)}
<1>2. PICK n \in 0..Len(options) :
          seen' = Set([i \in Offsets |-> IF i <= n THEN next[i] ELSE dataset[i]])
  BY DEF Look
<1>3. seen' \subseteq Set(next) \cup Set(dataset)
  BY <1>2 DEF Set
<1>4. Set(None) = {}
  BY DEF Set, None
<1>5. Set(Marks(1..Len(names))) = asked
  BY MarksMeant DEF DatasetInd, DatasetTypeOK
<1>6. Set(next) \subseteq before \cup asked /\ Set(dataset) \subseteq before \cup asked
  <2>1. CASE step = "init"
    BY <1>4, <2>1 DEF DatasetInd, MarkedSoFar
  <2>2. CASE step = "tokens"
    BY <1>4, <2>2 DEF DatasetInd, MarkedSoFar
  <2>3. CASE step = "copy"
    BY <1>4, <1>5, <2>3 DEF DatasetInd, MarkedSoFar
  <2>4. CASE step = "idle"
    BY <1>5, <2>4 DEF DatasetInd, MarkedSoFar
  <2> QED
    BY <2>1, <2>2, <2>3, <2>4 DEF DatasetInd, DatasetTypeOK
<1>7. DatasetTypeOK'
  BY <1>1 DEF DatasetInd, DatasetTypeOK
<1>8. MarkedSoFar'
  BY <1>1 DEF DatasetInd, MarkedSoFar, Marks, Set
<1>9. SelectionIsLast'
  <2>1. seen' \subseteq before \cup asked
    BY <1>3, <1>6
  <2>2. step' = "idle" => dataset' = Marks(1..Len(names))
    BY <1>1 DEF DatasetInd, MarkedSoFar
  <2> QED
    BY <1>1, <2>1, <2>2, SelectionDone
<1> QED
  BY <1>7, <1>8, <1>9 DEF DatasetInd

\* No step of the network thread or of a collector disturbs the invariant.
LEMMA DatasetNextInd == DatasetInd /\ [DatasetNext]_datasetVars => DatasetInd'
<1> SUFFICES ASSUME DatasetInd, [DatasetNext]_datasetVars PROVE DatasetInd'
  OBVIOUS
<1>1. CASE DatasetNext
  BY <1>1, FromJsonInd, InitDatasetInd, SetTokenInd, CopyInd, LookInd DEF DatasetNext
<1>2. CASE UNCHANGED datasetVars
  <2>1. UNCHANGED <<val, dataset, step, names, index, seen, before>>
    BY <1>2 DEF datasetVars
  <2>2. DatasetTypeOK'
    BY <2>1 DEF DatasetInd, DatasetTypeOK
  <2>3. MarkedSoFar'
    BY <2>1 DEF DatasetInd, MarkedSoFar, Marks, Set
  <2>4. SelectionIsLast'
    BY <2>1, SelectionDone DEF DatasetInd, MarkedSoFar, SelectionIsLast
  <2> QED
    BY <2>2, <2>3, <2>4 DEF DatasetInd
<1> QED
  BY <1>1, <1>2

\* The variables of the selection keep their types.
THEOREM DatasetTypeCorrect == DatasetSpec => []DatasetTypeOK
<1>1. DatasetInd => DatasetTypeOK
  BY DEF DatasetInd
<1> QED
  BY <1>1, DatasetInitInd, DatasetNextInd, PTL DEF DatasetSpec

\* However many names an array has, and in whatever order, vehicledataset_from_json
\* leaves exactly the signals they mean selected; and a collector that looks in
\* between finds none that belongs neither to the old nor to the new selection.
THEOREM DatasetSelection == DatasetSpec => []SelectionIsLast
<1>1. DatasetInd => SelectionIsLast
  BY DEF DatasetInd
<1> QED
  BY <1>1, DatasetInitInd, DatasetNextInd, PTL DEF DatasetSpec

-----------------------------------------------------------------------------
(* The loop over the lines of the GPS receiver *)

\* The maximum is the element that no other exceeds.
LEMMA MaxIs ==
    ASSUME NEW S \in SUBSET Int, NEW x \in S, \A y \in S : x >= y
    PROVE  Max(S) = x
<1>1. Max(S) \in S /\ \A y \in S : Max(S) >= y
  BY DEF Max
<1>2. Max(S) >= x /\ x >= Max(S) /\ Max(S) \in Int /\ x \in Int
  BY <1>1
<1> QED
  BY <1>2

\* Streams are sequences of numbers, and one that goes on where another ends makes
\* one stream with it.
LEMMA Streams ==
    ASSUME NEW a \in Int, NEW z \in Int
    PROVE  /\ \A n \in Nat : a >= 0 /\ z <= n => Stream(a, z) \in Seq(1..n)
           /\ Len(Stream(a, z)) = IF a <= z THEN z - a ELSE 0
           /\ DOMAIN Stream(a, z) = 1..(z - a)
           /\ \A i \in 1..(z - a) : Stream(a, z)[i] = a + i
<1>1. DOMAIN Stream(a, z) = 1..(z - a) /\ \A i \in 1..(z - a) : Stream(a, z)[i] = a + i
  BY DEF Stream
<1>2. CASE a <= z
  <2>1. z - a \in Nat
    BY <1>2
  <2>2. Stream(a, z) \in Seq(Int) /\ Len(Stream(a, z)) = z - a
    BY <2>1 DEF Stream
  <2>3. ASSUME NEW n \in Nat, a >= 0, z <= n PROVE Stream(a, z) \in Seq(1..n)
    BY <2>1, <2>3 DEF Stream
  <2> QED
    BY <1>1, <1>2, <2>2, <2>3
<1>3. CASE ~(a <= z)
  <2>1. 1..(z - a) = {}
    BY <1>3
  <2>2. Stream(a, z) = <<>>
    BY <1>1, <2>1
  <2> QED
    BY <1>1, <1>3, <2>2
<1> QED
  BY <1>2, <1>3

\* The length of a stream by itself, and that of a sentence.
LEMMA StreamLen ==
    ASSUME NEW a \in Int, NEW z \in Int
    PROVE  Len(Stream(a, z)) = IF a <= z THEN z - a ELSE 0
BY Streams

LEMMA CompleteLen == \A k \in Int : Len(Complete(k)) = 3
<1> TAKE k \in Int
<1> DEFINE a == 4 * k - 3 - 1
           z == 4 * k - 1
<1>1. Complete(k) = Stream(a, z)
  BY DEF Complete, Dollar, EndOfLine
<1>2. a \in Int /\ z \in Int /\ z - a = 3 /\ a <= z
  OBVIOUS
<1> HIDE DEF a, z
<1> QED
  BY <1>1, <1>2, StreamLen

LEMMA StreamsJoin ==
    ASSUME NEW a \in Nat, NEW m \in Nat, NEW z \in Nat, a <= m, m <= z
    PROVE  Stream(a, m) \o Stream(m, z) = Stream(a, z)
<1>1. /\ Stream(a, m) \in Seq(1..m) /\ Len(Stream(a, m)) = m - a
      /\ \A i \in 1..(m - a) : Stream(a, m)[i] = a + i
  BY Streams
<1>a. /\ Stream(m, z) \in Seq(1..z) /\ Len(Stream(m, z)) = z - m
      /\ \A i \in 1..(z - m) : Stream(m, z)[i] = m + i
  BY Streams
<1>b. /\ Stream(a, z) \in Seq(1..z) /\ Len(Stream(a, z)) = z - a
      /\ \A i \in 1..(z - a) : Stream(a, z)[i] = a + i
  BY Streams
<1> DEFINE s == Stream(a, m)
           t == Stream(m, z)
           u == Stream(a, z)
<1> HIDE DEF s, t, u
<1>2. s \in Seq(Int) /\ t \in Seq(Int) /\ u \in Seq(Int)
  BY <1>1, <1>a, <1>b DEF s, t, u
<1>3. s \o t \in Seq(Int) /\ Len(s \o t) = Len(s) + Len(t)
      /\ \A i \in 1..(Len(s) + Len(t)) : (s \o t)[i] = IF i <= Len(s) THEN s[i] ELSE t[i - Len(s)]
  BY <1>2, ConcatProperties
<1>4. Len(s \o t) = Len(u)
  BY <1>1, <1>a, <1>b, <1>3 DEF s, t, u
<1>5. \A i \in 1..Len(u) : (s \o t)[i] = u[i]
  <2> TAKE i \in 1..Len(u)
  <2>0. i \in 1..(z - a) /\ Len(s) = m - a /\ Len(t) = z - m /\ u[i] = a + i
    BY <1>1, <1>a, <1>b DEF s, t, u
  <2>1. CASE i <= m - a
    <3>1. (s \o t)[i] = s[i]
      BY <1>3, <2>0, <2>1
    <3>2. s[i] = a + i
      BY <1>1, <2>0, <2>1 DEF s
    <3> QED
      BY <2>0, <3>1, <3>2
  <2>2. CASE i > m - a
    <3>1. i - (m - a) \in 1..(z - m)
      BY <2>0, <2>2
    <3>2. (s \o t)[i] = t[i - (m - a)]
      BY <1>3, <2>0, <2>2
    <3>3. t[i - (m - a)] = m + (i - (m - a))
      BY <1>a, <3>1 DEF t
    <3> QED
      BY <2>0, <3>2, <3>3
  <2> QED
    BY <2>0, <2>1, <2>2
<1>6. s \o t = u
  BY <1>2, <1>3, <1>4, <1>5, SeqEqual
<1> QED
  BY <1>6 DEF s, t, u

\* Which sentences have begun, and which are done.
LEMMA Sentences_ ==
    ASSUME GpsTypeOK
    PROVE  /\ FirstHeard \in {1, 2} /\ CurrentSentence \in 0..Sentences
           /\ Begun = FirstHeard..CurrentSentence
           /\ Done = FirstHeard..(CurrentSentence - 1)
           /\ handled \in Nat /\ read \in Nat /\ Sentences \in Nat /\ started \in 0..4
<1>1. handled \in Nat /\ read \in Nat /\ Sentences \in Nat /\ started \in 0..4 /\ handled <= 4 * Sentences
  BY NmeaAssumption DEF GpsTypeOK, LastSymbol, EndOfLine
<1>2. FirstHeard \in {1, 2} /\ CurrentSentence \in 0..Sentences
  BY <1>1 DEF FirstHeard, CurrentSentence
<1>3. \A k \in Int : started < 4 * k - 3 <=> FirstHeard <= k
  BY <1>1 DEF FirstHeard
<1>4. \A k \in Int : 4 * k - 3 <= handled <=> k <= CurrentSentence
  BY <1>1 DEF CurrentSentence
<1>5. Begun = FirstHeard..CurrentSentence
  <2>1. ASSUME NEW k \in Begun PROVE k \in FirstHeard..CurrentSentence
    BY <1>1, <1>2, <1>3, <1>4 DEF Begun, Dollar
  <2>2. ASSUME NEW k \in FirstHeard..CurrentSentence PROVE k \in Begun
    BY <1>1, <1>2, <1>3, <1>4 DEF Begun, Dollar
  <2> QED
    BY <2>1, <2>2
<1>6. Done = FirstHeard..(CurrentSentence - 1)
  BY <1>2, <1>5 DEF Done
<1> QED
  BY <1>1, <1>2, <1>5, <1>6

\* Sentences differ.
LEMMA CompleteOnce ==
    ASSUME NEW j \in Nat \ {0}, NEW k \in Nat \ {0}, Complete(j) = Complete(k)
    PROVE  j = k
<1>1. Complete(j)[1] = 4 * j - 3 /\ Complete(k)[1] = 4 * k - 3
  BY DEF Complete, Dollar, EndOfLine, Stream
<1> QED
  BY <1>1

\* strtok's token is a part of one sentence, without its end.
LEMMA TokenIs ==
    ASSUME GpsTypeOK, handled < read
    PROVE  /\ TokenBegin \in Nat /\ TokenEnd \in Nat
           /\ TokenBegin \in {handled, handled + 1} /\ TokenBegin <= TokenEnd /\ TokenEnd <= read
           /\ TokenBegin = handled + 1 <=> (handled + 1) % 4 = 0
           /\ TokenBegin = TokenEnd => TokenBegin = read /\ TokenBegin = handled + 1
           /\ TokenBegin < TokenEnd =>
                 /\ (TokenBegin + 1) % 4 # 0
                 /\ TokenEnd <= 4 * ((TokenBegin + 4) \div 4) - 1
                 /\ Stream(TokenBegin, TokenEnd)[1] = TokenBegin + 1
<1>1. handled \in Nat /\ read \in Nat
  BY Sentences_
<1>2. /\ TokenBegin \in Nat /\ TokenBegin \in {handled, handled + 1}
      /\ TokenBegin = handled + 1 <=> (handled + 1) % 4 = 0
      /\ TokenBegin <= read /\ (TokenBegin + 1) % 4 # 0
  BY <1>1 DEF TokenBegin, IsLineEnd
<1> DEFINE e == 4 * ((TokenBegin + 4) \div 4) - 1
           x == IF read < e THEN read ELSE e
           S == {n \in TokenBegin..read : \A m \in TokenBegin + 1 .. n : ~IsLineEnd(m)}
<1>3. e \in Nat /\ TokenBegin < e /\ x \in Nat
  BY <1>1, <1>2
<1>4. x \in S
  <2>1. \A m \in TokenBegin + 1 .. e : m % 4 # 0
    BY <1>2
  <2> QED
    BY <1>1, <1>2, <1>3, <2>1 DEF IsLineEnd
<1>5. \A y \in S : x >= y
  <2>1. (e + 1) % 4 = 0
    BY <1>2
  <2>2. SUFFICES ASSUME NEW y \in S, y > x PROVE FALSE
    BY <1>1, <1>2, <1>3
  <2>3. y \in Int /\ y <= read /\ \A m \in TokenBegin + 1 .. y : m % 4 # 0
    BY <1>1, <1>2 DEF IsLineEnd
  <2>4. e + 1 \in TokenBegin + 1 .. y
    BY <1>1, <1>2, <1>3, <2>2, <2>3
  <2> QED
    BY <2>1, <2>3, <2>4
<1>6. S \in SUBSET Int
  BY <1>1, <1>2
<1>7. TokenEnd = x
  BY <1>4, <1>5, <1>6, MaxIs DEF TokenEnd
<1>8. TokenBegin < TokenEnd => Stream(TokenBegin, TokenEnd)[1] = TokenBegin + 1
  <2> HIDE DEF x
  <2>1. TokenBegin \in Nat /\ TokenEnd \in Nat
    BY <1>2, <1>3, <1>7
  <2> QED
    BY <2>1 DEF Stream
<1> QED
  BY <1>1, <1>2, <1>3, <1>7, <1>8

LEMMA GpsInitInd == GpsInit => GpsInd
<1> SUFFICES ASSUME GpsInit PROVE GpsInd
  OBVIOUS
<1>1. GpsTypeOK
  BY NmeaAssumption DEF GpsInit, GpsTypeOK, LastSymbol, EndOfLine
<1>2. Collected
  <2>1. started \in 0..4 /\ handled = started /\ nmea_sentence_buffer = <<>>
    BY DEF GpsInit
  <2>2. CollectedFrom \in Int /\ CollectedTo \in Int /\ CollectedTo <= CollectedFrom
    BY <2>1 DEF CollectedFrom, CollectedTo, CurrentSentence, EndOfLine
  <2>3. Len(Stream(CollectedFrom, CollectedTo)) = 0 /\ 1..(CollectedTo - CollectedFrom) = {}
    BY <2>2, Streams
  <2>4. Stream(CollectedFrom, CollectedTo) = <<>>
    BY <2>3 DEF Stream
  <2> QED
    BY <2>1, <2>4 DEF Collected
<1>3. ProcessedInOrder
  BY <1>1, Sentences_ DEF ProcessedInOrder, GpsInit, FirstHeard, CurrentSentence
<1>4. Told = {}
  BY <1>1, Sentences_ DEF Told, GpsInit, FirstHeard, CurrentSentence
<1>5. Located
  BY <1>4 DEF Located, GpsInit
<1> QED
  BY <1>1, <1>2, <1>3, <1>5 DEF GpsInd

\* A read changes nothing but what there is to handle.
LEMMA GpsReadInd == ASSUME GpsInd, NEW n \in 1..LastSymbol, GpsRead(n) PROVE GpsInd'
<1>1. /\ read' = read + n /\ read + n <= LastSymbol
      /\ UNCHANGED <<kinds, started, handled, nmea_sentence_buffer, location, processed>>
  BY DEF GpsRead
<1>2. LastSymbol \in Nat
  BY NmeaAssumption DEF LastSymbol, EndOfLine
<1>3. GpsTypeOK'
  BY <1>1, <1>2 DEF GpsInd, GpsTypeOK, LastSymbol, EndOfLine
<1>4. Collected' /\ ProcessedInOrder'
  BY <1>1 DEF GpsInd, Collected, CollectedFrom, CollectedTo, CurrentSentence, FirstHeard,
              ProcessedInOrder
<1>5. Begun' = Begun
  BY <1>1 DEF Begun
<1>6. Done' = Done
  BY <1>5 DEF Done
<1>7. Told' = Told
  BY <1>1, <1>6 DEF Told
<1>8. Located'
  BY <1>1, <1>7 DEF GpsInd, Located
<1> QED
  BY <1>3, <1>4, <1>8 DEF GpsInd

\* While the current sentence is the same, so is the position.
LEMMA SameTold ==
    ASSUME GpsTypeOK, GpsTypeOK', Located, location' = location, kinds' = kinds,
           CurrentSentence' = CurrentSentence, FirstHeard' = FirstHeard
    PROVE  Located'
<1>1. (GpsTypeOK => Done = FirstHeard..(CurrentSentence - 1))'
  BY Sentences_, PTL
<1>2. Done' = Done
  BY <1>1, Sentences_
<1>3. Told' = Told
  BY <1>2 DEF Told
<1> QED
  BY <1>3 DEF Located

\* The buffer holds the sentence before when the next one begins, whole if it was
\* begun after the port was opened and otherwise not.
LEMMA BufferAtDollar ==
    ASSUME GpsInd, CurrentSentence \in Nat, handled >= 4 * CurrentSentence - 1
    PROVE  /\ CurrentSentence >= FirstHeard => nmea_sentence_buffer = Complete(CurrentSentence)
           /\ CurrentSentence < FirstHeard => ~Whole(nmea_sentence_buffer)
<1>1. /\ FirstHeard \in {1, 2} /\ started \in 0..4 /\ handled \in Nat /\ Sentences \in Nat
      /\ CurrentSentence \in 0..Sentences
  BY Sentences_ DEF GpsInd
<1>2. nmea_sentence_buffer = Stream(CollectedFrom, CollectedTo)
  BY DEF GpsInd, Collected
<1>3. CollectedTo = 4 * CurrentSentence - 1
  BY <1>1 DEF CollectedTo, EndOfLine
<1>4. CASE CurrentSentence >= FirstHeard
  <2>1. CollectedFrom = 4 * CurrentSentence - 4
    BY <1>1, <1>4 DEF CollectedFrom, EndOfLine, FirstHeard
  <2>2. 4 * CurrentSentence - 3 - 1 = 4 * CurrentSentence - 4
    BY <1>1
  <2> QED
    BY <1>1, <1>2, <1>3, <1>4, <2>1, <2>2 DEF Complete, Dollar, EndOfLine
<1>5. CASE CurrentSentence < FirstHeard
  <2>1. CollectedFrom \in Int /\ CollectedTo \in Int /\ CollectedTo - CollectedFrom < 3
    BY <1>1, <1>3, <1>5 DEF CollectedFrom, EndOfLine, FirstHeard, CurrentSentence
  <2>2. Len(nmea_sentence_buffer) < 3
    <3>1. Len(nmea_sentence_buffer) = IF CollectedFrom <= CollectedTo THEN CollectedTo - CollectedFrom ELSE 0
      BY <1>2, <2>1, StreamLen
    <3> QED
      BY <2>1, <3>1
  <2>3. \A k \in 1..Sentences : nmea_sentence_buffer # Complete(k)
    <3> TAKE k \in 1..Sentences
    <3>1. Len(Complete(k)) = 3
      BY <1>1, CompleteLen
    <3> QED
      BY <2>2, <3>1
  <2> QED
    BY <1>1, <1>5, <2>3 DEF Whole
<1> QED
  BY <1>1, <1>4, <1>5

\* A sentence that has just been processed tells its position, if it has any.
LEMMA PositionTold ==
    ASSUME GpsInd, NEW c \in FirstHeard..Sentences, nmea_sentence_buffer = Complete(c),
           c = CurrentSentence, kinds' = kinds,
           Told' = Told \cup {k \in {c} : kinds[k] \in {"fix", "void"}},
           location' = Position(nmea_sentence_buffer, location)
    PROVE  Located'
<1> DEFINE ks == {k \in 1..Sentences : nmea_sentence_buffer = Complete(k)}
<1>1. /\ FirstHeard \in {1, 2} /\ Sentences \in Nat /\ c \in 1..Sentences
      /\ Done = FirstHeard..(c - 1)
  BY Sentences_ DEF GpsInd
<1>2. ks = {c}
  BY <1>1, CompleteOnce
<1>3. Max(ks) = c
  <2>1. ks \in SUBSET Int /\ c \in ks /\ \A y \in ks : c >= y
    BY <1>1, <1>2
  <2> QED
    BY <2>1, MaxIs
<1>4. kinds \in [1..Sentences -> Kinds] /\ kinds[c] \in Kinds
  BY <1>1 DEF GpsInd, GpsTypeOK
<1>5. location' = CASE kinds[c] = "fix" -> c [] kinds[c] = "void" -> -1 [] OTHER -> location
  <2> HIDE DEF ks
  <2>1. ks # {} /\ Max(ks) = c
    BY <1>2, <1>3
  <2> QED
    BY <2>1 DEF Position, ks
<1>6. CASE kinds[c] \in {"fix", "void"}
  <2>1. Told' = Told \cup {c} /\ Told \subseteq FirstHeard..(c - 1)
    BY <1>1, <1>6 DEF Told
  <2>2. Told' \in SUBSET Int /\ c \in Told' /\ \A y \in Told' : c >= y
    <3>1. \A y \in Told : y \in Int /\ c >= y
      BY <1>1, <2>1
    <3>2. c \in Int /\ c >= c
      BY <1>1
    <3> QED
      BY <2>1, <3>1, <3>2, Zenon
  <2>3. Max(Told') = c
    BY <2>2, MaxIs
  <2>4. Max(Told)' = c
    BY <2>3 DEF Max
  <2> QED
    BY <1>5, <1>6, <2>2, <2>4 DEF Located
<1>7. CASE kinds[c] \notin {"fix", "void"}
  <2>1. Told' = Told /\ location' = location
    BY <1>5, <1>7
  <2> QED
    BY <2>1 DEF GpsInd, Located
<1> QED
  BY <1>6, <1>7

\* A '$': the sentence before it is processed.
LEMMA DollarInd ==
    ASSUME GpsInd, handled < read, handled' = TokenEnd, TokenBegin < TokenEnd,
           IsDollar(Stream(TokenBegin, TokenEnd)[1]),
           FirstOfSentence(Stream(TokenBegin, TokenEnd)),
           UNCHANGED <<kinds, started, read>>
    PROVE  GpsInd'
<1> DEFINE c == CurrentSentence
           b == TokenBegin
           e == TokenEnd
<1>1. GpsTypeOK
  BY DEF GpsInd
<1>2. /\ b \in Nat /\ e \in Nat /\ b \in {handled, handled + 1} /\ e <= read
      /\ b = handled + 1 <=> (handled + 1) % 4 = 0
      /\ e <= 4 * ((b + 4) \div 4) - 1
      /\ (b + 1) % 4 = 1
      /\ Stream(b, e)[1] = b + 1
  BY <1>1, TokenIs DEF IsDollar
<1>3. /\ FirstHeard \in {1, 2} /\ c \in 0..Sentences /\ started \in 0..4
      /\ handled \in Nat /\ read \in Nat /\ Sentences \in Nat /\ started <= handled
      /\ read <= 4 * Sentences
      /\ Done = FirstHeard..(c - 1)
  BY <1>1, Sentences_ DEF GpsTypeOK, LastSymbol, EndOfLine
<1>4. b = 4 * c /\ handled >= 4 * c - 1
  BY <1>2, <1>3 DEF CurrentSentence
<1>5. (handled + 3) \div 4 = c
  BY DEF CurrentSentence
<1>6. CurrentSentence' = c + 1 /\ FirstHeard' = FirstHeard
  <2> HIDE DEF c, b, e
  <2>1. e > 4 * c /\ e <= 4 * c + 3
    BY <1>2, <1>3, <1>4 DEF b, e
  <2>2. (e + 3) \div 4 = c + 1
    BY <1>2, <1>3, <2>1 DEF c
  <2> QED
    BY <2>2 DEF CurrentSentence, FirstHeard, e
<1>7. c + 1 <= Sentences /\ c + 1 >= FirstHeard
  <2> HIDE DEF c
  <2>1. e > 4 * c
    BY <1>2, <1>4
  <2> QED
    BY <1>2, <1>3, <1>4, <2>1 DEF FirstHeard
<1>8. /\ location' = Position(nmea_sentence_buffer, location)
      /\ processed' = Append(processed, nmea_sentence_buffer)
      /\ nmea_sentence_buffer' = Stream(b, e)
  BY DEF FirstOfSentence
<1>9. /\ c >= FirstHeard => nmea_sentence_buffer = Complete(c)
      /\ c < FirstHeard => ~Whole(nmea_sentence_buffer)
  BY <1>3, <1>4, BufferAtDollar
<1>a. Collected'
  <2> HIDE DEF c, b, e
  <2>1. CollectedFrom' = b
    <3>1. EndOfLine(CurrentSentence)' - 4 = b
      BY <1>3, <1>4, <1>6 DEF EndOfLine
    <3>2. started' = started /\ started <= b
      BY <1>2, <1>3
    <3>3. CollectedFrom' = IF started' > EndOfLine(CurrentSentence)' - 4 THEN started'
                           ELSE EndOfLine(CurrentSentence)' - 4
      BY DEF CollectedFrom
    <3> QED
      BY <1>2, <1>3, <3>1, <3>2, <3>3 DEF b
  <2>2. CollectedTo' = e
    <3>1. EndOfLine(CurrentSentence)' - 1 = 4 * c + 3
      BY <1>3, <1>6 DEF EndOfLine
    <3>2. handled' = e /\ e <= 4 * c + 3
      BY <1>2, <1>3, <1>4 DEF e
    <3> QED
      BY <1>2, <1>3, <3>1, <3>2 DEF CollectedTo
  <2>3. (Stream(CollectedFrom, CollectedTo))' = Stream(b, e)
    BY <2>1, <2>2 DEF Stream
  <2> QED
    BY <1>8, <2>3 DEF Collected
<1>b. processed \in Seq(Seq(1..LastSymbol)) /\ nmea_sentence_buffer \in Seq(1..LastSymbol)
  BY <1>1 DEF GpsTypeOK
<1>c. /\ processed' \in Seq(Seq(1..LastSymbol))
      /\ Len(processed') = Len(processed) + 1 /\ Len(processed) \in Nat
      /\ \A i \in 1..Len(processed) : processed'[i] = processed[i]
      /\ processed'[Len(processed) + 1] = nmea_sentence_buffer
  BY <1>8, <1>b, AppendProperties
<1>d. Len(processed) = IF c < FirstHeard THEN 0 ELSE c - FirstHeard + 1
  BY DEF GpsInd, ProcessedInOrder
<1>e. Len(processed') = c + 1 - FirstHeard + 1
  <2> HIDE DEF c
  <2> QED
    BY <1>3, <1>7, <1>c, <1>d
<1>f. ~Whole(processed[1])' 
  <2> HIDE DEF c
  <2>1. CASE c < FirstHeard
    <3>1. processed'[1] = nmea_sentence_buffer
      BY <1>c, <1>d, <2>1
    <3> QED
      BY <1>9, <2>1, <3>1 DEF Whole
  <2>2. CASE ~(c < FirstHeard)
    <3>1. Len(processed) > 0
      BY <1>3, <1>d, <2>2
    <3>2. processed'[1] = processed[1] /\ ~Whole(processed[1])
      BY <1>c, <3>1 DEF GpsInd, ProcessedInOrder
    <3> QED
      BY <3>2 DEF Whole
  <2> QED
    BY <2>1, <2>2
<1>g. \A i \in 2..Len(processed') : processed'[i] = Complete(FirstHeard + i - 2)
  <2> TAKE i \in 2..Len(processed')
  <2> HIDE DEF c
  <2>1. CASE i <= Len(processed)
    <3>1. i \in 2..Len(processed) /\ i \in 1..Len(processed)
      BY <1>c, <2>1
    <3> QED
      BY <1>c, <3>1 DEF GpsInd, ProcessedInOrder
  <2>2. CASE ~(i <= Len(processed))
    <3>1. i = Len(processed) + 1 /\ i >= 2
      BY <1>c, <2>2
    <3>2. c >= FirstHeard /\ FirstHeard + i - 2 = c
      BY <1>3, <1>d, <3>1, <1>c
    <3> QED
      BY <1>9, <1>c, <3>1, <3>2
  <2> QED
    BY <2>1, <2>2
<1>h. ProcessedInOrder'
  <2> HIDE DEF c
  <2>1. ~(CurrentSentence' < FirstHeard') /\ CurrentSentence' - FirstHeard' + 1 = c + 1 - FirstHeard + 1
    BY <1>3, <1>6, <1>7
  <2>2. \A i \in 2..Len(processed') : processed'[i] = Complete(FirstHeard' + i - 2)
    BY <1>6, <1>g
  <2> QED
    BY <1>e, <1>f, <2>1, <2>2 DEF ProcessedInOrder
<1>i. GpsTypeOK'
  <2>1. LastSymbol = 4 * Sentences
    BY DEF LastSymbol, EndOfLine
  <2>2. nmea_sentence_buffer' \in Seq(1..LastSymbol)
    <3> HIDE DEF b, e
    <3>1. LastSymbol \in Nat /\ b \in Int /\ e \in Int /\ b >= 0 /\ e <= LastSymbol
      BY <1>2, <1>3, <2>1
    <3> QED
      BY <1>8, <3>1, Streams
  <2>3. location' \in -1..Sentences
    <3>1. location \in -1..Sentences /\ kinds \in [1..Sentences -> Kinds]
      BY <1>1 DEF GpsTypeOK
    <3> DEFINE ks == {k \in 1..Sentences : nmea_sentence_buffer = Complete(k)}
    <3>2. CASE ks = {}
      BY <1>8, <3>1, <3>2 DEF Position
    <3>3. CASE ks # {}
      <4>1. PICK k \in ks : TRUE
        BY <3>3
      <4>2. \A j \in ks : j = k
        <5> TAKE j \in ks
        <5>1. Complete(j) = Complete(k) /\ j \in Nat \ {0} /\ k \in Nat \ {0}
          BY <1>3
        <5> QED
          BY <5>1, CompleteOnce
      <4>3. Max(ks) = k
        <5>1. ks \in SUBSET Int /\ \A y \in ks : k >= y
          BY <1>3, <4>2
        <5> QED
          BY <5>1, MaxIs
      <4> HIDE DEF ks
      <4>4. k \in 1..Sentences
        BY DEF ks
      <4>5. location' = CASE kinds[k] = "fix" -> k [] kinds[k] = "void" -> -1 [] OTHER -> location
        BY <1>8, <3>3, <4>3 DEF Position, ks
      <4> QED
        BY <1>3, <3>1, <4>4, <4>5
    <3> QED
      BY <3>2, <3>3
  <2>4. handled' \in started'..read'
    BY <1>2, <1>3
  <2> QED
    BY <1>1, <1>3, <1>c, <2>2, <2>3, <2>4 DEF GpsTypeOK, LastSymbol, EndOfLine
<1>j. Done' = FirstHeard..c
  <2>1. (GpsTypeOK => Done = FirstHeard..(CurrentSentence - 1))'
    BY Sentences_, PTL
  <2> HIDE DEF c
  <2> QED
    BY <1>3, <1>6, <1>i, <2>1
<1>k. Told' = Told \cup {k \in {c} : c >= FirstHeard /\ kinds[k] \in {"fix", "void"}}
  <2> HIDE DEF c
  <2>1. kinds' = kinds
    OBVIOUS
  <2> QED
    BY <1>3, <1>j, <2>1 DEF Told
<1>l. Located'
  <2> HIDE DEF c
  <2>1. CASE c >= FirstHeard
    BY <1>3, <1>8, <1>9, <1>k, <2>1, PositionTold DEF c
  <2>2. CASE ~(c >= FirstHeard)
    <3>1. Told' = {} /\ Told = {}
      BY <1>3, <1>j, <2>2 DEF Told
    <3>2. ~Whole(nmea_sentence_buffer)
      BY <1>3, <1>9, <2>2
    <3>3. location' = location
      BY <1>8, <3>2 DEF Position, Whole
    <3> QED
      BY <3>1, <3>3 DEF GpsInd, Located
  <2> QED
    BY <2>1, <2>2
<1> QED
  BY <1>a, <1>h, <1>i, <1>l DEF GpsInd

\* The rest of a line: it is added to what there is of the sentence.
LEMMA RestInd ==
    ASSUME GpsInd, handled < read, handled' = TokenEnd, TokenBegin < TokenEnd,
           ~IsDollar(Stream(TokenBegin, TokenEnd)[1]),
           RestOfSentence(Stream(TokenBegin, TokenEnd)),
           UNCHANGED <<kinds, started, read>>
    PROVE  GpsInd'
<1> DEFINE c == CurrentSentence
           b == TokenBegin
           e == TokenEnd
<1>1. GpsTypeOK
  BY DEF GpsInd
<1>2. /\ b \in Nat /\ e \in Nat /\ b \in {handled, handled + 1} /\ b < e /\ e <= read
      /\ b = handled + 1 <=> (handled + 1) % 4 = 0
      /\ e <= 4 * ((b + 4) \div 4) - 1
      /\ (b + 1) % 4 # 1 /\ (b + 1) % 4 # 0
      /\ Stream(b, e)[1] = b + 1
  BY <1>1, TokenIs DEF IsDollar
<1>3. /\ c \in 0..Sentences /\ started \in 0..4
      /\ handled \in Nat /\ read \in Nat /\ Sentences \in Nat /\ started <= handled
      /\ read <= 4 * Sentences
  BY <1>1, Sentences_ DEF GpsTypeOK, LastSymbol, EndOfLine
<1>4. b = handled /\ 4 * c - 4 < b /\ e <= 4 * c - 1
  <2>1. c = (handled + 3) \div 4
    BY DEF CurrentSentence
  <2> HIDE DEF c, b, e
  <2>2. b = handled
    BY <1>2, <1>3
  <2> QED
    BY <1>2, <1>3, <2>1, <2>2
<1>5. CurrentSentence' = c /\ FirstHeard' = FirstHeard
  <2> HIDE DEF c, b, e
  <2>1. (e + 3) \div 4 = c
    BY <1>2, <1>3, <1>4
  <2> QED
    BY <2>1 DEF CurrentSentence, FirstHeard, e
<1>6. /\ nmea_sentence_buffer' = nmea_sentence_buffer \o Stream(b, e)
      /\ location' = location /\ processed' = processed
  BY DEF RestOfSentence
<1>7. /\ CollectedFrom \in Nat /\ CollectedFrom <= b /\ CollectedTo = b
      /\ CollectedFrom' = CollectedFrom /\ CollectedTo' = e
  <2>1. EndOfLine(c) = 4 * c
    BY DEF EndOfLine
  <2>2. started' = started /\ handled' = e
    OBVIOUS
  <2> HIDE DEF c, b, e
  <2>3. CollectedFrom = IF started > 4 * c - 4 THEN started ELSE 4 * c - 4
    BY DEF CollectedFrom, EndOfLine, c
  <2>4. CollectedTo = IF handled < 4 * c - 1 THEN handled ELSE 4 * c - 1
    BY DEF CollectedTo, EndOfLine, c
  <2>5. CollectedFrom' = IF started > 4 * c - 4 THEN started ELSE 4 * c - 4
    BY <1>5, <2>2 DEF CollectedFrom, EndOfLine
  <2>6. CollectedTo' = IF e < 4 * c - 1 THEN e ELSE 4 * c - 1
    BY <1>5, <2>2 DEF CollectedTo, EndOfLine
  <2> QED
    BY <1>2, <1>3, <1>4, <2>3, <2>4, <2>5, <2>6
<1>8. Collected'
  <2> HIDE DEF c, b, e
  <2>1. nmea_sentence_buffer = Stream(CollectedFrom, b)
    BY <1>7 DEF GpsInd, Collected
  <2>2. Stream(CollectedFrom, b) \o Stream(b, e) = Stream(CollectedFrom, e)
    <3>1. CollectedFrom \in Nat /\ b \in Nat /\ e \in Nat /\ CollectedFrom <= b /\ b <= e
      BY <1>2, <1>7
    <3> QED
      BY <3>1, StreamsJoin
  <2>3. (Stream(CollectedFrom, CollectedTo))' = Stream(CollectedFrom, e)
    BY <1>7 DEF Stream
  <2> QED
    BY <1>6, <2>1, <2>2, <2>3 DEF Collected
<1>9. ProcessedInOrder'
  BY <1>5, <1>6 DEF GpsInd, ProcessedInOrder, Whole
<1>a. GpsTypeOK'
  <2>1. LastSymbol = 4 * Sentences
    BY DEF LastSymbol, EndOfLine
  <2>2. nmea_sentence_buffer' \in Seq(1..LastSymbol)
    <3> HIDE DEF b, e
    <3>1. LastSymbol \in Nat /\ b \in Int /\ e \in Int /\ b >= 0 /\ e <= LastSymbol
      BY <1>2, <1>3, <2>1
    <3>2. Stream(b, e) \in Seq(1..LastSymbol)
      BY <3>1, Streams
    <3>3. nmea_sentence_buffer \in Seq(1..LastSymbol)
      BY <1>1 DEF GpsTypeOK
    <3> QED
      BY <1>6, <3>2, <3>3
  <2>3. handled' \in started'..read'
    BY <1>2, <1>3, <1>4
  <2> QED
    BY <1>1, <1>3, <1>6, <2>2, <2>3 DEF GpsTypeOK, LastSymbol, EndOfLine
<1>b. Located'
  BY <1>1, <1>5, <1>6, <1>a, SameTold DEF GpsInd
<1> QED
  BY <1>8, <1>9, <1>a, <1>b DEF GpsInd

\* Only a line end was left.
LEMMA SkipInd ==
    ASSUME GpsInd, handled < read, handled' = TokenEnd, TokenBegin = TokenEnd,
           UNCHANGED <<kinds, started, read, nmea_sentence_buffer, location, processed>>
    PROVE  GpsInd'
<1>1. GpsTypeOK
  BY DEF GpsInd
<1>2. /\ handled \in Nat /\ started \in 0..4 /\ started <= handled
      /\ handled' = handled + 1 /\ (handled + 1) % 4 = 0 /\ handled' = read
  BY <1>1, TokenIs, Sentences_ DEF GpsTypeOK
<1>3. CurrentSentence' = CurrentSentence /\ FirstHeard' = FirstHeard
  BY <1>2 DEF CurrentSentence, FirstHeard
<1>4. CollectedFrom' = CollectedFrom
  BY <1>3 DEF CollectedFrom, EndOfLine
<1>5. CollectedTo' = CollectedTo
  <2>1. handled = 4 * CurrentSentence - 1 /\ CurrentSentence \in Int
    BY <1>2 DEF CurrentSentence
  <2> QED
    BY <1>2, <1>3, <2>1 DEF CollectedTo, EndOfLine
<1>6. Collected'
  <2>1. (Stream(CollectedFrom, CollectedTo))' = Stream(CollectedFrom, CollectedTo)
    BY <1>4, <1>5 DEF Stream
  <2> QED
    BY <2>1 DEF GpsInd, Collected
<1>7. ProcessedInOrder'
  BY <1>3 DEF GpsInd, ProcessedInOrder, Whole
<1>8. GpsTypeOK'
  BY <1>1, <1>2 DEF GpsTypeOK
<1>9. Located'
  BY <1>1, <1>3, <1>8, SameTold DEF GpsInd
<1> QED
  BY <1>6, <1>7, <1>8, <1>9 DEF GpsInd

\* No step of the loop disturbs what it has collected.
LEMMA GpsNextInd == GpsInd /\ [GpsNext]_gpsVars => GpsInd'
<1> SUFFICES ASSUME GpsInd, [GpsNext]_gpsVars PROVE GpsInd'
  OBVIOUS
<1>1. CASE GpsToken
  BY <1>1, DollarInd, RestInd, SkipInd DEF GpsToken
<1>2. ASSUME NEW n \in 1..LastSymbol, GpsRead(n) PROVE GpsInd'
  BY <1>2, GpsReadInd
<1>3. CASE UNCHANGED gpsVars
  <2>1. UNCHANGED <<kinds, started, read, handled, nmea_sentence_buffer, location, processed>>
    BY <1>3 DEF gpsVars
  <2>2. GpsTypeOK /\ GpsTypeOK'
    BY <2>1 DEF GpsInd, GpsTypeOK
  <2>3. CurrentSentence' = CurrentSentence /\ FirstHeard' = FirstHeard
    BY <2>1 DEF CurrentSentence, FirstHeard
  <2>4. Collected' /\ ProcessedInOrder'
    BY <2>1, <2>3 DEF GpsInd, Collected, CollectedFrom, CollectedTo, ProcessedInOrder, Whole
  <2>5. Located'
    BY <2>1, <2>2, <2>3, SameTold DEF GpsInd
  <2> QED
    BY <2>2, <2>4, <2>5 DEF GpsInd
<1> QED
  BY <1>1, <1>2, <1>3 DEF GpsNext

\* What the invariant says of the sentences that were processed.
LEMMA GpsIndCuts == GpsInd => CutsDoNotMatter
<1> SUFFICES ASSUME GpsInd PROVE CutsDoNotMatter
  OBVIOUS
<1> DEFINE c == CurrentSentence
           f == FirstHeard
           P == {k \in 1..Sentences : \E i \in DOMAIN processed : processed[i] = Complete(k)}
<1>1. /\ f \in {1, 2} /\ c \in 0..Sentences /\ Sentences \in Nat
      /\ Begun = f..c /\ Done = f..(c - 1)
  BY Sentences_ DEF GpsInd
<1>2. processed \in Seq(Seq(1..LastSymbol)) /\ Len(processed) \in Nat
      /\ DOMAIN processed = 1..Len(processed)
  BY DEF GpsInd, GpsTypeOK
<1>3. /\ Len(processed) = IF c < f THEN 0 ELSE c - f + 1
      /\ Len(processed) > 0 => ~Whole(processed[1])
      /\ \A i \in 2..Len(processed) : processed[i] = Complete(f + i - 2)
  BY DEF GpsInd, ProcessedInOrder
<1> HIDE DEF c, f
<1>4. ASSUME NEW k \in P PROVE k \in Done
  <2>1. PICK i \in 1..Len(processed) : processed[i] = Complete(k)
    BY <1>2
  <2>2. i # 1
    BY <1>2, <1>3, <2>1 DEF Whole
  <2>3. i \in 2..Len(processed) /\ f + i - 2 \in Nat \ {0}
    BY <1>1, <1>2, <2>1, <2>2
  <2>4. Complete(k) = Complete(f + i - 2) /\ k \in Nat \ {0}
    BY <1>1, <1>3, <2>1, <2>3
  <2>5. k = f + i - 2
    BY <2>3, <2>4, CompleteOnce
  <2> QED
    BY <1>1, <1>3, <2>3, <2>5
<1>5. ASSUME NEW k \in Done PROVE k \in P
  <2>1. k \in 1..Sentences /\ k - f + 2 \in 2..Len(processed) /\ f + (k - f + 2) - 2 = k
    BY <1>1, <1>3
  <2>2. processed[k - f + 2] = Complete(k) /\ k - f + 2 \in DOMAIN processed
    BY <1>2, <1>3, <2>1
  <2> QED
    BY <2>1, <2>2
<1>6. P = Done
  BY <1>4, <1>5
<1>7. Len(processed) = Cardinality(Begun)
  <2>1. Cardinality(f..c) = IF f > c THEN 0 ELSE c - f + 1
    BY <1>1, FS_Interval
  <2> QED
    BY <1>1, <1>3, <2>1
<1> QED
  BY <1>6, <1>7 DEF GpsInd, CutsDoNotMatter

\* The loop's variables keep their types: the buffer holds symbols of the stream,
\* and the position is one that a sentence gave.
THEOREM GpsTypeCorrect == GpsSpec => []GpsTypeOK
<1>1. GpsInd => GpsTypeOK
  BY DEF GpsInd
<1> QED
  BY <1>1, GpsInitInd, GpsNextInd, PTL DEF GpsSpec

\* However many sentences come, of whatever kinds, wherever the stream is when the
\* port is opened and wherever read() and strtok cut it: every sentence that was
\* sent while the port was open is processed, whole and once, when the next begins,
\* and the position is that of the last one that had any.
THEOREM GpsCuts == GpsSpec => []CutsDoNotMatter
BY GpsInitInd, GpsNextInd, GpsIndCuts, PTL DEF GpsSpec

-----------------------------------------------------------------------------
(* Loops *)

\* Induction: what holds at the start and is kept by each step holds at the end.
LEMMA Climb ==
    ASSUME NEW n \in Nat, NEW T \in SUBSET (0..n), 0 \in T,
           \A i \in 1..n : i - 1 \in T => i \in T
    PROVE  T = 0..n
<1> DEFINE F == (0..n) \ T
<1> SUFFICES ASSUME F # {} PROVE FALSE
  OBVIOUS
<1>1. F \subseteq Nat
  OBVIOUS
<1>2. PICK i \in F : \A j \in F : <<j, i>> \notin OpToRel(<, Nat)
  BY <1>1, NatLessThanWellFounded, WFMin
<1>3. i \in 1..n /\ i - 1 \in 0..n
  OBVIOUS
<1>4. <<i - 1, i>> \in OpToRel(<, Nat)
  BY <1>3 DEF OpToRel
<1>5. i - 1 \in T
  BY <1>2, <1>3, <1>4
<1> QED
  BY <1>3, <1>5

\* The functions that start with a and of which each value is got from the one
\* before by a step.  There is one.
Runs(n, S, a, tau) ==
    {f \in [0..n -> S] : f[0] = a /\ \A i \in 1..n : f[i] = tau[i][f[i - 1]]}

LEMMA StepsExist ==
    ASSUME NEW n \in Nat, NEW S, NEW a \in S, NEW tau \in [1..n -> [S -> S]]
    PROVE  Runs(n, S, a, tau) # {}
<1> DEFINE Good(m, f) == f[0] = a /\ \A i \in 1..m : f[i] = tau[i][f[i - 1]]
           T == {m \in 0..n : \E f \in [0..n -> S] : Good(m, f)}
<1>1. 0 \in T
  <2> DEFINE f == [j \in 0..n |-> a]
  <2>1. f \in [0..n -> S] /\ f[0] = a /\ 1..0 = {} /\ 0 \in 0..n
    OBVIOUS
  <2> HIDE DEF f
  <2>2. Good(0, f)
    BY <2>1
  <2> QED
    BY <2>1, <2>2
<1>2. ASSUME NEW m \in 1..n, m - 1 \in T PROVE m \in T
  <2>1. PICK f \in [0..n -> S] : Good(m - 1, f)
    BY <1>2
  <2> DEFINE x == tau[m][f[m - 1]]
             g == [f EXCEPT ![m] = x]
  <2>2. x \in S
    BY <2>1
  <2> HIDE DEF x
  <2>3. g \in [0..n -> S] /\ m \in 0..n
    BY <2>1, <2>2
  <2>4. g[0] = a
    BY <2>1
  <2>5. ASSUME NEW i \in 1..m PROVE g[i] = tau[i][g[i - 1]]
    <3>1. CASE i = m
      BY <2>1, <3>1 DEF x
    <3>2. CASE i # m
      <4>1. i \in 1..(m - 1) /\ g[i] = f[i] /\ g[i - 1] = f[i - 1]
        BY <3>2
      <4> QED
        BY <2>1, <4>1
    <3> QED
      BY <3>1, <3>2
  <2> HIDE DEF g
  <2>6. Good(m, g)
    BY <2>4, <2>5
  <2> QED
    BY <2>3, <2>6
<1>3. T \in SUBSET (0..n)
  OBVIOUS
<1> HIDE DEF T
<1>4. T = 0..n
  BY <1>1, <1>2, <1>3, Climb
<1>5. n \in T
  BY <1>4
<1>6. PICK f \in [0..n -> S] : Good(n, f)
  BY <1>5 DEF T
<1> QED
  BY <1>6 DEF Runs

\* What every step keeps.
LEMMA StaysIn ==
    ASSUME NEW n \in Nat, NEW S, NEW g, g[0] \in S,
           \A i \in 1..n : g[i - 1] \in S => g[i] \in S
    PROVE  \A i \in 0..n : g[i] \in S
<1> DEFINE T == {i \in 0..n : g[i] \in S}
<1>1. T \in SUBSET (0..n) /\ 0 \in T /\ \A i \in 1..n : i - 1 \in T => i \in T
  OBVIOUS
<1> HIDE DEF T
<1>2. T = 0..n
  BY <1>1, Climb
<1> QED
  BY <1>2 DEF T

\* The states of a loop that differs from another in one input: if every step tells
\* its states apart, and the input, they end in different states.
LEMMA OneInputDiffers ==
    ASSUME NEW n \in Nat, NEW k \in 1..n, NEW f, NEW g, f[0] = g[0],
           \A i \in 1..n : i # k => (f[i - 1] = g[i - 1] <=> f[i] = g[i]),
           f[k - 1] = g[k - 1] => f[k] # g[k]
    PROVE  f[n] # g[n]
<1> DEFINE T == {i \in 0..n : f[i] = g[i] <=> i < k}
<1>1. T \in SUBSET (0..n) /\ 0 \in T
  OBVIOUS
<1>2. ASSUME NEW i \in 1..n, i - 1 \in T PROVE i \in T
  <2>1. CASE i < k
    BY <1>2, <2>1
  <2>2. CASE i = k
    BY <1>2, <2>2
  <2>3. CASE i > k
    BY <1>2, <2>3
  <2> QED
    BY <2>1, <2>2, <2>3
<1> HIDE DEF T
<1>3. T = 0..n
  BY <1>1, <1>2, Climb
<1>4. n \in T
  BY <1>3
<1> QED
  BY <1>4 DEF T

(* Checksums *)

\* ^ tells its arguments apart.
LEMMA XorDiffers == 
    /\ \A A, B, C : SymDiff(A, C) = SymDiff(B, C) <=> A = B
    /\ \A A, B, C : SymDiff(C, A) = SymDiff(C, B) <=> A = B
<1>1. ASSUME NEW A, NEW B, NEW C, SymDiff(A, C) = SymDiff(B, C) PROVE A = B
  BY <1>1 DEF SymDiff
<1>2. ASSUME NEW A, NEW B, NEW C, SymDiff(C, A) = SymDiff(C, B) PROVE A = B
  BY <1>2 DEF SymDiff
<1> QED
  BY <1>1, <1>2

\* The loop of the checksum.
LEMMA ChecksumSteps ==
    ASSUME NEW codes \in Seq(Bytes)
    PROVE  /\ Checksums(codes) \in [0..Len(codes) -> Bytes]
           /\ Checksums(codes)[0] = {}
           /\ \A i \in 1..Len(codes) : Checksums(codes)[i] = SymDiff(Checksums(codes)[i - 1], codes[i])
<1> DEFINE m == Len(codes)
           tau == [i \in 1..m |-> [x \in Bytes |-> SymDiff(x, codes[i])]]
           Def(h) == h = [i \in 0..Len(codes) |-> IF i = 0 THEN {} ELSE SymDiff(h[i - 1], codes[i])]
           g == Checksums(codes)
<1>1. m \in Nat /\ {} \in Bytes
  BY DEF Bytes
<1>2. ASSUME NEW i \in 1..m, NEW x \in Bytes PROVE SymDiff(x, codes[i]) \in Bytes
  <2>1. codes[i] \in Bytes
    BY <1>1
  <2> QED
    BY <2>1 DEF SymDiff, Bytes
<1>3. tau \in [1..m -> [Bytes -> Bytes]]
  BY <1>2
<1>4. PICK f \in Runs(m, Bytes, {}, tau) : TRUE
  <2> HIDE DEF m, tau
  <2> QED
    BY <1>1, <1>3, StepsExist
<1>5. f \in [0..m -> Bytes] /\ f[0] = {} /\ \A i \in 1..m : f[i] = SymDiff(f[i - 1], codes[i])
  <2>1. f \in [0..m -> Bytes] /\ f[0] = {} /\ \A i \in 1..m : f[i] = tau[i][f[i - 1]]
    BY <1>4 DEF Runs
  <2>2. \A i \in 1..m : i - 1 \in 0..m
    BY <1>1
  <2> QED
    BY <2>1, <2>2
<1>6. Def(f)
  BY <1>1, <1>5
<1>7. g = CHOOSE h : Def(h)
  BY DEF Checksums
<1>8. Def(g)
  BY <1>6, <1>7
<1> HIDE DEF g
<1>9. g[0] = {} /\ \A i \in 1..m : g[i] = SymDiff(g[i - 1], codes[i])
  <2>1. \A i \in 0..m : g[i] = IF i = 0 THEN {} ELSE SymDiff(g[i - 1], codes[i])
    BY <1>8, Zenon
  <2>2. 0 \in 0..m /\ \A i \in 1..m : i \in 0..m /\ i # 0
    BY <1>1
  <2> QED
    BY <2>1, <2>2
<1>10. \A i \in 0..m : g[i] \in Bytes
  <2> HIDE DEF m
  <2>1. \A i \in 1..m : g[i - 1] \in Bytes => g[i] \in Bytes
    BY <1>2, <1>9
  <2> QED
    BY <1>1, <1>9, <2>1, StaysIn
<1> QED
  BY <1>8, <1>9, <1>10 DEF g

\* A sequence that is changed in one place.
LEMMA ChangedIn ==
    ASSUME NEW V, NEW s \in Seq(V), NEW W \in SUBSET V, NEW t \in OneChanged(s, W)
    PROVE  /\ t \in Seq(V) /\ Len(t) = Len(s)
           /\ \E k \in 1..Len(s) : t[k] # s[k] /\ \A i \in 1..Len(s) : i # k => t[i] = s[i]
<1>1. PICK k \in DOMAIN s, v \in W : t = [s EXCEPT ![k] = v]
  BY DEF OneChanged
<1>2. t # s
  BY DEF OneChanged
<1>3. v # s[k]
  <2> SUFFICES ASSUME v = s[k] PROVE FALSE
    OBVIOUS
  <2>1. [s EXCEPT ![k] = v] = s
    OBVIOUS
  <2> QED
    BY <1>1, <1>2, <2>1
<1>4. t \in Seq(V) /\ Len(t) = Len(s) /\ DOMAIN s = 1..Len(s)
  BY <1>1, ExceptSeq
<1>5. t[k] = v /\ \A i \in 1..Len(s) : i # k => t[i] = s[i]
  BY <1>1
<1> QED
  BY <1>3, <1>4, <1>5

\* One character that is another one changes the checksum.
LEMMA ChecksumDiffers ==
    ASSUME NEW codes \in Seq(Bytes), NEW other \in Seq(Bytes), Len(other) = Len(codes),
           \E k \in 1..Len(codes) :
              other[k] # codes[k] /\ \A i \in 1..Len(codes) : i # k => other[i] = codes[i]
    PROVE  minmea_checksum(other) # minmea_checksum(codes)
<1> DEFINE n == Len(codes)
           f == Checksums(codes)
           g == Checksums(other)
<1>1. n \in Nat /\ Len(other) = n
  OBVIOUS
<1>2. PICK k \in 1..n : other[k] # codes[k] /\ \A i \in 1..n : i # k => other[i] = codes[i]
  OBVIOUS
<1>3. f[0] = {} /\ \A i \in 1..n : f[i] = SymDiff(f[i - 1], codes[i])
  BY ChecksumSteps
<1>4. g[0] = {} /\ \A i \in 1..n : g[i] = SymDiff(g[i - 1], other[i])
  BY <1>1, ChecksumSteps
<1> HIDE DEF f, g, n
<1>5. ASSUME NEW i \in 1..n, i # k PROVE f[i - 1] = g[i - 1] <=> f[i] = g[i]
  BY <1>2, <1>3, <1>4, <1>5, XorDiffers
<1>6. f[k - 1] = g[k - 1] => f[k] # g[k]
  BY <1>2, <1>3, <1>4, XorDiffers
<1>7. f[0] = g[0]
  BY <1>3, <1>4
<1>8. f[n] # g[n]
  <2>1. \A i \in 1..n : i # k => (f[i - 1] = g[i - 1] <=> f[i] = g[i])
    BY <1>5
  <2> QED
    BY <1>1, <1>6, <1>7, <2>1, OneInputDiffers, SMT
<1> QED
  BY <1>1, <1>8 DEF minmea_checksum, f, g, n

\* The two digits say what the checksum is, and no other two do.
LEMMA DigitsOfChecksum ==
    ASSUME NEW sum \in Bytes, NEW upper \in HexDigits, NEW lower \in HexDigits
    PROVE  /\ sum = {b + 4 : b \in upper} \cup lower <=>
                 upper = {b - 4 : b \in sum \cap 4..7} /\ lower = sum \cap 0..3
           /\ {b - 4 : b \in sum \cap 4..7} \in HexDigits /\ sum \cap 0..3 \in HexDigits
<1> DEFINE up == {b - 4 : b \in sum \cap 4..7}
           all == {b + 4 : b \in upper} \cup lower
<1>1. sum \subseteq 0..7 /\ upper \subseteq 0..3 /\ lower \subseteq 0..3
  BY DEF Bytes, HexDigits
<1>2. up \subseteq 0..3 /\ \A d \in 0..3 : d \in up <=> d + 4 \in sum
  BY <1>1
<1>3. ASSUME sum = all PROVE upper = up /\ lower = sum \cap 0..3
  <2>1. \A d \in 0..3 : d \in sum <=> d \in lower
    BY <1>1, <1>3
  <2>2. \A d \in 0..3 : d + 4 \in sum <=> d \in upper
    BY <1>1, <1>3
  <2> QED
    BY <1>1, <1>2, <2>1, <2>2
<1>4. ASSUME upper = up, lower = sum \cap 0..3 PROVE sum = all
  <2>1. ASSUME NEW b \in sum PROVE b \in all
    <3>1. CASE b \in 0..3
      BY <1>4, <3>1
    <3>2. CASE b \in 4..7
      <4>1. b - 4 \in upper /\ b = (b - 4) + 4
        BY <1>4, <3>2
      <4> QED
        BY <4>1
    <3> QED
      BY <1>1, <3>1, <3>2
  <2>2. ASSUME NEW b \in all PROVE b \in sum
    BY <1>1, <1>2, <1>4
  <2> QED
    BY <2>1, <2>2
<1> QED
  BY <1>1, <1>2, <1>3, <1>4 DEF HexDigits

\* The characters that end a sentence or begin its checksum are no text.
LEMMA NoText ==
    /\ ~Summed(Nul) /\ ~Summed(Star) /\ ~Summed(Lf) /\ ~Summed(Cr)
    /\ Nul \in Bytes /\ Star \in Bytes /\ DollarSign \in Bytes
    /\ Star # Nul /\ Star # Lf /\ Star # Cr /\ Lf # Nul /\ Cr # Nul /\ Cr # Lf
    /\ hex2int(Star) = NotHex /\ hex2int(Nul) = NotHex
<1>1. ~Summed(Nul) /\ ~Summed(Star) /\ ~Summed(Lf) /\ ~Summed(Cr)
  BY DEF Summed, isprint, Nul, Star, Lf, Cr
<1>2. Nul \in Bytes /\ Star \in Bytes /\ DollarSign \in Bytes
  BY DEF Bytes, Nul, Star, DollarSign
<1>3. Star # Nul /\ Star # Lf /\ Star # Cr /\ Lf # Nul /\ Cr # Nul /\ Cr # Lf
  <2>1. 5 \in Star /\ 5 \notin Nul /\ 5 \notin Lf /\ 5 \notin Cr
    BY DEF Star, Nul, Lf, Cr
  <2>2. 3 \in Lf /\ 3 \in Cr /\ 3 \notin Nul /\ 0 \in Cr /\ 0 \notin Lf
    BY DEF Nul, Lf, Cr
  <2> QED
    BY <2>1, <2>2
<1>4. ASSUME NEW c, \A b \in c : b \notin {4, 6} PROVE hex2int(c) = NotHex
  <2> DEFINE low == c \cap 0..3
  <2>1. 4 \notin c \ low /\ 6 \notin c \ low
    BY <1>4
  <2>2. c \ low # {4, 5} /\ c \ low # {6} /\ c \ low # {5, 6}
    BY <2>1
  <2> QED
    BY <2>2 DEF hex2int
<1>5. hex2int(Star) = NotHex /\ hex2int(Nul) = NotHex
  BY <1>4 DEF Star, Nul
<1> QED
  BY <1>1, <1>2, <1>3, <1>5

\* A hexadecimal digit is text, and its value has four bits.
LEMMA HexIsText ==
    ASSUME NEW c \in Bytes, hex2int(c) # NotHex
    PROVE  Summed(c) /\ hex2int(c) \in HexDigits
<1> DEFINE low == c \cap 0..3
<1>1. c \ low \in {{4, 5}, {6}, {5, 6}}
  BY DEF hex2int
<1>2. Summed(c)
  <2>1. 7 \notin c \ low /\ (5 \in c \ low \/ 6 \in c \ low) /\ (4 \notin c \ low \/ 6 \notin c \ low)
    BY <1>1
  <2>2. 7 \notin c /\ (5 \in c \/ 6 \in c) /\ (4 \notin c \/ 6 \notin c)
    BY <2>1
  <2>3. c # 0..6
    BY <2>2
  <2>4. 4 \in c \ low \/ 6 \in c \ low
    BY <1>1
  <2>5. c # Star
    BY <2>4 DEF Star
  <2> QED
    BY <2>2, <2>3, <2>5 DEF Summed, isprint
<1>3. hex2int(c) \in HexDigits
  BY DEF hex2int, HexDigits
<1> QED
  BY <1>2, <1>3

\* Where the loop stops.
LEMMA StopsAt ==
    ASSUME NEW s \in Seq(Bytes), NEW e \in 2..(Len(s) + 1), ~Summed(CharAt(s, e)),
           \A i \in 2..(e - 1) : Summed(s[i])
    PROVE  Stop(s) = e
<1> DEFINE Is(x) == ~Summed(CharAt(s, x)) /\ \A i \in 2..(x - 1) : Summed(s[i])
<1>1. Is(e)
  OBVIOUS
<1>2. ASSUME NEW x \in 2..(Len(s) + 1), Is(x) PROVE x = e
  <2>1. Len(s) \in Nat /\ DOMAIN s = 1..Len(s)
    OBVIOUS
  <2>2. ASSUME x < e PROVE FALSE
    <3>1. x \in 2..(e - 1) /\ x \in DOMAIN s
      BY <2>1, <2>2
    <3> QED
      BY <1>2, <3>1 DEF CharAt
  <2>3. ASSUME e < x PROVE FALSE
    <3>1. e \in 2..(x - 1) /\ e \in DOMAIN s
      BY <2>1, <2>3
    <3> QED
      BY <1>2, <3>1 DEF CharAt
  <2> QED
    BY <2>1, <2>2, <2>3
<1>3. Stop(s) = CHOOSE x \in 2..(Len(s) + 1) : Is(x)
  BY DEF Stop
<1> HIDE DEF Is
<1> QED
  BY <1>1, <1>2, <1>3

\* So what minmea_check returns.
LEMMA CheckedAt ==
    ASSUME NEW s \in Seq(Bytes), NEW e \in 2..(Len(s) + 1), ~Summed(CharAt(s, e)),
           \A i \in 2..(e - 1) : Summed(s[i])
    PROVE  minmea_check(s) <=>
              /\ strlen(s) <= MINMEA_MAX_LENGTH + 3
              /\ CharAt(s, 1) = DollarSign
              /\ IF CharAt(s, e) = Star
                 THEN SumAt(s, e + 1, SubSeq(s, 2, e - 1)) /\ AtEnd(s, e + 3)
                 ELSE AtEnd(s, e)
<1>1. Stop(s) = e
  BY StopsAt
<1> QED
  BY <1>1, Zenon DEF minmea_check

\* A string without Nul is as long as its sequence.
LEMMA WholeLength ==
    ASSUME NEW s \in Seq(Bytes), \A i \in 1..Len(s) : s[i] # Nul
    PROVE  strlen(s) = Len(s)
<1> DEFINE Is(n) == CharAt(s, n + 1) = Nul /\ \A i \in 1..n : s[i] # Nul
<1>1. Len(s) \in Nat /\ DOMAIN s = 1..Len(s)
  OBVIOUS
<1>2. Is(Len(s)) /\ Len(s) \in 0..Len(s)
  BY <1>1 DEF CharAt
<1>3. ASSUME NEW n \in 0..Len(s), Is(n) PROVE n = Len(s)
  <2>1. n \in Int /\ n <= Len(s) /\ n >= 0
    OBVIOUS
  <2>2. ASSUME n < Len(s) PROVE FALSE
    <3>1. n + 1 \in 1..Len(s)
      BY <1>1, <2>1, <2>2
    <3> QED
      BY <1>1, <1>3, <3>1 DEF CharAt
  <2>3. \A m \in Nat : n <= m /\ ~(n < m) => n = m
    BY <2>1
  <2> QED
    BY <1>1, <2>1, <2>2, <2>3, Zenon
<1>4. strlen(s) = CHOOSE n \in 0..Len(s) : Is(n)
  BY DEF strlen
<1> HIDE DEF Is
<1> QED
  BY <1>2, <1>3, <1>4

\* Where the characters of a sentence with its checksum are.
HasShape(s, codes, upper, lower) ==
    /\ s \in Seq(Bytes) /\ Len(s) = Len(codes) + 4
    /\ s[1] = DollarSign
    /\ \A i \in 2..(Len(codes) + 1) : s[i] = codes[i - 1] /\ Summed(s[i])
    /\ s[Len(codes) + 2] = Star /\ s[Len(codes) + 3] = upper /\ s[Len(codes) + 4] = lower

LEMMA SentenceShape ==
    ASSUME NEW codes \in Seq(Bytes), \A i \in DOMAIN codes : Summed(codes[i]),
           NEW upper \in Bytes, NEW lower \in Bytes
    PROVE  HasShape(Sentence(codes, upper, lower), codes, upper, lower)
<1> DEFINE n == Len(codes)
           front == <<DollarSign>>
           back == <<Star, upper, lower>>
           s == Sentence(codes, upper, lower)
<1>1. n \in Nat /\ DOMAIN codes = 1..n
  OBVIOUS
<1>2. /\ front \in Seq(Bytes) /\ Len(front) = 1 /\ front[1] = DollarSign
      /\ back \in Seq(Bytes) /\ Len(back) = 3
      /\ back[1] = Star /\ back[2] = upper /\ back[3] = lower
  BY NoText
<1>3. s = (front \o codes) \o back
  BY DEF Sentence
<1> HIDE DEF front, back, s
<1>4. /\ front \o codes \in Seq(Bytes) /\ Len(front \o codes) = n + 1
      /\ \A i \in 1..(n + 1) : (front \o codes)[i] = IF i <= 1 THEN front[i] ELSE codes[i - 1]
  <2>1. /\ front \o codes \in Seq(Bytes) /\ Len(front \o codes) = Len(front) + Len(codes)
        /\ \A i \in 1..(Len(front) + Len(codes)) :
              (front \o codes)[i] = IF i <= Len(front) THEN front[i] ELSE codes[i - Len(front)]
    BY <1>2, ConcatProperties, Zenon
  <2> QED
    BY <1>1, <1>2, <2>1
<1> DEFINE text == front \o codes
<1>5. /\ s \in Seq(Bytes) /\ Len(s) = n + 4
      /\ \A i \in 1..(n + 4) : s[i] = IF i <= n + 1 THEN text[i] ELSE back[i - (n + 1)]
  <2> HIDE DEF text
  <2>1. /\ text \o back \in Seq(Bytes) /\ Len(text \o back) = Len(text) + Len(back)
        /\ \A i \in 1..(Len(text) + Len(back)) :
              (text \o back)[i] = IF i <= Len(text) THEN text[i] ELSE back[i - Len(text)]
    BY <1>2, <1>4, ConcatProperties, Zenon DEF text
  <2>2. Len(text) = n + 1 /\ s = text \o back
    BY <1>3, <1>4 DEF text
  <2> QED
    BY <1>1, <1>2, <2>1, <2>2
<1>6. s[1] = DollarSign
  BY <1>1, <1>2, <1>4, <1>5
<1>7. ASSUME NEW i \in 2..(n + 1) PROVE s[i] = codes[i - 1] /\ Summed(s[i])
  <2>0. i \in 1..(n + 4) /\ i \in 1..(n + 1) /\ i <= n + 1 /\ ~(i <= 1) /\ i - 1 \in 1..n
    BY <1>1
  <2>1. s[i] = codes[i - 1] /\ i - 1 \in 1..n
    BY <1>4, <1>5, <2>0
  <2> QED
    BY <1>1, <2>1
<1>8. s[n + 2] = Star /\ s[n + 3] = upper /\ s[n + 4] = lower
  <2>1. n + 2 \in 1..(n + 4) /\ n + 3 \in 1..(n + 4) /\ n + 4 \in 1..(n + 4)
    BY <1>1
  <2>2. /\ (n + 2) - (n + 1) = 1 /\ (n + 3) - (n + 1) = 2 /\ (n + 4) - (n + 1) = 3
        /\ ~(n + 2 <= n + 1) /\ ~(n + 3 <= n + 1) /\ ~(n + 4 <= n + 1)
    BY <1>1
  <2> QED
    BY <1>2, <1>5, <2>1, <2>2
<1> QED
  BY <1>5, <1>6, <1>7, <1>8 DEF HasShape, s

\* The text of a sentence whose characters are in place.
LEMMA TextOf ==
    ASSUME NEW codes \in Seq(Bytes), NEW s \in Seq(Bytes), Len(s) = Len(codes) + 4,
           \A i \in 2..(Len(codes) + 1) : s[i] = codes[i - 1]
    PROVE  SubSeq(s, 2, Len(codes) + 1) = codes
<1> DEFINE n == Len(codes)
           t == SubSeq(s, 2, n + 1)
<1>1. n \in Nat /\ \A i \in 2..(n + 1) : s[i] \in Bytes
  OBVIOUS
<1>2. t \in Seq(Bytes) /\ Len(t) = n /\ \A i \in 1..n : t[i] = s[i + 1]
  BY <1>1
<1>3. \A i \in 1..n : t[i] = codes[i]
  <2> SUFFICES ASSUME NEW i \in 1..n PROVE s[i + 1] = codes[i]
    BY <1>2
  <2>1. i + 1 \in 2..(n + 1) /\ (i + 1) - 1 = i
    BY <1>1
  <2> QED
    BY <2>1
<1> HIDE DEF t
<1> QED
  BY <1>2, <1>3, SeqEqual DEF t

\* What follows a character that is not the last one of a sentence is no end.
LEMMA NotAtEnd ==
    ASSUME NEW s \in Seq(Bytes), NEW i \in Nat, i + 1 \in 1..Len(s), i >= 1,
           Summed(s[i + 1]) \/ s[i + 1] = Star, s[i] # Nul
    PROVE  ~AtEnd(s, i)
<1>1. CharAt(s, i) = s[i] /\ CharAt(s, i + 1) = s[i + 1]
  BY DEF CharAt
<1>2. s[i + 1] # Nul /\ s[i + 1] # Lf
  BY NoText
<1> QED
  BY <1>1, <1>2 DEF AtEnd

\* A sentence with its checksum whose text is unchanged is taken for a good one if
\* the two digits say what the checksum is.
LEMMA CheckedWhole ==
    ASSUME NEW codes \in Seq(Bytes), NEW u \in Bytes, NEW l \in Bytes,
           NEW s, HasShape(s, codes, u, l)
    PROVE  minmea_check(s) <=>
              /\ strlen(s) <= MINMEA_MAX_LENGTH + 3
              /\ hex2int(u) # NotHex /\ hex2int(l) # NotHex
              /\ minmea_checksum(codes) = {b + 4 : b \in hex2int(u)} \cup hex2int(l)
<1> DEFINE n == Len(codes)
<1>1. n \in Nat /\ s \in Seq(Bytes) /\ Len(s) = n + 4 /\ DOMAIN s = 1..(n + 4)
  BY DEF HasShape
<1>2. /\ CharAt(s, 1) = DollarSign /\ CharAt(s, n + 2) = Star /\ CharAt(s, n + 3) = u
      /\ CharAt(s, n + 4) = l /\ CharAt(s, n + 5) = Nul
  BY <1>1 DEF HasShape, CharAt
<1>3. n + 2 \in 2..(Len(s) + 1) /\ ~Summed(CharAt(s, n + 2))
      /\ \A i \in 2..((n + 2) - 1) : Summed(s[i])
  BY <1>1, <1>2, NoText DEF HasShape
<1>4. SubSeq(s, 2, n + 1) = codes
  BY <1>1, TextOf DEF HasShape
<1>5. minmea_check(s) <=>
        /\ strlen(s) <= MINMEA_MAX_LENGTH + 3
        /\ CharAt(s, 1) = DollarSign
        /\ IF CharAt(s, n + 2) = Star
           THEN SumAt(s, (n + 2) + 1, SubSeq(s, 2, (n + 2) - 1)) /\ AtEnd(s, (n + 2) + 3)
           ELSE AtEnd(s, n + 2)
  <2> HIDE DEF n
  <2> QED
    BY <1>1, <1>3, CheckedAt, Zenon
<1>6. (n + 2) + 1 = n + 3 /\ (n + 2) - 1 = n + 1 /\ (n + 2) + 3 = n + 5 /\ (n + 3) + 1 = n + 4
  BY <1>1
<1>7. AtEnd(s, n + 5)
  BY <1>2 DEF AtEnd
<1>8. SumAt(s, n + 3, codes) <=>
        /\ hex2int(u) # NotHex /\ hex2int(l) # NotHex
        /\ minmea_checksum(codes) = {b + 4 : b \in hex2int(u)} \cup hex2int(l)
  <2> HIDE DEF n
  <2> QED
    BY <1>2, <1>6, Zenon DEF SumAt
<1> HIDE DEF n
<1> QED
  BY <1>2, <1>4, <1>5, <1>6, <1>7, <1>8, Zenon DEF n

\* A sentence that has lost its checksum: the loop stops at e, not at a '*'.
LEMMA CheckedBare ==
    ASSUME NEW s \in Seq(Bytes), NEW e \in 2..(Len(s) + 1), CharAt(s, 1) = DollarSign,
           ~Summed(CharAt(s, e)), CharAt(s, e) # Star,
           \A i \in 2..(e - 1) : Summed(s[i])
    PROVE  minmea_check(s) <=> strlen(s) <= MINMEA_MAX_LENGTH + 3 /\ AtEnd(s, e)
BY CheckedAt, Zenon

\* minmea_check: a sentence of any length and any characters, of which any one may
\* be changed into any other.
LEMMA CheckExact ==
    ASSUME NEW codes \in Seq(Bytes), \A i \in DOMAIN codes : Summed(codes[i]),
           NEW Others \in SUBSET Bytes
    PROVE  CheckCatches(codes, Others)
<1> DEFINE n == Len(codes)
           sum == minmea_checksum(codes)
           up == {b - 4 : b \in sum \cap 4..7}
           low == sum \cap 0..3
<1>1. sum \in Bytes /\ n \in Nat
  <2> DEFINE f == Checksums(codes)
  <2>1. f \in [0..n -> Bytes] /\ sum = f[n]
    BY ChecksumSteps DEF minmea_checksum
  <2>2. n \in 0..n /\ n \in Nat
    OBVIOUS
  <2> HIDE DEF f, sum, n
  <2> QED
    BY <2>1, <2>2
<1> HIDE DEF sum
<1>2. up \in HexDigits /\ low \in HexDigits
  <2>1. {} \in HexDigits
    BY DEF HexDigits
  <2> QED
    BY <1>1, <2>1, DigitsOfChecksum
<1>3. sum = {b + 4 : b \in up} \cup low
  BY <1>1, <1>2, DigitsOfChecksum
<1>4. ASSUME NEW x \in HexDigits, NEW y \in HexDigits, sum = {b + 4 : b \in x} \cup y
      PROVE  x = up /\ y = low
  BY <1>1, <1>4, DigitsOfChecksum, Zenon
<1>5. NotHex \notin HexDigits
  BY DEF NotHex, HexDigits
<1> HIDE DEF up, low
<1> SUFFICES ASSUME NEW upper \in WrittenAs(up), NEW lower \in WrittenAs(low)
             PROVE  LET s == Sentence(codes, upper, lower)
                    IN  /\ minmea_check(s) <=> Len(s) <= MINMEA_MAX_LENGTH + 3
                        /\ \A other \in OneChanged(s, Others) :
                              minmea_check(other) <=>
                                  strlen(other) <= MINMEA_MAX_LENGTH + 3 /\ Unprotected(s, other)
  BY Zenon DEF CheckCatches, up, low, sum
<1> DEFINE s == Sentence(codes, upper, lower)
<1>6. /\ upper \in Bytes /\ lower \in Bytes /\ hex2int(upper) = up /\ hex2int(lower) = low
      /\ Summed(upper) /\ Summed(lower) /\ up # NotHex /\ low # NotHex
  <2>1. upper \in Bytes /\ lower \in Bytes /\ hex2int(upper) = up /\ hex2int(lower) = low
    BY DEF WrittenAs
  <2>2. up # NotHex /\ low # NotHex
    BY <1>2, <1>5
  <2> QED
    BY <2>1, <2>2, HexIsText
<1>7. HasShape(s, codes, upper, lower)
  BY <1>6, SentenceShape
<1> HIDE DEF s
<1>8. /\ s \in Seq(Bytes) /\ Len(s) = n + 4 /\ DOMAIN s = 1..(n + 4) /\ s[1] = DollarSign
      /\ \A i \in 2..(n + 1) : s[i] = codes[i - 1] /\ Summed(s[i])
      /\ s[n + 2] = Star /\ s[n + 3] = upper /\ s[n + 4] = lower
  BY <1>1, <1>7 DEF HasShape
<1>9. \A i \in 2..(n + 4) : i # n + 2 => Summed(s[i])
  <2> SUFFICES ASSUME NEW i \in 2..(n + 4), i # n + 2 PROVE Summed(s[i])
    OBVIOUS
  <2>1. i \in 2..(n + 1) \/ i = n + 3 \/ i = n + 4
    BY <1>1
  <2> QED
    BY <1>6, <1>8, <2>1
<1>10. \A i \in 1..(n + 4) : s[i] # Nul /\ s[i] # Lf
  <2>1. DollarSign # Nul /\ DollarSign # Lf
    BY DEF DollarSign, Nul, Lf
  <2> SUFFICES ASSUME NEW i \in 1..(n + 4) PROVE s[i] # Nul /\ s[i] # Lf
    OBVIOUS
  <2>2. i = 1 \/ i = n + 2 \/ (i \in 2..(n + 4) /\ i # n + 2)
    BY <1>1
  <2> QED
    BY <1>8, <1>9, <2>1, <2>2, NoText
<1>11. minmea_check(s) <=> Len(s) <= MINMEA_MAX_LENGTH + 3
  <2>1. strlen(s) = Len(s)
    BY <1>8, <1>10, WholeLength
  <2>2. sum = {b + 4 : b \in hex2int(upper)} \cup hex2int(lower)
    BY <1>3, <1>6
  <2> QED
    BY <1>6, <1>7, <2>1, <2>2, CheckedWhole, Zenon DEF sum
<1>12. ASSUME NEW other \in OneChanged(s, Others)
       PROVE  minmea_check(other) <=>
                  strlen(other) <= MINMEA_MAX_LENGTH + 3 /\ Unprotected(s, other)
  <2> DEFINE star == n + 2
             Short == strlen(other) <= MINMEA_MAX_LENGTH + 3
  <2>1. other \in Seq(Bytes) /\ Len(other) = n + 4 /\ DOMAIN other = 1..(n + 4)
    BY <1>8, ChangedIn
  <2>2. PICK k \in 1..(n + 4) :
          other[k] # s[k] /\ \A i \in 1..(n + 4) : i # k => other[i] = s[i]
    BY <1>8, ChangedIn
  <2>3. star \in 1..(n + 4) /\ Len(s) - 2 = star /\ star + 1 = n + 3 /\ star + 2 = n + 4
    BY <1>1, <1>8
  <2>4. Unprotected(s, other) <=>
          \/ \E i \in 2..star : other[i] = Nul
          \/ Summed(other[star])
          \/ \E i \in {star + 1, star + 2} :
                other[i] # s[i] /\ hex2int(other[i]) = hex2int(s[i])
    BY <2>3, Zenon DEF Unprotected
  <2> HIDE DEF Short
  <2>5. ASSUME k # star PROVE ~Summed(other[star])
    BY <1>8, <2>2, <2>3, <2>5, NoText
  <2>6. ASSUME k \notin {star + 1, star + 2}
        PROVE  \A i \in {star + 1, star + 2} : other[i] = s[i]
    BY <1>1, <2>2, <2>3, <2>6
  <2>7. ASSUME k \notin 2..star PROVE \A i \in 2..star : other[i] # Nul
    BY <1>1, <1>10, <2>2, <2>7
  <2>8. \A i \in 1..(n + 4) : CharAt(other, i) = other[i]
    BY <2>1 DEF CharAt
  <2>9. ASSUME k # 1 PROVE CharAt(other, 1) = DollarSign
    BY <1>1, <1>8, <2>2, <2>8, <2>9
  <2>10. CASE k = 1
    <3>1. ~Unprotected(s, other)
      <4>1. k # star /\ k \notin {star + 1, star + 2} /\ k \notin 2..star
        BY <1>1, <2>10
      <4> QED
        BY <2>4, <2>5, <2>6, <2>7, <4>1
    <3>2. CharAt(other, 1) # DollarSign
      BY <1>1, <1>8, <2>2, <2>8, <2>10
    <3> QED
      BY <3>1, <3>2 DEF minmea_check
  <2>11. CASE k \in 2..(n + 1)
    <3>1. k # star /\ k \notin {star + 1, star + 2} /\ k \in 2..star /\ k # 1
      BY <1>1, <2>11
    <3>2. Unprotected(s, other) <=> other[k] = Nul
      <4>1. ASSUME NEW i \in 2..star, other[i] = Nul PROVE i = k
        <5>1. i \in 1..(n + 4)
          BY <1>1
        <5> QED
          BY <1>10, <2>2, <4>1, <5>1
      <4> QED
        BY <2>4, <2>5, <2>6, <3>1, <4>1
    <3>3. \A i \in 2..(k - 1) : Summed(other[i])
      <4> SUFFICES ASSUME NEW i \in 2..(k - 1) PROVE Summed(other[i])
        OBVIOUS
      <4>1. i \in 2..(n + 4) /\ i # n + 2 /\ i # k /\ i \in 1..(n + 4)
        BY <1>1, <2>11
      <4> QED
        BY <1>9, <2>2, <4>1
    <3>4. /\ k \in 2..(Len(other) + 1) /\ k \in Nat /\ k >= 1
          /\ k + 1 \in 2..(n + 4) /\ k + 1 \in 1..(n + 4) /\ k + 1 # k
          /\ k + 1 \in 1..Len(other)
      BY <1>1, <2>1, <2>11
    <3>5. other[k + 1] = s[k + 1] /\ (Summed(other[k + 1]) \/ other[k + 1] = Star)
      BY <1>8, <1>9, <2>2, <3>4
    <3>6. CASE Summed(other[k])
      <4> DEFINE t == SubSeq(other, 2, n + 1)
      <4>1. t \in Seq(Bytes) /\ Len(t) = n /\ \A i \in 1..n : t[i] = other[i + 1]
        BY <1>1, <2>1
      <4> HIDE DEF t
      <4>2. k - 1 \in 1..n /\ (k - 1) + 1 = k
        BY <1>1, <2>11
      <4>3. \A i \in 1..n : i + 1 \in 2..(n + 1) /\ i + 1 \in 1..(n + 4) /\ (i + 1) - 1 = i
                            /\ (i # k - 1 => i + 1 # k)
        BY <1>1, <2>11
      <4>4. \A i \in 1..n : s[i + 1] = codes[i]
        BY <1>8, <4>3
      <4>5. t[k - 1] # codes[k - 1] /\ \A i \in 1..n : i # k - 1 => t[i] = codes[i]
        BY <2>2, <4>1, <4>2, <4>3, <4>4
      <4>6. minmea_checksum(t) # sum
        BY <4>1, <4>2, <4>5, ChecksumDiffers DEF sum
      <4>7. \A i \in 2..(n + 1) : Summed(other[i])
        <5> SUFFICES ASSUME NEW i \in 2..(n + 1) PROVE Summed(other[i])
          OBVIOUS
        <5>1. i \in 1..(n + 4)
          BY <1>1
        <5> QED
          BY <1>8, <2>2, <3>6, <5>1
      <4>8. /\ other[n + 2] = Star /\ other[n + 3] = upper /\ other[n + 4] = lower
            /\ other[1] = DollarSign
        <5>1. n + 2 \in 1..(n + 4) /\ n + 3 \in 1..(n + 4) /\ n + 4 \in 1..(n + 4) /\ 1 \in 1..(n + 4)
              /\ n + 2 # k /\ n + 3 # k /\ n + 4 # k
          BY <1>1, <2>11
        <5> QED
          BY <1>8, <2>2, <3>1, <5>1
      <4>9. HasShape(other, t, upper, lower)
        <5>1. \A i \in 2..(n + 1) : other[i] = t[i - 1]
          <6> SUFFICES ASSUME NEW i \in 2..(n + 1) PROVE other[i] = t[i - 1]
            OBVIOUS
          <6>1. i - 1 \in 1..n /\ (i - 1) + 1 = i
            BY <1>1
          <6> QED
            BY <4>1, <6>1
        <5> QED
          BY <2>1, <4>1, <4>7, <4>8, <5>1 DEF HasShape
      <4>10. ~minmea_check(other)
        BY <1>3, <1>6, <4>1, <4>6, <4>9, CheckedWhole, Zenon
      <4>11. other[k] # Nul
        BY <3>6, NoText
      <4> QED
        BY <3>2, <4>10, <4>11
    <3>7. CASE other[k] = Star
      <4>1. CharAt(other, k) = Star
        BY <2>8, <3>7
      <4>2. ASSUME minmea_check(other)
            PROVE  SumAt(other, k + 1, SubSeq(other, 2, k - 1)) /\ AtEnd(other, k + 3)
        <5>1. ~Summed(CharAt(other, k))
          BY <4>1, NoText
        <5>2. other \in Seq(Bytes) /\ k \in 2..(Len(other) + 1)
          BY <2>1, <3>4
        <5> QED
          BY <3>3, <4>1, <4>2, <5>1, <5>2, CheckedAt, Zenon
      <4>3. CASE k = n + 1
        <5>1. CharAt(other, k + 1) = Star
          BY <1>1, <1>8, <2>8, <3>4, <3>5, <4>3
        <5>2. ~SumAt(other, k + 1, SubSeq(other, 2, k - 1))
          BY <5>1, NoText, Zenon DEF SumAt
        <5> QED
          BY <3>2, <3>7, <4>2, <5>2, NoText
      <4>4. CASE k = n
        <5>1. n + 2 \in 1..(n + 4) /\ n + 2 # k /\ (k + 1) + 1 = n + 2
          BY <1>1, <4>4
        <5>2. CharAt(other, (k + 1) + 1) = Star
          BY <1>8, <2>2, <2>8, <5>1
        <5>3. ~SumAt(other, k + 1, SubSeq(other, 2, k - 1))
          BY <5>2, NoText, Zenon DEF SumAt
        <5> QED
          BY <3>2, <3>7, <4>2, <5>3, NoText
      <4>5. CASE k < n
        <5>1. /\ k + 3 \in Nat /\ k + 3 >= 1 /\ k + 3 \in 1..(n + 4) /\ k + 3 # k
              /\ (k + 3) + 1 \in 1..(n + 4) /\ (k + 3) + 1 # k /\ (k + 3) + 1 \in 1..Len(other)
              /\ (k + 3) + 1 \in 2..(n + 4)
          BY <1>1, <2>1, <2>11, <4>5
        <5>2. /\ other[k + 3] # Nul
              /\ Summed(other[(k + 3) + 1]) \/ other[(k + 3) + 1] = Star
          BY <1>8, <1>9, <1>10, <2>2, <5>1
        <5>3. ~AtEnd(other, k + 3)
          BY <2>1, <5>1, <5>2, NotAtEnd
        <5> QED
          BY <3>2, <3>7, <4>2, <5>3, NoText
      <4> QED
        BY <1>1, <2>11, <4>3, <4>4, <4>5
    <3>8. CASE ~Summed(other[k]) /\ other[k] # Star
      <4>1. minmea_check(other) <=> Short /\ AtEnd(other, k)
        <5>1. /\ CharAt(other, 1) = DollarSign
              /\ ~Summed(CharAt(other, k)) /\ CharAt(other, k) # Star
          BY <2>8, <2>9, <3>1, <3>8
        <5>2. other \in Seq(Bytes) /\ k \in 2..(Len(other) + 1)
          BY <2>1, <3>4
        <5> QED
          BY <3>3, <5>1, <5>2, CheckedBare, Zenon DEF Short
      <4>2. CASE other[k] = Nul
        BY <2>8, <3>2, <4>1, <4>2 DEF AtEnd, Short
      <4>3. CASE other[k] # Nul
        <5>1. ~AtEnd(other, k)
          BY <2>1, <3>4, <3>5, <4>3, NotAtEnd
        <5> QED
          BY <3>2, <4>1, <4>3, <5>1
      <4> QED
        BY <4>2, <4>3
    <3> QED
      BY <3>6, <3>7, <3>8
  <2>12. CASE k = star
    <3>1. k \notin {star + 1, star + 2} /\ k # 1
      BY <1>1, <2>12
    <3>2. \A i \in 2..star : other[i] = Nul => i = star
      <4> SUFFICES ASSUME NEW i \in 2..star, other[i] = Nul PROVE i = star
        OBVIOUS
      <4>1. i \in 1..(n + 4)
        BY <1>1
      <4> QED
        BY <1>10, <2>2, <2>12, <4>1
    <3>3. star \in 2..star
      BY <1>1
    <3>4. Unprotected(s, other) <=> other[star] = Nul \/ Summed(other[star])
      BY <2>4, <2>6, <3>1, <3>2, <3>3
    <3>5. \A i \in 2..(n + 4) : i # star => Summed(other[i])
      <4> SUFFICES ASSUME NEW i \in 2..(n + 4), i # star PROVE Summed(other[i])
        OBVIOUS
      <4>1. i \in 1..(n + 4)
        BY <1>1
      <4> QED
        BY <1>9, <2>2, <2>12, <4>1
    <3>6. CASE Summed(other[star])
      <4>1. /\ n + 5 \in 2..(Len(other) + 1) /\ CharAt(other, n + 5) = Nul
            /\ \A i \in 2..((n + 5) - 1) : Summed(other[i])
        BY <1>1, <2>1, <3>5, <3>6 DEF CharAt
      <4>2. AtEnd(other, n + 5)
        BY <4>1 DEF AtEnd
      <4>3. minmea_check(other) <=> Short
        <5>1. /\ CharAt(other, 1) = DollarSign
              /\ ~Summed(CharAt(other, n + 5)) /\ CharAt(other, n + 5) # Star
          BY <2>9, <3>1, <4>1, NoText
        <5> QED
          BY <2>1, <4>1, <4>2, <5>1, CheckedBare, Zenon DEF Short
      <4> QED
        BY <3>4, <3>6, <4>3 DEF Short
    <3>7. CASE ~Summed(other[star])
      <4>1. star \in 2..(Len(other) + 1) /\ \A i \in 2..(star - 1) : Summed(other[i])
        BY <1>1, <2>1, <3>5
      <4>2. other[star] # Star /\ CharAt(other, star) = other[star]
        BY <1>8, <2>2, <2>3, <2>8, <2>12
      <4>3. minmea_check(other) <=> Short /\ AtEnd(other, star)
        <5>1. /\ CharAt(other, 1) = DollarSign
              /\ ~Summed(CharAt(other, star)) /\ CharAt(other, star) # Star
          BY <2>9, <3>1, <3>7, <4>2
        <5> QED
          BY <2>1, <4>1, <5>1, CheckedBare, Zenon DEF Short
      <4>4. CASE other[star] = Nul
        BY <3>4, <4>2, <4>3, <4>4 DEF AtEnd, Short
      <4>5. CASE other[star] # Nul
        <5>1. /\ star \in Nat /\ star >= 1 /\ star + 1 \in 1..Len(other)
              /\ star + 1 \in 2..(n + 4) /\ star + 1 # star
          BY <1>1, <2>1
        <5>2. ~AtEnd(other, star)
          BY <2>1, <3>5, <4>5, <5>1, NotAtEnd
        <5> QED
          BY <3>4, <3>7, <4>3, <4>5, <5>2
      <4> QED
        BY <4>4, <4>5
    <3> QED
      BY <3>6, <3>7
  <2>13. CASE k \in {star + 1, star + 2}
    <3>1. k # star /\ k \notin 2..star /\ k # 1 /\ n + 3 # n + 4
          /\ n + 3 \in 1..(n + 4) /\ n + 4 \in 1..(n + 4)
      BY <1>1, <2>13
    <3>2. Unprotected(s, other) <=> hex2int(other[k]) = hex2int(s[k])
      <4>1. ASSUME NEW i \in {star + 1, star + 2}, other[i] # s[i] PROVE i = k
        BY <2>2, <2>3, <3>1, <4>1
      <4> QED
        BY <2>2, <2>4, <2>5, <2>7, <2>13, <3>1, <4>1
    <3> DEFINE u == other[n + 3]
               l == other[n + 4]
    <3>3. u \in Bytes /\ l \in Bytes
      BY <1>1, <2>1
    <3>4. HasShape(other, codes, u, l)
      <4>1. other[1] = DollarSign /\ other[n + 2] = Star
        BY <1>1, <1>8, <2>2, <2>3, <3>1
      <4>2. \A i \in 2..(n + 1) : other[i] = codes[i - 1] /\ Summed(other[i])
        <5> SUFFICES ASSUME NEW i \in 2..(n + 1) PROVE other[i] = s[i]
          BY <1>8
        <5>1. i \in 1..(n + 4) /\ i # k
          BY <1>1, <3>1
        <5> QED
          BY <2>2, <5>1
      <4> QED
        BY <2>1, <4>1, <4>2 DEF HasShape
    <3>5. \/ k = n + 3 /\ other[k] = u /\ s[k] = upper /\ l = lower
          \/ k = n + 4 /\ other[k] = l /\ s[k] = lower /\ u = upper
      BY <1>8, <2>2, <2>3, <2>13, <3>1
    <3> HIDE DEF u, l
    <3>6. minmea_check(other) <=>
            /\ Short
            /\ hex2int(u) # NotHex /\ hex2int(l) # NotHex
            /\ sum = {b + 4 : b \in hex2int(u)} \cup hex2int(l)
      BY <3>3, <3>4, CheckedWhole, Zenon DEF Short, sum
    <3>7. (hex2int(u) # NotHex => hex2int(u) \in HexDigits)
          /\ (hex2int(l) # NotHex => hex2int(l) \in HexDigits)
      BY <3>3, HexIsText
    <3>8. minmea_check(other) <=> Short /\ hex2int(u) = up /\ hex2int(l) = low
      <4>1. ASSUME minmea_check(other) PROVE hex2int(u) = up /\ hex2int(l) = low
        BY <1>4, <3>6, <3>7, <4>1, Zenon
      <4>2. ASSUME hex2int(u) = up, hex2int(l) = low
            PROVE  /\ hex2int(u) # NotHex /\ hex2int(l) # NotHex
                   /\ sum = {b + 4 : b \in hex2int(u)} \cup hex2int(l)
        BY <1>3, <1>6, <4>2, Zenon
      <4> QED
        BY <3>6, <4>1, <4>2, Zenon
    <3> QED
      BY <1>6, <3>2, <3>5, <3>8, Zenon DEF Short
  <2>14. k = 1 \/ k \in 2..(n + 1) \/ k = star \/ k \in {star + 1, star + 2}
    BY <1>1
  <2> QED
    BY <2>10, <2>11, <2>12, <2>13, <2>14
<1> QED
  BY <1>11, <1>12, Zenon DEF s

\* One step of the CRC loses nothing.
LEMMA CrcBitKeeps ==
    ASSUME NEW a \in Words, NEW b \in Words
    PROVE  CrcBit(a) \in Words /\ (CrcBit(a) = CrcBit(b) <=> a = b)
<1> DEFINE sh(x) == {d - 1 : d \in x \ {0}}
           Bit(x) == IF 0 \in x THEN SymDiff(sh(x), {0, 13, 15}) ELSE sh(x)
<1>1. ASSUME NEW x \in Words
      PROVE  /\ sh(x) \in Words /\ 15 \notin sh(x) /\ \A d \in 1..15 : d \in x <=> d - 1 \in sh(x)
             /\ Bit(x) \in Words /\ (15 \in Bit(x) <=> 0 \in x)
  <2>1. sh(x) \subseteq 0..14 /\ \A d \in 1..15 : d \in x <=> d - 1 \in sh(x)
    BY DEF Words
  <2> HIDE DEF sh
  <2> QED
    BY <2>1 DEF Words, SymDiff
<1>2. CrcBit(a) = Bit(a) /\ CrcBit(b) = Bit(b)
  BY DEF CrcBit
<1>3. ASSUME Bit(a) = Bit(b) PROVE a = b
  <2>1. 0 \in a <=> 0 \in b
    BY <1>1, <1>3
  <2>2. sh(a) = sh(b)
    <3> HIDE DEF sh
    <3>1. CASE 0 \in a
      BY <1>3, <2>1, <3>1, XorDiffers
    <3>2. CASE 0 \notin a
      BY <1>3, <2>1, <3>2
    <3> QED
      BY <3>1, <3>2
  <2>3. \A d \in 1..15 : d \in a <=> d \in b
    <3> HIDE DEF sh
    <3> QED
      BY <1>1, <2>2
  <2>4. a \subseteq 0..15 /\ b \subseteq 0..15
    BY DEF Words
  <2>5. \A d \in 0..15 : d \in a <=> d \in b
    <3> TAKE d \in 0..15
    <3>1. d = 0 \/ d \in 1..15
      OBVIOUS
    <3> QED
      BY <2>1, <2>3, <3>1
  <2> QED
    BY <2>4, <2>5
<1>4. Bit(a) \in Words
  BY <1>1
<1> HIDE DEF Bit
<1> QED
  BY <1>2, <1>3, <1>4

\* The eight steps of a byte.
LEMMA CrcBitSteps ==
    ASSUME NEW a \in Words
    PROVE  /\ CrcBits(a) \in [0..8 -> Words]
           /\ CrcBits(a)[0] = a
           /\ \A i \in 1..8 : CrcBits(a)[i] = CrcBit(CrcBits(a)[i - 1])
<1> DEFINE m == 8
           tau == [i \in 1..m |-> [x \in Words |-> CrcBit(x)]]
           Def(h) == h = [i \in 0..8 |-> IF i = 0 THEN a ELSE CrcBit(h[i - 1])]
           g == CrcBits(a)
<1>1. m \in Nat /\ a \in Words
  OBVIOUS
<1>2. ASSUME NEW i \in 1..m, NEW x \in Words PROVE CrcBit(x) \in Words
  BY CrcBitKeeps
<1>3. tau \in [1..m -> [Words -> Words]]
  BY <1>2
<1>4. PICK f \in Runs(m, Words, a, tau) : TRUE
  <2> HIDE DEF m, tau
  <2> QED
    BY <1>1, <1>3, StepsExist
<1>5. f \in [0..m -> Words] /\ f[0] = a /\ \A i \in 1..m : f[i] = CrcBit(f[i - 1])
  <2>1. f \in [0..m -> Words] /\ f[0] = a /\ \A i \in 1..m : f[i] = tau[i][f[i - 1]]
    BY <1>4 DEF Runs
  <2>2. \A i \in 1..m : i - 1 \in 0..m
    BY <1>1
  <2> QED
    BY <2>1, <2>2
<1>6. Def(f)
  BY <1>1, <1>5
<1>7. g = CHOOSE h : Def(h)
  BY DEF CrcBits
<1>8. Def(g)
  BY <1>6, <1>7
<1> HIDE DEF g
<1>9. g[0] = a /\ \A i \in 1..m : g[i] = CrcBit(g[i - 1])
  <2>1. \A i \in 0..m : g[i] = IF i = 0 THEN a ELSE CrcBit(g[i - 1])
    BY <1>8, Zenon
  <2>2. 0 \in 0..m /\ \A i \in 1..m : i \in 0..m /\ i # 0
    BY <1>1
  <2> QED
    BY <2>1, <2>2
<1>10. \A i \in 0..m : g[i] \in Words
  <2> HIDE DEF m
  <2>1. \A i \in 1..m : g[i - 1] \in Words => g[i] \in Words
    BY <1>2, <1>9
  <2> QED
    BY <1>1, <1>9, <2>1, StaysIn
<1> QED
  BY <1>8, <1>9, <1>10 DEF g

\* They lose nothing either: a byte tells apart the words before it, and a word the
\* bytes after it.
LEMMA CrcByteKeeps ==
    ASSUME NEW a \in Words, NEW b \in Words, NEW x \in Bytes, NEW y \in Bytes
    PROVE  /\ CrcByte(a, x) \in Words
           /\ CrcByte(a, x) = CrcByte(b, x) <=> a = b
           /\ CrcByte(a, x) = CrcByte(a, y) <=> x = y
<1>1. ASSUME NEW v \in Words, NEW w \in Words
      PROVE  CrcBits(v)[8] \in Words /\ (CrcBits(v)[8] = CrcBits(w)[8] <=> v = w)
  <2> DEFINE f == CrcBits(v)
             g == CrcBits(w)
             T == {i \in 0..8 : f[i] = g[i] <=> v = w}
  <2>1. /\ f \in [0..8 -> Words] /\ f[0] = v /\ \A i \in 1..8 : f[i] = CrcBit(f[i - 1])
        /\ g \in [0..8 -> Words] /\ g[0] = w /\ \A i \in 1..8 : g[i] = CrcBit(g[i - 1])
    BY CrcBitSteps
  <2> HIDE DEF f, g
  <2>2. T \in SUBSET (0..8) /\ 0 \in T
    BY <2>1
  <2>3. ASSUME NEW i \in 1..8, i - 1 \in T PROVE i \in T
    <3>1. /\ f[i - 1] \in Words /\ g[i - 1] \in Words
          /\ f[i] = CrcBit(f[i - 1]) /\ g[i] = CrcBit(g[i - 1])
      BY <2>1
    <3> QED
      BY <2>3, <3>1, CrcBitKeeps
  <2> HIDE DEF T
  <2>4. T = 0..8
    BY <2>2, <2>3, Climb
  <2> QED
    BY <2>1, <2>4 DEF T, f, g
<1>2. SymDiff(a, x) \in Words /\ SymDiff(b, x) \in Words /\ SymDiff(a, y) \in Words
  BY DEF SymDiff, Words, Bytes
<1> QED
  BY <1>1, <1>2, XorDiffers DEF CrcByte

\* The loop over the bytes.
LEMMA CrcByteSteps ==
    ASSUME NEW buf \in Seq(Bytes)
    PROVE  /\ CrcBytes(buf) \in [0..Len(buf) -> Words]
           /\ CrcBytes(buf)[0] = (0..15)
           /\ \A i \in 1..Len(buf) : CrcBytes(buf)[i] = CrcByte(CrcBytes(buf)[i - 1], buf[i])
<1> DEFINE m == Len(buf)
           tau == [i \in 1..m |-> [x \in Words |-> CrcByte(x, buf[i])]]
           Def(h) == h = [i \in 0..Len(buf) |-> IF i = 0 THEN (0..15) ELSE CrcByte(h[i - 1], buf[i])]
           g == CrcBytes(buf)
<1>1. m \in Nat /\ (0..15) \in Words
  BY DEF Words
<1>2. ASSUME NEW i \in 1..m, NEW x \in Words PROVE CrcByte(x, buf[i]) \in Words
  BY CrcByteKeeps
<1>3. tau \in [1..m -> [Words -> Words]]
  BY <1>2
<1>4. PICK f \in Runs(m, Words, (0..15), tau) : TRUE
  <2> HIDE DEF m, tau
  <2> QED
    BY <1>1, <1>3, StepsExist
<1>5. f \in [0..m -> Words] /\ f[0] = (0..15) /\ \A i \in 1..m : f[i] = CrcByte(f[i - 1], buf[i])
  <2>1. f \in [0..m -> Words] /\ f[0] = (0..15) /\ \A i \in 1..m : f[i] = tau[i][f[i - 1]]
    BY <1>4 DEF Runs
  <2>2. \A i \in 1..m : i - 1 \in 0..m
    BY <1>1
  <2> QED
    BY <2>1, <2>2
<1>6. Def(f)
  BY <1>1, <1>5
<1>7. g = CHOOSE h : Def(h)
  BY DEF CrcBytes
<1>8. Def(g)
  BY <1>6, <1>7
<1> HIDE DEF g
<1>9. g[0] = (0..15) /\ \A i \in 1..m : g[i] = CrcByte(g[i - 1], buf[i])
  <2>1. \A i \in 0..m : g[i] = IF i = 0 THEN (0..15) ELSE CrcByte(g[i - 1], buf[i])
    BY <1>8, Zenon
  <2>2. 0 \in 0..m /\ \A i \in 1..m : i \in 0..m /\ i # 0
    BY <1>1
  <2> QED
    BY <2>1, <2>2
<1>10. \A i \in 0..m : g[i] \in Words
  <2> HIDE DEF m
  <2>1. \A i \in 1..m : g[i - 1] \in Words => g[i] \in Words
    BY <1>2, <1>9
  <2> QED
    BY <1>1, <1>9, <2>1, StaysIn
<1> QED
  BY <1>8, <1>9, <1>10 DEF g

\* calculate_crc: one byte that is another one changes the check sum, in a message
\* of any length.
LEMMA CrcExact ==
    ASSUME NEW buf \in Seq(Bytes), NEW Sample \in SUBSET Bytes
    PROVE  CrcCatches(buf, Sample)
<1> SUFFICES ASSUME NEW other \in OneChanged(buf, Sample)
             PROVE  calculate_crc(other) # calculate_crc(buf)
  BY DEF CrcCatches
<1> DEFINE n == Len(buf)
           f == CrcBytes(buf)
           g == CrcBytes(other)
<1>1. n \in Nat /\ other \in Seq(Bytes) /\ Len(other) = n
  BY ChangedIn
<1>2. PICK k \in 1..n : other[k] # buf[k] /\ \A i \in 1..n : i # k => other[i] = buf[i]
  BY ChangedIn
<1>3. /\ f \in [0..n -> Words] /\ f[0] = 0..15
      /\ \A i \in 1..n : f[i] = CrcByte(f[i - 1], buf[i])
  BY CrcByteSteps
<1>4. /\ g \in [0..n -> Words] /\ g[0] = 0..15
      /\ \A i \in 1..n : g[i] = CrcByte(g[i - 1], other[i])
  BY <1>1, CrcByteSteps
<1>5. \A i \in 1..n : buf[i] \in Bytes /\ other[i] \in Bytes
  BY <1>1
<1> HIDE DEF f, g, n
<1>6. \A i \in 1..n : f[i - 1] \in Words /\ g[i - 1] \in Words
  BY <1>1, <1>3, <1>4
<1>7. ASSUME NEW i \in 1..n, i # k PROVE f[i - 1] = g[i - 1] <=> f[i] = g[i]
  BY <1>2, <1>3, <1>4, <1>5, <1>6, <1>7, CrcByteKeeps
<1>8. f[k - 1] = g[k - 1] => f[k] # g[k]
  BY <1>2, <1>3, <1>4, <1>5, <1>6, CrcByteKeeps
<1>9. f[0] = g[0]
  BY <1>3, <1>4
<1>10. f[n] # g[n]
  <2>1. \A i \in 1..n : i # k => (f[i - 1] = g[i - 1] <=> f[i] = g[i])
    BY <1>7
  <2> QED
    BY <1>1, <1>8, <1>9, <2>1, OneInputDiffers, SMT
<1> QED
  BY <1>1, <1>10 DEF calculate_crc, f, g, n

-----------------------------------------------------------------------------
(* minmea_scan *)

\* The variables of the scanner.
ScanStates == [sign : {-1, 0, 1}, value : Int, scale : Nat,
               state : {"go", "stop", "error", "overflow"}]

LEMMA ScanCharType ==
    ASSUME NEW x \in ScanStates, NEW c PROVE ScanChar(x, c) \in ScanStates
<1>1. Digit(c) \in 0..9
  BY DEF Digit
<1>2. ScanDigit(x, Digit(c)) \in ScanStates
  <2> DEFINE d == Digit(c)
             v == IF x.value = -1 THEN 0 ELSE x.value
             end == IF x.scale # 0 THEN "stop" ELSE "error"
             on == IF 10 * x.scale <= MAXINT THEN "go" ELSE "overflow"
  <2>1. 10 * v + d \in Int /\ 10 * x.scale \in Nat
    BY <1>1 DEF ScanStates
  <2>2. end \in {"go", "stop", "error", "overflow"} /\ on \in {"go", "stop", "error", "overflow"}
    OBVIOUS
  <2>3. ScanDigit(x, d) \in {[x EXCEPT !.state = end],
                             [x EXCEPT !.value = 10 * v + d, !.scale = 10 * x.scale, !.state = on]}
    BY DEF ScanDigit
  <2> HIDE DEF v, d, end, on
  <2> QED
    BY <2>1, <2>2, <2>3 DEF ScanStates, d
<1> QED
  BY <1>2 DEF ScanChar, ScanStates

\* The loop over the characters.
LEMMA ScanSteps ==
    ASSUME NEW field, Len(field) \in Nat
    PROVE  /\ Scan(field) \in [0..Len(field) -> ScanStates]
           /\ Scan(field)[0] = ScanStart
           /\ \A i \in 1..Len(field) : Scan(field)[i] = ScanChar(Scan(field)[i - 1], field[i])
<1> DEFINE m == Len(field)
           tau == [i \in 1..m |-> [x \in ScanStates |-> ScanChar(x, field[i])]]
           Def(h) == h = [i \in 0..Len(field) |-> IF i = 0 THEN ScanStart ELSE ScanChar(h[i - 1], field[i])]
           g == Scan(field)
<1>1. m \in Nat /\ ScanStart \in ScanStates
  BY DEF ScanStart, ScanStates
<1>2. ASSUME NEW i \in 1..m, NEW x \in ScanStates PROVE ScanChar(x, field[i]) \in ScanStates
  BY ScanCharType
<1>3. tau \in [1..m -> [ScanStates -> ScanStates]]
  BY <1>2
<1>4. PICK f \in Runs(m, ScanStates, ScanStart, tau) : TRUE
  <2> HIDE DEF m, tau
  <2> QED
    BY <1>1, <1>3, StepsExist
<1>5. f \in [0..m -> ScanStates] /\ f[0] = ScanStart /\ \A i \in 1..m : f[i] = ScanChar(f[i - 1], field[i])
  <2>1. f \in [0..m -> ScanStates] /\ f[0] = ScanStart /\ \A i \in 1..m : f[i] = tau[i][f[i - 1]]
    BY <1>4 DEF Runs
  <2>2. \A i \in 1..m : i - 1 \in 0..m
    BY <1>1
  <2> QED
    BY <2>1, <2>2
<1>6. Def(f)
  BY <1>1, <1>5
<1>7. g = CHOOSE h : Def(h)
  BY DEF Scan
<1>8. Def(g)
  BY <1>6, <1>7
<1> HIDE DEF g
<1>9. g[0] = ScanStart /\ \A i \in 1..m : g[i] = ScanChar(g[i - 1], field[i])
  <2>1. \A i \in 0..m : g[i] = IF i = 0 THEN ScanStart ELSE ScanChar(g[i - 1], field[i])
    BY <1>8, Zenon
  <2>2. 0 \in 0..m /\ \A i \in 1..m : i \in 0..m /\ i # 0
    BY <1>1
  <2> QED
    BY <2>1, <2>2
<1>10. \A i \in 0..m : g[i] \in ScanStates
  <2> HIDE DEF m
  <2>1. \A i \in 1..m : g[i - 1] \in ScanStates => g[i] \in ScanStates
    BY <1>2, <1>9
  <2> QED
    BY <1>1, <1>9, <2>1, StaysIn
<1> QED
  BY <1>8, <1>9, <1>10 DEF g

\* What the digits say, one after the other.
NumbersRun(N, field, s, w, p, f) ==
    /\ N \in [0..(w + f) -> Nat]
    /\ N[0] = 0
    /\ \A i \in 1..(w + f) :
          N[i] = 10 * N[i - 1] + Digit(field[s + i + (IF i <= w THEN 0 ELSE p)])

LEMMA NumberSteps ==
    ASSUME NEW field, NEW s, NEW w \in Nat, NEW p, NEW f \in Nat
    PROVE  NumbersRun(Numbers(field, s, w, p, f), field, s, w, p, f)
<1> DEFINE m == (w + f)
           tau == [i \in 1..m |-> [x \in Nat |-> 10 * x + Digit(field[s + i + (IF i <= w THEN 0 ELSE p)])]]
           Def(h) == h = [i \in 0..(w + f) |-> IF i = 0 THEN 0 ELSE 10 * h[i - 1] + Digit(field[s + i + (IF i <= w THEN 0 ELSE p)])]
           g == Numbers(field, s, w, p, f)
<1>1. m \in Nat /\ 0 \in Nat
  OBVIOUS
<1>2. ASSUME NEW i \in 1..m, NEW x \in Nat PROVE 10 * x + Digit(field[s + i + (IF i <= w THEN 0 ELSE p)]) \in Nat
  BY DEF Digit
<1>3. tau \in [1..m -> [Nat -> Nat]]
  BY <1>2
<1>4. PICK r \in Runs(m, Nat, 0, tau) : TRUE
  <2> HIDE DEF m, tau
  <2> QED
    BY <1>1, <1>3, StepsExist
<1>5. r \in [0..m -> Nat] /\ r[0] = 0 /\ \A i \in 1..m : r[i] = 10 * r[i - 1] + Digit(field[s + i + (IF i <= w THEN 0 ELSE p)])
  <2>1. r \in [0..m -> Nat] /\ r[0] = 0 /\ \A i \in 1..m : r[i] = tau[i][r[i - 1]]
    BY <1>4 DEF Runs
  <2>2. \A i \in 1..m : i - 1 \in 0..m
    BY <1>1
  <2> QED
    BY <2>1, <2>2
<1>6. Def(r)
  BY <1>1, <1>5
<1>7. g = CHOOSE h : Def(h)
  BY DEF Numbers
<1>8. Def(g)
  BY <1>6, <1>7
<1> HIDE DEF g
<1>9. g[0] = 0 /\ \A i \in 1..m : g[i] = 10 * g[i - 1] + Digit(field[s + i + (IF i <= w THEN 0 ELSE p)])
  <2>1. \A i \in 0..m : g[i] = IF i = 0 THEN 0 ELSE 10 * g[i - 1] + Digit(field[s + i + (IF i <= w THEN 0 ELSE p)])
    BY <1>8, Zenon
  <2>2. 0 \in 0..m /\ \A i \in 1..m : i \in 0..m /\ i # 0
    BY <1>1
  <2> QED
    BY <2>1, <2>2
<1>10. \A i \in 0..m : g[i] \in Nat
  <2> HIDE DEF m
  <2>1. \A i \in 1..m : g[i - 1] \in Nat => g[i] \in Nat
    BY <1>2, <1>9
  <2> QED
    BY <1>1, <1>9, <2>1, StaysIn
<1> QED
  BY <1>8, <1>9, <1>10 DEF g, NumbersRun

\* Powers of ten.
LEMMA PowerSteps ==
    ASSUME NEW n \in Nat
    PROVE  /\ PowersOfTen(n) \in [0..n -> Nat]
           /\ PowersOfTen(n)[0] = 1
           /\ \A i \in 1..n : PowersOfTen(n)[i] = 10 * PowersOfTen(n)[i - 1]
<1> DEFINE m == n
           tau == [i \in 1..m |-> [x \in Nat |-> 10 * x]]
           Def(h) == h = [i \in 0..n |-> IF i = 0 THEN 1 ELSE 10 * h[i - 1]]
           g == PowersOfTen(n)
<1>1. m \in Nat /\ 1 \in Nat
  OBVIOUS
<1>2. ASSUME NEW i \in 1..m, NEW x \in Nat PROVE 10 * x \in Nat
  OBVIOUS
<1>3. tau \in [1..m -> [Nat -> Nat]]
  BY <1>2
<1>4. PICK f \in Runs(m, Nat, 1, tau) : TRUE
  <2> HIDE DEF m, tau
  <2> QED
    BY <1>1, <1>3, StepsExist
<1>5. f \in [0..m -> Nat] /\ f[0] = 1 /\ \A i \in 1..m : f[i] = 10 * f[i - 1]
  <2>1. f \in [0..m -> Nat] /\ f[0] = 1 /\ \A i \in 1..m : f[i] = tau[i][f[i - 1]]
    BY <1>4 DEF Runs
  <2>2. \A i \in 1..m : i - 1 \in 0..m
    BY <1>1
  <2> QED
    BY <2>1, <2>2
<1>6. Def(f)
  BY <1>1, <1>5
<1>7. g = CHOOSE h : Def(h)
  BY DEF PowersOfTen
<1>8. Def(g)
  BY <1>6, <1>7
<1> HIDE DEF g
<1>9. g[0] = 1 /\ \A i \in 1..m : g[i] = 10 * g[i - 1]
  <2>1. \A i \in 0..m : g[i] = IF i = 0 THEN 1 ELSE 10 * g[i - 1]
    BY <1>8, Zenon
  <2>2. 0 \in 0..m /\ \A i \in 1..m : i \in 0..m /\ i # 0
    BY <1>1
  <2> QED
    BY <2>1, <2>2
<1>10. \A i \in 0..m : g[i] \in Nat
  <2> HIDE DEF m
  <2>1. \A i \in 1..m : g[i - 1] \in Nat => g[i] \in Nat
    BY <1>2, <1>9
  <2> QED
    BY <1>1, <1>9, <2>1, StaysIn
<1> QED
  BY <1>8, <1>9, <1>10 DEF g

\* A function that never falls.
LEMMA Rises ==
    ASSUME NEW n \in Nat, NEW f \in [0..n -> Nat], \A i \in 1..n : f[i - 1] <= f[i]
    PROVE  \A i, j \in 0..n : i <= j => f[i] <= f[j]
<1> TAKE i \in 0..n
<1> DEFINE T == {j \in 0..n : i <= j => f[i] <= f[j]}
<1>1. T \in SUBSET (0..n) /\ 0 \in T
  OBVIOUS
<1>2. ASSUME NEW j \in 1..n, j - 1 \in T PROVE j \in T
  <2>1. f[j - 1] <= f[j] /\ f[j - 1] \in Nat /\ f[j] \in Nat /\ f[i] \in Nat /\ j \in 0..n
    OBVIOUS
  <2> QED
    BY <1>2, <2>1
<1> HIDE DEF T
<1>3. T = 0..n
  BY <1>1, <1>2, Climb
<1> QED
  BY <1>3 DEF T

\* One digit: it is taken if the number with it fits.
DigitRead(x, number, y) ==
    /\ number > MAXINT => y = [x EXCEPT !.state = IF x.scale # 0 THEN "stop" ELSE "error"]
    /\ number <= MAXINT =>
          y = [x EXCEPT !.value = number, !.scale = 10 * x.scale,
                        !.state = IF 10 * x.scale <= MAXINT THEN "go" ELSE "overflow"]

LEMMA DigitStep ==
    ASSUME NEW x \in ScanStates, x.state = "go", NEW c \in Digits, NEW v \in Nat,
           v = IF x.value = -1 THEN 0 ELSE x.value
    PROVE  DigitRead(x, 10 * v + Digit(c), ScanChar(x, c))
<1> DEFINE d == Digit(c)
<1>1. d \in 0..9
  BY DEF Digit
<1>2. c \notin {"+", "-"} /\ c # "." /\ c # "space"
  BY DEF Digits
<1>3. ScanChar(x, c) = ScanDigit(x, d)
  BY <1>2 DEF ScanChar
<1> HIDE DEF d
<1>4. DigitFits(v, d) <=> 10 * v + d <= MAXINT
  BY <1>1, MinmeaAssumption DEF DigitFits
<1>5. 10 * v + d \in Int /\ MAXINT \in Int
  BY <1>1, MinmeaAssumption
<1>6. ScanDigit(x, d) = IF ~DigitFits(v, d)
                        THEN [x EXCEPT !.state = IF x.scale # 0 THEN "stop" ELSE "error"]
                        ELSE [x EXCEPT !.value = 10 * v + d, !.scale = 10 * x.scale,
                                       !.state = IF 10 * x.scale <= MAXINT THEN "go" ELSE "overflow"]
  BY DEF ScanDigit
<1>7. CASE 10 * v + d > MAXINT
  BY <1>1, <1>3, <1>4, <1>5, <1>6, <1>7 DEF DigitRead, d
<1>8. CASE 10 * v + d <= MAXINT
  BY <1>1, <1>3, <1>4, <1>5, <1>6, <1>8 DEF DigitRead, d
<1> QED
  BY <1>5, <1>7, <1>8 DEF d

\* The scanner's variables before the digits, after digits before the point, and
\* after k digits behind it: a digit that would make the number too large is an
\* error before the point and the end after it; j digits are kept.
SignOf(field, s, g) == IF g = 0 THEN 0 ELSE IF field[s + 1] = "+" THEN 1 ELSE -1

WholeRead(number, value, sign, x) ==
    IF number <= MAXINT
    THEN x = [sign |-> sign, value |-> value, scale |-> 0, state |-> "go"]
    ELSE x.state = "error"

ReadUpTo(N, P, sign, v, j, k, x) ==
    /\ N[j] <= MAXINT /\ (j # k => N[j + 1] > MAXINT)
    /\ P[j] <= MAXINT => x = [sign |-> sign, value |-> IF j = 0 THEN v ELSE N[j],
                              scale |-> P[j], state |-> IF j = k THEN "go" ELSE "stop"]
    /\ P[j] > MAXINT => x.state = "overflow"

\* Digits stand for numbers up to nine.
LEMMA DigitType == \A c : Digit(c) \in 0..9
BY DEF Digit

\* Where the parts of a number are.
PartsOf(field, s, g, w, p, f) ==
    /\ Len(field) \in Nat /\ Len(field) = s + g + w + p + f
    /\ p = 0 => f = 0
    /\ \A i \in 1..s : field[i] = "space"
    /\ g = 1 => field[s + 1] \in {"+", "-"}
    /\ \A i \in 1..w : field[s + g + i] \in Digits
    /\ p = 1 => field[s + g + w + 1] = "."
    /\ \A i \in 1..f : field[s + g + w + p + i] \in Digits

LEMMA ShapeIs ==
    ASSUME NEW field \in Seq(Characters), NEW s \in Nat, NEW g \in 0..1, NEW w \in Nat,
           NEW p \in 0..1, NEW f \in Nat, Shape(field, s, g, w, p, f)
    PROVE  PartsOf(field, s, g, w, p, f)
<1>1. Len(field) \in Nat /\ DOMAIN field = 1..Len(field)
  OBVIOUS
<1>2. Len(field) = s + g + w + p + f /\ (p = 0 => f = 0)
  BY Zenon DEF Shape
<1> DEFINE Part(i) == IF i <= s THEN {"space"}
                      ELSE IF i <= s + g THEN {"+", "-"}
                      ELSE IF i <= s + g + w THEN Digits
                      ELSE IF i <= s + g + w + p THEN {"."} ELSE Digits
<1>3. \A i \in DOMAIN field : field[i] \in Part(i)
  BY Zenon DEF Shape
<1>4. ASSUME NEW i \in 1..s PROVE field[i] = "space"
  <2>1. i \in DOMAIN field /\ Part(i) = {"space"}
    BY <1>1, <1>2
  <2> QED
    BY <1>3, <2>1
<1>5. ASSUME g = 1 PROVE field[s + 1] \in {"+", "-"}
  <2>1. s + 1 \in DOMAIN field /\ Part(s + 1) = {"+", "-"}
    <3>1. s + 1 \in 1..Len(field)
      BY <1>2, <1>5
    <3>2. ~(s + 1 <= s) /\ s + 1 <= s + g
      BY <1>2, <1>5
    <3> QED
      BY <1>1, <3>1, <3>2, Zenon
  <2> QED
    BY <1>3, <2>1
<1>6. ASSUME NEW i \in 1..w PROVE field[s + g + i] \in Digits
  <2>1. s + g + i \in DOMAIN field /\ Part(s + g + i) = Digits
    <3>1. s + g + i \in 1..Len(field)
      BY <1>2
    <3>2. ~(s + g + i <= s) /\ ~(s + g + i <= s + g) /\ s + g + i <= s + g + w
      BY <1>2
    <3> QED
      BY <1>1, <3>1, <3>2, Zenon
  <2> QED
    BY <1>3, <2>1
<1>7. ASSUME p = 1 PROVE field[s + g + w + 1] = "."
  <2>1. s + g + w + 1 \in DOMAIN field /\ Part(s + g + w + 1) = {"."}
    <3>1. s + g + w + 1 \in 1..Len(field)
      BY <1>2, <1>7
    <3>2. ~(s + g + w + 1 <= s) /\ ~(s + g + w + 1 <= s + g)
          /\ ~(s + g + w + 1 <= s + g + w) /\ s + g + w + 1 <= s + g + w + p
      BY <1>2, <1>7
    <3> QED
      BY <1>1, <3>1, <3>2, Zenon
  <2> QED
    BY <1>3, <2>1
<1>8. ASSUME NEW i \in 1..f PROVE field[s + g + w + p + i] \in Digits
  <2>1. s + g + w + p + i \in DOMAIN field /\ Part(s + g + w + p + i) = Digits
    <3>1. s + g + w + p + i \in 1..Len(field)
      BY <1>2
    <3>2. ~(s + g + w + p + i <= s) /\ ~(s + g + w + p + i <= s + g)
          /\ ~(s + g + w + p + i <= s + g + w) /\ ~(s + g + w + p + i <= s + g + w + p)
      BY <1>2
    <3> QED
      BY <1>1, <3>1, <3>2, Zenon
  <2> QED
    BY <1>3, <2>1
<1> QED
  BY <1>1, <1>2, <1>4, <1>5, <1>6, <1>7, <1>8 DEF PartsOf

\* A digit before the point.
LEMMA WholeStep ==
    ASSUME NEW x \in ScanStates, NEW c \in Digits, NEW a \in Nat, NEW v \in {a, -1},
           v = -1 => a = 0, NEW sign, WholeRead(a, v, sign, x)
    PROVE  WholeRead(10 * a + Digit(c), 10 * a + Digit(c), sign, ScanChar(x, c))
<1>1. MAXINT \in Nat /\ Digit(c) \in 0..9
  BY MinmeaAssumption, DigitType
<1>2. CASE a <= MAXINT
  <2>1. x = [sign |-> sign, value |-> v, scale |-> 0, state |-> "go"]
    BY <1>2 DEF WholeRead
  <2>2. x.state = "go" /\ x.scale = 0 /\ a = IF x.value = -1 THEN 0 ELSE x.value
    BY <2>1
  <2>3. DigitRead(x, 10 * a + Digit(c), ScanChar(x, c))
    BY <2>2, DigitStep
  <2> DEFINE b == 10 * a + Digit(c)
  <2>4. b \in Nat /\ 10 * x.scale = 0 /\ 0 <= MAXINT
    BY <1>1, <2>2
  <2>5. /\ b > MAXINT => ScanChar(x, c) = [x EXCEPT !.state = "error"]
        /\ b <= MAXINT => ScanChar(x, c) = [x EXCEPT !.value = b, !.scale = 0, !.state = "go"]
    BY <2>2, <2>3, <2>4 DEF DigitRead
  <2> HIDE DEF b
  <2>6. CASE b <= MAXINT
    <3>1. ScanChar(x, c) = [sign |-> sign, value |-> b, scale |-> 0, state |-> "go"]
      BY <2>1, <2>5, <2>6
    <3> QED
      BY <2>6, <3>1 DEF WholeRead, b
  <2>7. CASE ~(b <= MAXINT)
    <3>1. ScanChar(x, c).state = "error"
      BY <1>1, <2>1, <2>4, <2>5, <2>7
    <3> QED
      BY <2>7, <3>1 DEF WholeRead, b
  <2> QED
    BY <2>6, <2>7
<1>3. CASE ~(a <= MAXINT)
  <2>1. x.state = "error"
    BY <1>3 DEF WholeRead
  <2>2. ScanChar(x, c) = x
    BY <2>1 DEF ScanChar
  <2>3. ~(10 * a + Digit(c) <= MAXINT)
    BY <1>1, <1>3
  <2> QED
    BY <2>1, <2>2, <2>3 DEF WholeRead
<1> QED
  BY <1>2, <1>3

\* A digit after the point.
FractionNext(sign, v, number, q, r, y) ==
    /\ number > MAXINT => y = [sign |-> sign, value |-> v, scale |-> q, state |-> "stop"]
    /\ number <= MAXINT /\ r <= MAXINT =>
          y = [sign |-> sign, value |-> number, scale |-> r, state |-> "go"]
    /\ number <= MAXINT /\ r > MAXINT => y.state = "overflow"

LEMMA FractionStep ==
    ASSUME NEW x \in ScanStates, NEW c \in Digits, NEW a \in Nat, NEW v \in {a, -1},
           v = -1 => a = 0, NEW sign, NEW q \in Nat \ {0},
           x = [sign |-> sign, value |-> v, scale |-> q, state |-> "go"]
    PROVE  FractionNext(sign, v, 10 * a + Digit(c), q, 10 * q, ScanChar(x, c))
<1>1. MAXINT \in Nat /\ Digit(c) \in 0..9 /\ 10 * q \in Nat /\ q # 0
  BY MinmeaAssumption, DigitType
<1>2. x.state = "go" /\ x.scale = q /\ a = IF x.value = -1 THEN 0 ELSE x.value
  OBVIOUS
<1>3. DigitRead(x, 10 * a + Digit(c), ScanChar(x, c))
  BY <1>2, DigitStep
<1> DEFINE b == 10 * a + Digit(c)
           r == 10 * q
<1>4. /\ b > MAXINT => ScanChar(x, c) = [x EXCEPT !.state = "stop"]
      /\ b <= MAXINT => ScanChar(x, c) = [x EXCEPT !.value = b, !.scale = r,
                                       !.state = IF r <= MAXINT THEN "go" ELSE "overflow"]
  BY <1>1, <1>2, <1>3 DEF DigitRead
<1>5. r \in Nat
  BY <1>1
<1> HIDE DEF b, r
<1>6. ASSUME b > MAXINT
      PROVE  ScanChar(x, c) = [sign |-> sign, value |-> v, scale |-> q, state |-> "stop"]
  BY <1>4, <1>6
<1>7. ASSUME b <= MAXINT, r <= MAXINT
      PROVE  ScanChar(x, c) = [sign |-> sign, value |-> b, scale |-> r, state |-> "go"]
  BY <1>4, <1>7
<1>8. ASSUME b <= MAXINT, r > MAXINT PROVE ScanChar(x, c).state = "overflow"
  <2>1. ~(r <= MAXINT)
    BY <1>1, <1>5, <1>8
  <2> QED
    BY <1>4, <1>8, <2>1
<1> QED
  BY <1>6, <1>7, <1>8 DEF FractionNext, b, r

\* Against the limit.
LEMMA Fits ==
    ASSUME NEW a \in Nat
    PROVE  /\ a # -1
           /\ a <= MAXINT \/ a > MAXINT
           /\ a <= MAXINT => ~(a > MAXINT)
           /\ a > MAXINT => ~(a <= MAXINT) /\ 10 * a > MAXINT /\ ~(10 * a <= MAXINT)
BY MinmeaAssumption

\* The digits before the point.
LEMMA WholeLoop ==
    ASSUME NEW w \in Nat, NEW C \in [1..w -> Digits], NEW N \in [0..w -> Nat],
           NEW Y \in [0..w -> ScanStates], NEW sign,
           N[0] = 0, \A i \in 1..w : N[i] = 10 * N[i - 1] + Digit(C[i]),
           WholeRead(0, -1, sign, Y[0]), \A i \in 1..w : Y[i] = ScanChar(Y[i - 1], C[i])
    PROVE  WholeRead(N[w], IF w = 0 THEN -1 ELSE N[w], sign, Y[w])
<1> DEFINE V(i) == IF i = 0 THEN -1 ELSE N[i]
           T == {i \in 0..w : WholeRead(N[i], V(i), sign, Y[i])}
<1>1. T \in SUBSET (0..w) /\ 0 \in T
  OBVIOUS
<1>2. ASSUME NEW i \in 1..w, i - 1 \in T PROVE i \in T
  <2>1. i - 1 \in 0..w /\ i \in 0..w /\ i # 0
    OBVIOUS
  <2>2. WholeRead(N[i - 1], V(i - 1), sign, Y[i - 1])
    BY <1>2
  <2>3. N[i - 1] \in Nat /\ Y[i - 1] \in ScanStates /\ C[i] \in Digits
    BY <2>1
  <2>4. V(i - 1) \in {N[i - 1], -1} /\ (V(i - 1) = -1 => N[i - 1] = 0) /\ V(i) = N[i]
    BY <2>1, <2>3
  <2> HIDE DEF V
  <2>5. WholeRead(10 * N[i - 1] + Digit(C[i]), 10 * N[i - 1] + Digit(C[i]), sign,
                  ScanChar(Y[i - 1], C[i]))
    BY <2>2, <2>3, <2>4, WholeStep
  <2>6. WholeRead(N[i], N[i], sign, Y[i])
    BY <2>5
  <2> QED
    BY <2>1, <2>4, <2>6
<1> HIDE DEF T
<1>3. T = 0..w
  BY <1>1, <1>2, Climb
<1>4. w \in T
  BY <1>3
<1> QED
  BY <1>4 DEF T

\* The digits after the point.
LEMMA FractionLoop ==
    ASSUME NEW f \in Nat, NEW C \in [1..f -> Digits], NEW N \in [0..f -> Nat],
           NEW P \in [0..f -> Nat], NEW Y \in [0..f -> ScanStates], NEW sign,
           NEW v \in {N[0], -1}, v = -1 => N[0] = 0, N[0] <= MAXINT,
           \A i \in 1..f : N[i] = 10 * N[i - 1] + Digit(C[i]),
           P[0] = 1, \A i \in 1..f : P[i] = 10 * P[i - 1],
           Y[0] = [sign |-> sign, value |-> v, scale |-> 1, state |-> "go"],
           \A i \in 1..f : Y[i] = ScanChar(Y[i - 1], C[i])
    PROVE  \E j \in 0..f : ReadUpTo(N, P, sign, v, j, f, Y[f])
<1> DEFINE T == {k \in 0..f : \E j \in 0..k : ReadUpTo(N, P, sign, v, j, k, Y[k])}
<1>1. T \in SUBSET (0..f) /\ 0 \in T
  <2>1. 0 \in 0..0 /\ 1 <= MAXINT /\ ~(1 > MAXINT)
    BY MinmeaAssumption
  <2>2. ReadUpTo(N, P, sign, v, 0, 0, Y[0])
    BY <2>1 DEF ReadUpTo
  <2> QED
    BY <2>1, <2>2
<1>2. ASSUME NEW k \in 1..f, k - 1 \in T PROVE k \in T
  <2>1. k \in 0..f /\ k - 1 \in 0..f /\ k \in 0..k /\ k # 0 /\ MAXINT \in Nat
    BY MinmeaAssumption
  <2>2. PICK j \in 0..(k - 1) : ReadUpTo(N, P, sign, v, j, k - 1, Y[k - 1])
    BY <1>2
  <2>3. j \in 0..f /\ j \in 0..k /\ j # k
    BY <2>1
  <2>4. Y[k] = ScanChar(Y[k - 1], C[k]) /\ Y[k - 1] \in ScanStates /\ C[k] \in Digits
    BY <2>1
  <2>5. Digit(C[k]) \in 0..9
    BY DigitType
  <2>6. ASSUME Y[k - 1].state # "go" PROVE Y[k] = Y[k - 1]
    BY <2>4, <2>6 DEF ScanChar
  <2>7. CASE j # k - 1
    <3>1. Y[k] = Y[k - 1]
      <4>1. CASE P[j] <= MAXINT
        BY <2>2, <2>6, <2>7, <4>1 DEF ReadUpTo
      <4>2. CASE P[j] > MAXINT
        BY <2>2, <2>6, <4>2 DEF ReadUpTo
      <4> QED
        BY <2>1, <2>3, <4>1, <4>2
    <3>2. ReadUpTo(N, P, sign, v, j, k, Y[k])
      BY <2>2, <2>3, <2>7, <3>1 DEF ReadUpTo
    <3> QED
      BY <2>1, <2>3, <3>2
  <2>8. CASE j = k - 1
    <3>1. N[j] \in Nat /\ P[j] \in Nat /\ N[k] \in Nat /\ P[k] \in Nat /\ j + 1 = k
      <4>1. j + 1 = k
        BY <2>8
      <4> QED
        BY <2>1, <2>3, <4>1, Zenon
    <3>2. N[k] = 10 * N[j] + Digit(C[k]) /\ P[k] = 10 * P[j]
      BY <2>8
    <3>3. CASE P[j] > MAXINT
      <4>1. Y[k - 1].state = "overflow"
        BY <2>2, <3>3 DEF ReadUpTo
      <4>2. Y[k].state = "overflow"
        BY <2>6, <4>1
      <4>3. P[k] > MAXINT /\ ~(P[k] <= MAXINT) /\ ~(P[j] <= MAXINT)
        <5>1. 10 * P[j] > MAXINT /\ ~(10 * P[j] <= MAXINT) /\ ~(P[j] <= MAXINT)
          BY <3>1, <3>3, Fits, Zenon
        <5> QED
          BY <3>2, <5>1, Zenon
      <4>4. CASE N[k] <= MAXINT
        <5>1. ReadUpTo(N, P, sign, v, k, k, Y[k])
          BY <4>2, <4>3, <4>4 DEF ReadUpTo
        <5> QED
          BY <2>1, <5>1
      <4>5. CASE N[k] > MAXINT
        <5>1. ReadUpTo(N, P, sign, v, j, k, Y[k])
          BY <2>2, <3>1, <4>2, <4>3, <4>5 DEF ReadUpTo
        <5> QED
          BY <2>1, <2>3, <5>1
      <4> QED
        BY <3>1, <4>4, <4>5, Fits, Zenon
    <3>4. CASE P[j] <= MAXINT
      <4> DEFINE u == IF j = 0 THEN v ELSE N[j]
      <4>1. Y[k - 1] = [sign |-> sign, value |-> u, scale |-> P[j], state |-> "go"]
        BY <2>2, <2>8, <3>4 DEF ReadUpTo
      <4>2. u \in {N[j], -1} /\ (u = -1 => N[j] = 0)
        <5>1. CASE j = 0
          BY <5>1
        <5>2. CASE j # 0
          <6>1. N[j] # -1
            BY <3>1, Fits, Zenon
          <6> QED
            BY <5>2, <6>1
        <5> QED
          BY <5>1, <5>2
      <4>3. P[j] \in Nat \ {0}
        <5> DEFINE Q == {i \in 0..f : P[i] # 0}
        <5>1. Q \in SUBSET (0..f) /\ 0 \in Q
          OBVIOUS
        <5>2. ASSUME NEW i \in 1..f, i - 1 \in Q PROVE i \in Q
          <6>1. i \in 0..f /\ P[i] = 10 * P[i - 1] /\ P[i - 1] \in Nat /\ P[i - 1] # 0
            BY <5>2
          <6> QED
            BY <6>1
        <5> HIDE DEF Q
        <5>3. Q = 0..f
          BY <5>1, <5>2, Climb
        <5> QED
          BY <2>3, <3>1, <5>3 DEF Q
      <4> HIDE DEF u
      <4>4. FractionNext(sign, u, 10 * N[j] + Digit(C[k]), P[j], 10 * P[j],
                         ScanChar(Y[k - 1], C[k]))
        BY <2>4, <3>1, <4>1, <4>2, <4>3, FractionStep
      <4>5. FractionNext(sign, u, N[k], P[j], P[k], Y[k])
        BY <2>4, <3>2, <4>4, Zenon
      <4>6. CASE N[k] <= MAXINT
        <5>1. ReadUpTo(N, P, sign, v, k, k, Y[k])
          BY <2>1, <4>5, <4>6 DEF ReadUpTo, FractionNext
        <5> QED
          BY <2>1, <5>1
      <4>7. CASE N[k] > MAXINT
        <5>1. ~(P[j] > MAXINT)
          BY <3>1, <3>4, Fits, Zenon
        <5>2. ReadUpTo(N, P, sign, v, j, k, Y[k])
          BY <2>2, <2>3, <3>1, <4>5, <4>7, <5>1 DEF ReadUpTo, FractionNext, u
        <5> QED
          BY <2>1, <2>3, <5>2
      <4> QED
        BY <3>1, <4>6, <4>7, Fits, Zenon
    <3> QED
      BY <3>1, <3>3, <3>4, Fits, Zenon
  <2> QED
    BY <2>7, <2>8
<1> HIDE DEF T
<1>3. T = 0..f
  BY <1>1, <1>2, Climb
<1>4. f \in T
  BY <1>3
<1> QED
  BY <1>4 DEF T

\* What minmea_scan makes of its variables at the end.
ScanResult(s) ==
    CASE s.state = "error" -> NoNumber("error")
      [] s.state = "overflow" -> NoNumber("undefined")
      [] s.state \in {"go", "stop"} /\ s.value = -1 ->
            NoNumber(IF s.sign = 0 /\ s.scale = 0 THEN "ok" ELSE "error")
      [] OTHER -> [result |-> "ok",
                   value |-> IF s.sign = -1 THEN -s.value ELSE s.value,
                   scale |-> IF s.scale = 0 THEN 1 ELSE s.scale]

ResultIs(sign, value, scale, r) ==
    /\ value = -1 => r = NoNumber(IF sign = 0 /\ scale = 0 THEN "ok" ELSE "error")
    /\ value # -1 => r = [result |-> "ok", value |-> IF sign = -1 THEN -value ELSE value,
                          scale |-> IF scale = 0 THEN 1 ELSE scale]

LEMMA ResultCases ==
    ASSUME NEW sign \in {-1, 0, 1}, NEW value, NEW scale, NEW state \in {"go", "stop"}, NEW s,
           s = [sign |-> sign, value |-> value, scale |-> scale, state |-> state]
    PROVE  ResultIs(sign, value, scale, ScanResult(s))
<1>1. s.sign = sign /\ s.value = value /\ s.scale = scale /\ s.state = state
  OBVIOUS
<1>2. s.state # "error" /\ s.state # "overflow"
  BY <1>1
<1> QED
  BY <1>1, <1>2 DEF ScanResult, ResultIs

\* Small numbers.
LEMMA Small ==
    /\ \A a, b \in Nat : a + b = 0 <=> a = 0 /\ b = 0
    /\ \A b \in Nat : \A j \in 0..b : j # -1 /\ (b = 0 => j = 0)
    /\ \A a, d, m : a = 0 /\ d \in 0..9 /\ m = 10 * a + d => ~(m > MAXINT)
BY MinmeaAssumption

\* The digits behind the point that are kept.
LEMMA KeptIs ==
    ASSUME NEW f \in Nat, NEW M \in [0..f -> Nat], \A i \in 1..f : M[i - 1] <= M[i]
    PROVE  /\ M[0] > MAXINT => Max({-1} \cup {k \in 0..f : M[k] <= MAXINT}) = -1
           /\ \A j \in 0..f : M[j] <= MAXINT /\ (j # f => M[j + 1] > MAXINT) =>
                 Max({-1} \cup {k \in 0..f : M[k] <= MAXINT}) = j
<1> DEFINE S == {-1} \cup {k \in 0..f : M[k] <= MAXINT}
<1>1. S \in SUBSET Int /\ MAXINT \in Nat
  BY MinmeaAssumption
<1>2. \A i, j \in 0..f : i <= j => M[i] <= M[j]
  BY Rises
<1>3. ASSUME M[0] > MAXINT PROVE Max(S) = -1
  <2>1. ASSUME NEW k \in S PROVE -1 >= k
    <3>1. ASSUME k # -1 PROVE FALSE
      <4>1. k \in 0..f /\ 0 \in 0..f /\ 0 <= k /\ M[k] <= MAXINT
        BY <3>1
      <4>2. M[0] <= M[k] /\ M[0] \in Nat /\ M[k] \in Nat
        BY <1>2, <4>1
      <4> QED
        BY <1>1, <1>3, <4>1, <4>2
    <3> QED
      BY <3>1
  <2>2. -1 \in S
    OBVIOUS
  <2> HIDE DEF S
  <2> QED
    BY <1>1, <2>1, <2>2, MaxIs
<1>4. ASSUME NEW j \in 0..f, M[j] <= MAXINT, j # f => M[j + 1] > MAXINT PROVE Max(S) = j
  <2>1. ASSUME NEW k \in S PROVE j >= k
    <3>1. ASSUME ~(j >= k) PROVE FALSE
      <4>1. k \in 0..f /\ j + 1 \in 0..f /\ j + 1 <= k /\ j # f /\ M[k] <= MAXINT
        BY <3>1
      <4>2. M[j + 1] <= M[k] /\ M[j + 1] \in Nat /\ M[k] \in Nat
        BY <1>2, <4>1
      <4> QED
        BY <1>1, <1>4, <4>1, <4>2
    <3> QED
      BY <3>1
  <2>2. j \in S
    BY <1>4
  <2> HIDE DEF S
  <2> QED
    BY <1>1, <2>1, <2>2, MaxIs
<1> QED
  BY <1>3, <1>4

\* What the scanner has to say of a number: M has what its digits say with each
\* number of digits behind the point, P the powers of ten.
Says(w, f, p, sign, M, P, r) ==
    LET kept == Max({-1} \cup {k \in 0..f : M[k] <= MAXINT})
    IN  /\ kept # -1 => kept \in 0..f
        /\ IF w + f = 0 THEN r = NoNumber(IF sign = 0 /\ p = 0 THEN "ok" ELSE "error")
           ELSE IF kept = -1 THEN r = NoNumber("error")
           ELSE IF P[kept] > MAXINT THEN r = NoNumber("undefined")
           ELSE r = [result |-> "ok", scale |-> P[kept],
                     value |-> IF sign = -1 THEN -M[kept] ELSE M[kept]]

\* Powers of ten are not 0.
LEMMA PowerNotZero ==
    ASSUME NEW f \in Nat, NEW P \in [0..f -> Nat], P[0] = 1, \A i \in 1..f : P[i] = 10 * P[i - 1]
    PROVE  \A i \in 0..f : P[i] \in Nat \ {0}
<1>1. P[0] \in Nat \ {0}
  OBVIOUS
<1>2. ASSUME NEW i \in 1..f, P[i - 1] \in Nat \ {0} PROVE P[i] \in Nat \ {0}
  <2>1. P[i] = 10 * P[i - 1]
    OBVIOUS
  <2> QED
    BY <1>2, <2>1
<1> QED
  BY <1>1, <1>2, StaysIn

\* Digits make a number larger.
LEMMA DigitGrows == \A a \in Nat, d \in 0..9 : a <= 10 * a + d
OBVIOUS

LEMMA NumberRises ==
    ASSUME NEW f \in Nat, NEW C \in [1..f -> Digits], NEW M \in [0..f -> Nat],
           \A i \in 1..f : M[i] = 10 * M[i - 1] + Digit(C[i])
    PROVE  \A i \in 1..f : M[i - 1] <= M[i]
<1> SUFFICES ASSUME NEW i \in 1..f PROVE M[i - 1] <= M[i]
  OBVIOUS
<1>1. i - 1 \in 0..f
  OBVIOUS
<1>2. M[i - 1] \in Nat /\ Digit(C[i]) \in 0..9 /\ M[i] = 10 * M[i - 1] + Digit(C[i])
  BY <1>1, DigitType
<1>3. M[i - 1] <= 10 * M[i - 1] + Digit(C[i])
  BY <1>2, DigitGrows, Zenon
<1> QED
  BY <1>2, <1>3, Zenon

\* The numbers with each number of digits behind the point.
Behind(N, w, f) == [k \in 0..f |-> N[w + k]]

\* Digits C, the numbers N they make after a first one, and the scanner's variables
\* Y from digit to digit; the powers of ten; the whole loop.
DigitRun(n, C, N, Y) ==
    /\ C \in [1..n -> Digits] /\ N \in [0..n -> Nat] /\ Y \in [0..n -> ScanStates]
    /\ \A i \in 1..n : N[i] = 10 * N[i - 1] + Digit(C[i])
    /\ \A i \in 1..n : Y[i] = ScanChar(Y[i - 1], C[i])

PowerRun(n, P) ==
    P \in [0..n -> Nat] /\ P[0] = 1 /\ \A i \in 1..n : P[i] = 10 * P[i - 1]

ScanRun(field, n, X) ==
    X \in [0..n -> ScanStates] /\ \A i \in 1..n : X[i] = ScanChar(X[i - 1], field[i])

AfterSign(field, b, w, p, f, n) ==
    /\ n = b + w + p + f /\ (p = 0 => f = 0)
    /\ \A i \in 1..w : field[b + i] \in Digits
    /\ p = 1 => field[b + w + 1] = "."
    /\ \A i \in 1..f : field[b + w + p + i] \in Digits

\* The loop ends with what the number is.
LEMMA ScanEnds ==
    ASSUME NEW w \in Nat, NEW f \in Nat, NEW p \in 0..1, p = 0 => f = 0, NEW sign \in {-1, 0, 1},
           NEW A, NEW B, NEW N, NEW M, NEW P, NEW Y, NEW Z, DigitRun(w, A, N, Y),
           DigitRun(f, B, M, Z), PowerRun(f, P), N[0] = 0, M[0] = N[w],
           WholeRead(0, -1, sign, Y[0]), Z[0] = IF p = 0 THEN Y[w] ELSE ScanChar(Y[w], ".")
    PROVE  Says(w, f, p, sign, M, P, ScanResult(Z[f]))
<1> USE DEF DigitRun, PowerRun
<1> DEFINE v == IF w = 0 THEN -1 ELSE N[w]
           kept == Max({-1} \cup {k \in 0..f : M[k] <= MAXINT})
<1>1. WholeRead(N[w], v, sign, Y[w])
  BY WholeLoop
<1>2. N[w] \in Nat /\ MAXINT \in Nat /\ 9 <= MAXINT /\ (v \in {N[w], -1}) /\ (w = 0 => N[w] = 0)
  BY MinmeaAssumption
<1>3. v = -1 <=> w = 0
  BY <1>2
<1>4. \A i \in 1..f : M[i - 1] <= M[i]
  BY NumberRises, Zenon
<1>5. /\ M[0] > MAXINT => kept = -1
      /\ \A j \in 0..f : M[j] <= MAXINT /\ (j # f => M[j + 1] > MAXINT) => kept = j
  BY <1>4, KeptIs, Zenon
<1> HIDE DEF v, kept
<1>6. CASE N[w] > MAXINT
  <2>1. kept = -1 /\ w + f # 0
    BY <1>2, <1>5, <1>6
  <2>2. Y[w].state = "error"
    BY <1>1, <1>2, <1>6, Fits DEF WholeRead
  <2> DEFINE E == {x \in ScanStates : x.state = "error"}
  <2>3. ASSUME NEW x \in E, NEW c PROVE ScanChar(x, c) = x
    BY DEF ScanChar
  <2>4. Y[w] \in E
    BY <2>2
  <2>5. Z[0] \in E
    BY <2>3, <2>4, Zenon
  <2>6. ASSUME NEW i \in 1..f, Z[i - 1] \in E PROVE Z[i] \in E
    BY <2>3, <2>6, Zenon
  <2> HIDE DEF E
  <2>7. Z[f] \in E
    <3>1. \A i \in 0..f : Z[i] \in E
      BY <2>5, <2>6, StaysIn
    <3> QED
      BY <3>1
  <2>8. ScanResult(Z[f]) = NoNumber("error")
    BY <2>7 DEF ScanResult, E
  <2> QED
    BY <2>1, <2>8 DEF Says, kept
<1>7. CASE N[w] <= MAXINT /\ p = 0
  <2>1. Y[w] = [sign |-> sign, value |-> v, scale |-> 0, state |-> "go"]
    BY <1>1, <1>7 DEF WholeRead
  <2>2. f = 0 /\ Z[f] = Y[w] /\ kept = 0 /\ M[0] = N[w]
    BY <1>5, <1>7
  <2>3. ResultIs(sign, v, 0, ScanResult(Z[f]))
    <3>1. Z[f] = [sign |-> sign, value |-> v, scale |-> 0, state |-> "go"]
      BY <2>1, <2>2
    <3>2. "go" \in {"go", "stop"}
      OBVIOUS
    <3> QED
      BY <3>1, <3>2, ResultCases, Zenon
  <2>4. CASE w = 0
    <3>1. w + f = 0 /\ v = -1
      BY <1>3, <2>2, <2>4
    <3>2. kept \in 0..f
      BY <2>2
    <3> QED
      BY <1>7, <2>3, <3>1, <3>2 DEF Says, ResultIs, kept
  <2>5. CASE w # 0
    <3>1. w + f # 0 /\ v # -1 /\ v = N[w] /\ kept # -1
      BY <1>3, <2>2, <2>5 DEF v
    <3>2. P[kept] = 1 /\ ~(P[kept] > MAXINT) /\ M[kept] = v
      BY <1>2, <2>2, <3>1
    <3>3. ScanResult(Z[f]) = [result |-> "ok", value |-> IF sign = -1 THEN -v ELSE v, scale |-> 1]
      BY <2>3, <3>1 DEF ResultIs
    <3>4. kept \in 0..f
      BY <2>2
    <3> QED
      BY <3>1, <3>2, <3>3, <3>4 DEF Says, kept
  <2> QED
    BY <2>4, <2>5
<1>8. CASE N[w] <= MAXINT /\ p = 1
  <2>1. Y[w] = [sign |-> sign, value |-> v, scale |-> 0, state |-> "go"]
    BY <1>1, <1>8 DEF WholeRead
  <2>2. Z[0] = [sign |-> sign, value |-> v, scale |-> 1, state |-> "go"]
    <3>1. ScanChar(Y[w], ".") = [Y[w] EXCEPT !.scale = 1]
      <4>1. Y[w].state = "go" /\ Y[w].scale = 0 /\ "." \notin {"+", "-"} /\ "." \notin Digits
        BY <2>1 DEF Digits
      <4> QED
        BY <4>1 DEF ScanChar
    <3>2. Z[0] = [Y[w] EXCEPT !.scale = 1]
      BY <1>8, <3>1
    <3> QED
      BY <2>1, <3>2
  <2>3. PICK j \in 0..f : ReadUpTo(M, P, sign, v, j, f, Z[f])
    <3>1. v \in {M[0], -1} /\ (v = -1 => M[0] = 0) /\ M[0] <= MAXINT
      BY <1>2, <1>3, <1>8
    <3> QED
      BY <2>2, <3>1, FractionLoop
  <2>4. kept = j
    BY <1>5, <2>3 DEF ReadUpTo
  <2>5. M[j] \in Nat /\ P[j] \in Nat \ {0}
    <3>1. \A i \in 0..f : P[i] \in Nat \ {0}
      BY PowerNotZero, Zenon
    <3> QED
      BY <3>1
  <2>6. CASE P[j] > MAXINT
    <3>1. ScanResult(Z[f]) = NoNumber("undefined")
      BY <2>3, <2>6 DEF ReadUpTo, ScanResult
    <3>2. j # 0
      BY <1>2, <2>6
    <3>3. w + f # 0 /\ kept # -1
      BY <2>4, <3>2, Small, Zenon
    <3> QED
      BY <2>4, <2>6, <3>1, <3>3 DEF Says, kept
  <2>7. CASE P[j] <= MAXINT
    <3> DEFINE u == IF j = 0 THEN v ELSE M[j]
    <3>1. Z[f] = [sign |-> sign, value |-> u, scale |-> P[j], state |-> IF j = f THEN "go" ELSE "stop"]
      BY <2>3, <2>7 DEF ReadUpTo
    <3>2. (IF j = f THEN "go" ELSE "stop") \in {"go", "stop"}
      OBVIOUS
    <3> HIDE DEF u
    <3>3. ResultIs(sign, u, P[j], ScanResult(Z[f]))
      BY <3>1, <3>2, ResultCases, Zenon
    <3>4. CASE w + f = 0
      <4>1. w = 0 /\ j = 0
        BY <3>4
      <4>2. u = -1
        BY <1>3, <4>1 DEF u
      <4>3. ScanResult(Z[f]) = NoNumber("error")
        BY <2>5, <3>3, <4>2 DEF ResultIs
      <4> QED
        BY <1>8, <2>4, <3>4, <4>3 DEF Says, kept
    <3>5. CASE w + f # 0
      <4>1. ASSUME j = 0 PROVE w # 0
        <5>1. SUFFICES ASSUME w = 0 PROVE FALSE
          OBVIOUS
        <5>2. 1 \in 1..f /\ j # f /\ 1 - 1 = 0 /\ j + 1 = 1
          BY <3>5, <4>1, <5>1
        <5>3. M[1] = 10 * M[0] + Digit(B[1]) /\ M[0] = 0 /\ Digit(B[1]) \in 0..9
          BY <1>2, <5>1, <5>2, DigitType
        <5>4. M[1] > MAXINT
          BY <2>3, <5>2 DEF ReadUpTo
        <5> QED
          BY <5>3, <5>4, Small, Zenon
      <4>2. u = M[j]
        <5>1. CASE j = 0
          <6>1. w # 0
            BY <4>1, <5>1
          <6> QED
            BY <5>1, <6>1 DEF u, v
        <5>2. CASE j # 0
          BY <5>2 DEF u
        <5> QED
          BY <5>1, <5>2
      <4>3. u # -1 /\ P[j] # 0 /\ kept # -1 /\ ~(P[j] > MAXINT)
        <5>1. M[j] # -1 /\ kept # -1
          BY <2>4, <2>5, Fits, Small, Zenon
        <5>2. P[j] \in Nat /\ P[j] # 0
          BY <2>5
        <5>3. ~(P[j] > MAXINT)
          BY <2>7, <5>2, Fits, Zenon
        <5> QED
          BY <4>2, <5>1, <5>2, <5>3
      <4>4. ScanResult(Z[f]) = [result |-> "ok", value |-> IF sign = -1 THEN -M[j] ELSE M[j],
                                scale |-> P[j]]
        BY <3>3, <4>2, <4>3 DEF ResultIs
      <4> QED
        BY <2>4, <3>5, <4>3, <4>4 DEF Says, kept
    <3> QED
      BY <3>4, <3>5
  <2> QED
    BY <2>5, <2>6, <2>7, Fits
<1> QED
  BY <1>2, <1>6, <1>7, <1>8, Fits

\* The loop from where the digits begin.
ScansFrom(field, b, w, p, f, n, sign, X, N, P) ==
    /\ ScanRun(field, n, X) /\ AfterSign(field, b, w, p, f, n)
    /\ NumbersRun(N, field, b, w, p, f) /\ PowerRun(f, P) /\ WholeRead(0, -1, sign, X[b])

LEMMA ScanFrom ==
    ASSUME NEW b \in Nat, NEW w \in Nat, NEW f \in Nat, NEW p \in 0..1, NEW n \in Nat,
           NEW sign \in {-1, 0, 1}, NEW field, NEW X, NEW NN, NEW P,
           ScansFrom(field, b, w, p, f, n, sign, X, NN, P)
    PROVE  Says(w, f, p, sign, Behind(NN, w, f), P, ScanResult(X[n]))
<1> USE DEF ScansFrom, ScanRun, AfterSign, NumbersRun
<1> DEFINE A == [i \in 1..w |-> field[b + i]]
           B == [i \in 1..f |-> field[b + w + p + i]]
           N == [i \in 0..w |-> NN[i]]
           M == [k \in 0..f |-> NN[w + k]]
           Y == [i \in 0..w |-> X[b + i]]
           Z == [i \in 0..f |-> X[b + w + p + i]]
<1>1. A \in [1..w -> Digits] /\ B \in [1..f -> Digits]
  OBVIOUS
<1>2. /\ \A i \in 0..w : i \in 0..(w + f) /\ b + i \in 0..n
      /\ \A i \in 0..f : w + i \in 0..(w + f) /\ b + w + p + i \in 0..n
  OBVIOUS
<1>3. N \in [0..w -> Nat] /\ M \in [0..f -> Nat]
  BY <1>2
<1>4. Y \in [0..w -> ScanStates] /\ Z \in [0..f -> ScanStates]
  BY <1>2
<1>5. N[0] = 0 /\ M[0] = N[w] /\ Y[0] = X[b]
  <2>1. 0 \in 0..w /\ 0 \in 0..f /\ w \in 0..w /\ w + 0 = w /\ b + 0 = b
    OBVIOUS
  <2> QED
    BY <2>1
<1>6. ASSUME NEW i \in 1..w
      PROVE  N[i] = 10 * N[i - 1] + Digit(A[i]) /\ Y[i] = ScanChar(Y[i - 1], A[i])
  <2>1. /\ i \in 1..(w + f) /\ i \in 0..w /\ i - 1 \in 0..w /\ i <= w
        /\ b + i + 0 = b + i /\ b + i \in 1..n /\ (b + i) - 1 = b + (i - 1)
    OBVIOUS
  <2>2. NN[i] = 10 * NN[i - 1] + Digit(field[b + i])
    BY <2>1
  <2>3. X[b + i] = ScanChar(X[b + (i - 1)], field[b + i])
    BY <2>1
  <2>4. N[i] = NN[i] /\ N[i - 1] = NN[i - 1] /\ A[i] = field[b + i]
        /\ Y[i] = X[b + i] /\ Y[i - 1] = X[b + (i - 1)]
    BY <2>1
  <2> HIDE DEF A, N, Y
  <2> QED
    BY <2>2, <2>3, <2>4
<1>7. ASSUME NEW i \in 1..f
      PROVE  M[i] = 10 * M[i - 1] + Digit(B[i]) /\ Z[i] = ScanChar(Z[i - 1], B[i])
  <2>1. /\ w + i \in 1..(w + f) /\ i \in 0..f /\ i - 1 \in 0..f /\ ~(w + i <= w)
        /\ (w + i) - 1 = w + (i - 1) /\ b + (w + i) + p = b + w + p + i
        /\ b + w + p + i \in 1..n /\ (b + w + p + i) - 1 = b + w + p + (i - 1)
    OBVIOUS
  <2>2. NN[w + i] = 10 * NN[w + (i - 1)] + Digit(field[b + w + p + i])
    BY <2>1
  <2>3. X[b + w + p + i] = ScanChar(X[b + w + p + (i - 1)], field[b + w + p + i])
    BY <2>1
  <2>4. M[i] = NN[w + i] /\ M[i - 1] = NN[w + (i - 1)] /\ B[i] = field[b + w + p + i]
        /\ Z[i] = X[b + w + p + i] /\ Z[i - 1] = X[b + w + p + (i - 1)]
    BY <2>1
  <2> HIDE DEF B, M, Z
  <2> QED
    BY <2>2, <2>3, <2>4
<1>8. Z[0] = IF p = 0 THEN Y[w] ELSE ScanChar(Y[w], ".")
  <2>1. 0 \in 0..f /\ w \in 0..w /\ b + w + p + 0 = b + w + p
    OBVIOUS
  <2>2. Z[0] = X[b + w + p] /\ Y[w] = X[b + w]
    BY <2>1
  <2> HIDE DEF Y, Z
  <2>3. CASE p = 0
    <3>1. b + w + p = b + w
      BY <2>3
    <3> QED
      BY <2>2, <2>3, <3>1
  <2>4. CASE p = 1
    <3>1. b + w + p = b + w + 1 /\ b + w + 1 \in 1..n /\ (b + w + 1) - 1 = b + w
      BY <2>4
    <3>2. X[b + w + 1] = ScanChar(X[b + w], ".")
      BY <2>4, <3>1
    <3> QED
      BY <2>2, <2>4, <3>1, <3>2
  <2> QED
    BY <2>3, <2>4
<1>9. Z[f] = X[n]
  <2>1. f \in 0..f /\ b + w + p + f = n
    OBVIOUS
  <2> QED
    BY <2>1
<1>10. WholeRead(0, -1, sign, Y[0])
  BY <1>5
<1> HIDE DEF A, B, N, M, Y, Z
<1> HIDE DEF ScanRun, AfterSign, NumbersRun
<1>11. DigitRun(w, A, N, Y) /\ DigitRun(f, B, M, Z)
  BY <1>1, <1>3, <1>4, <1>6, <1>7, Zenon DEF DigitRun
<1>12. Says(w, f, p, sign, M, P, ScanResult(Z[f]))
  <2>1. p = 0 => f = 0
    BY Zenon DEF AfterSign
  <2> QED
    BY <1>5, <1>8, <1>10, <1>11, <2>1, ScanEnds
<1> QED
  BY <1>9, <1>12 DEF M, Behind

\* The characters before the digits.
SignRead(field, s, g, sign, x) ==
    /\ sign \in {-1, 0, 1}
    /\ sign = 0 <=> g = 0
    /\ sign = -1 <=> g = 1 /\ field[s + 1] = "-"
    /\ WholeRead(0, -1, sign, x)

LEMMA ScanBefore ==
    ASSUME NEW s \in Nat, NEW g \in 0..1, NEW field, NEW n \in Nat, s + g <= n,
           NEW X \in [0..n -> ScanStates], X[0] = ScanStart,
           \A i \in 1..n : X[i] = ScanChar(X[i - 1], field[i]),
           \A i \in 1..s : field[i] = "space", g = 1 => field[s + 1] \in {"+", "-"}
    PROVE  SignRead(field, s, g, SignOf(field, s, g), X[s + g])
<1>1. ScanStart \in ScanStates /\ ScanStart.state = "go" /\ ScanStart.sign = 0
      /\ ScanStart.value = -1 /\ ScanStart.scale = 0
  BY DEF ScanStart, ScanStates
<1>2. ScanChar(ScanStart, "space") = ScanStart
  BY <1>1 DEF ScanChar, Digits
<1> DEFINE Y == [i \in 0..s |-> X[i]]
<1>3. X[s] = ScanStart
  <2>1. Y[0] \in {ScanStart}
    OBVIOUS
  <2>2. ASSUME NEW i \in 1..s, Y[i - 1] \in {ScanStart} PROVE Y[i] \in {ScanStart}
    <3>1. i \in 1..n /\ i \in 0..s /\ i - 1 \in 0..s
      OBVIOUS
    <3>2. X[i] = ScanChar(X[i - 1], "space") /\ Y[i] = X[i] /\ Y[i - 1] = X[i - 1]
      BY <3>1
    <3> QED
      BY <1>2, <2>2, <3>2, Zenon
  <2> HIDE DEF Y
  <2> DEFINE S == {ScanStart}
  <2>3. Y[0] \in S /\ \A i \in 1..s : Y[i - 1] \in S => Y[i] \in S
    BY <2>1, <2>2
  <2> HIDE DEF S
  <2>4. \A i \in 0..s : Y[i] \in S
    BY <2>3, StaysIn, Zenon
  <2> QED
    BY <2>4 DEF Y, S
<1>4. CASE g = 0
  <2>1. X[s + g] = ScanStart /\ SignOf(field, s, g) = 0
    BY <1>3, <1>4 DEF SignOf
  <2>2. WholeRead(0, -1, 0, ScanStart)
    BY MinmeaAssumption DEF WholeRead, ScanStart
  <2> QED
    BY <1>4, <2>1, <2>2 DEF SignRead
<1>5. CASE g = 1
  <2> DEFINE c == field[s + 1]
             sg == IF c = "+" THEN 1 ELSE -1
  <2>1. s + 1 \in 1..n /\ (s + 1) - 1 = s /\ s + g = s + 1
    BY <1>5
  <2>2. X[s + g] = ScanChar(ScanStart, c)
    BY <1>3, <2>1
  <2>3. c \in {"+", "-"}
    BY <1>5
  <2>4. SignOf(field, s, g) = sg
    BY <1>5 DEF SignOf
  <2> HIDE DEF c
  <2>5. ScanChar(ScanStart, c) = [ScanStart EXCEPT !.sign = sg]
    BY <1>1, <2>3 DEF ScanChar, Digits
  <2>6. sg \in {-1, 1} /\ (sg = -1 <=> c = "-")
    BY <2>3
  <2> HIDE DEF sg
  <2>7. WholeRead(0, -1, sg, [ScanStart EXCEPT !.sign = sg])
    BY MinmeaAssumption DEF WholeRead, ScanStart
  <2> QED
    BY <1>5, <2>2, <2>4, <2>5, <2>6, <2>7 DEF SignRead, c
<1> QED
  BY <1>4, <1>5

\* What minmea_scan says of a number.
NumberIs(field, s, g, w, p, f) ==
    /\ SignOf(field, s, g) = 0 <=> g = 0
    /\ SignOf(field, s, g) = -1 <=> g = 1 /\ field[s + 1] = "-"
    /\ Says(w, f, p, SignOf(field, s, g),
            Behind(Numbers(field, s + g, w, p, f), w, f), PowersOfTen(f), minmea_scan_f(field))

LEMMA ScanShape ==
    ASSUME NEW field \in Seq(Characters), NEW s \in Nat, NEW g \in 0..1, NEW w \in Nat,
           NEW p \in 0..1, NEW f \in Nat, Shape(field, s, g, w, p, f)
    PROVE  NumberIs(field, s, g, w, p, f)
<1> DEFINE n == Len(field)
           X == Scan(field)
           b == s + g
           sg == SignOf(field, s, g)
           NN == Numbers(field, b, w, p, f)
           P == PowersOfTen(f)
<1>1. PartsOf(field, s, g, w, p, f)
  BY ShapeIs, Zenon
<1>2. n \in Nat /\ b \in Nat
  BY <1>1 DEF PartsOf
<1>3. s + g <= n
  BY <1>1 DEF PartsOf
<1>4. X[0] = ScanStart /\ ScanRun(field, n, X)
  BY <1>2, ScanSteps, Zenon DEF ScanRun
<1>5. minmea_scan_f(field) = ScanResult(X[n])
  BY DEF minmea_scan_f, ScanResult
<1>6. SignRead(field, s, g, sg, X[b])
  <2>1. /\ \A i \in 1..s : field[i] = "space"
        /\ g = 1 => field[s + 1] \in {"+", "-"}
    BY <1>1, Zenon DEF PartsOf
  <2> HIDE DEF n, X
  <2> QED
    BY <1>2, <1>3, <1>4, <2>1, ScanBefore, Zenon DEF ScanRun
<1> HIDE DEF X
<1>7. AfterSign(field, b, w, p, f, n)
  BY <1>1, Zenon DEF PartsOf, AfterSign
<1> HIDE DEF n, b
<1>8. NumbersRun(NN, field, b, w, p, f)
  BY <1>2, NumberSteps, Zenon
<1>9. PowerRun(f, P)
  BY PowerSteps, Zenon DEF PowerRun
<1> HIDE DEF NN, P, sg
<1>10. sg \in {-1, 0, 1} /\ (sg = 0 <=> g = 0) /\ (sg = -1 <=> g = 1 /\ field[s + 1] = "-")
       /\ WholeRead(0, -1, sg, X[b])
  BY <1>6, Zenon DEF SignRead
<1>11. Says(w, f, p, sg, Behind(NN, w, f), P, ScanResult(X[n]))
  <2>1. ScansFrom(field, b, w, p, f, n, sg, X, NN, P) /\ sg \in {-1, 0, 1}
    BY <1>4, <1>7, <1>8, <1>9, <1>10, Zenon DEF ScansFrom
  <2> QED
    BY <1>2, <2>1, ScanFrom
<1> QED
  BY <1>5, <1>10, <1>11, Zenon DEF NumberIs, sg, NN, P, b

LEMMA ScanExact == ASSUME NEW field \in Seq(Characters) PROVE ScanIsExact(field)
<1> SUFFICES ASSUME NEW s \in 0..Len(field), NEW w \in 0..Len(field), NEW g \in 0..1, NEW p \in 0..1,
                    NEW f, f = Len(field) - s - g - w - p, f >= 0,
                    Shape(field, s, g, w, p, f)
             PROVE  ScannedAs(field, s, g, w, p, f)
  BY Zenon DEF ScanIsExact
<1> DEFINE N == Numbers(field, s + g, w, p, f)
           M == Behind(N, w, f)
           sg == SignOf(field, s, g)
           kept == Max({-1} \cup {k \in 0..f : N[w + k] <= MAXINT})
           got == minmea_scan_f(field)
           P == PowersOfTen(f)
<1>1. f \in Nat /\ s \in Nat /\ w \in Nat
  OBVIOUS
<1>2. NumberIs(field, s, g, w, p, f)
  BY <1>1, ScanShape
<1>3. /\ sg = 0 <=> g = 0
      /\ sg = -1 <=> g = 1 /\ field[s + 1] = "-"
      /\ Says(w, f, p, sg, M, P, got)
  BY <1>2, Zenon DEF NumberIs
<1> HIDE DEF N, sg, got, P
<1>4. {k \in 0..f : M[k] <= MAXINT} = {k \in 0..f : N[w + k] <= MAXINT}
  BY DEF Behind
<1>5. /\ kept # -1 => kept \in 0..f
      /\ IF w + f = 0 THEN got = NoNumber(IF sg = 0 /\ p = 0 THEN "ok" ELSE "error")
         ELSE IF kept = -1 THEN got = NoNumber("error")
         ELSE IF P[kept] > MAXINT THEN got = NoNumber("undefined")
         ELSE got = [result |-> "ok", scale |-> P[kept],
                     value |-> IF sg = -1 THEN -M[kept] ELSE M[kept]]
  BY <1>3, <1>4, Zenon DEF Says
<1>6. sg = 0 /\ p = 0 <=> g + p = 0
  BY <1>3
<1> HIDE DEF kept
<1>7. kept # -1 => M[kept] = N[w + kept]
  BY <1>5 DEF Behind
<1> HIDE DEF M
<1>8. IF w + f = 0 THEN got = NoNumber(IF g + p = 0 THEN "ok" ELSE "error")
      ELSE IF kept = -1 THEN got = NoNumber("error")
      ELSE IF P[kept] > MAXINT THEN got = NoNumber("undefined")
      ELSE got = [result |-> "ok", scale |-> P[kept],
                  value |-> IF g = 1 /\ field[s + 1] = "-" THEN -N[w + kept] ELSE N[w + kept]]
  BY <1>3, <1>5, <1>6, <1>7
<1> QED
  BY <1>8, Zenon DEF ScannedAs, N, got, kept, P

-----------------------------------------------------------------------------
(* The tables of OBD-II *)

\* OBDII.c, the decoders: whatever an answer's length, no decoder of any command
\* reads a byte that was not received, once OBDIIResponseSuccessful has accepted
\* the answer.
THEOREM DecodersInBounds == \A c \in AllCommands, n \in Nat : DecodeInBounds(c, n)
<1> SUFFICES ASSUME NEW c \in AllCommands, NEW n \in Nat,
                    OBDIIResponseSuccessful(c, c, ReadLength(c, n)), c # NoDecoder
             PROVE  DecoderReads(c, ReadLength(c, n)) <= ReadLength(c, n)
  BY DEF DecodeInBounds
<1> DEFINE m == ReadLength(c, n)
<1>1. CASE c \in OBDIIMode1Commands
  <2>1. PICK pid \in 0..78 : c = Command(1, pid, Mode1Length(pid))
    BY <1>1 DEF OBDIIMode1Commands
  <2>2. c.mode = 1 /\ c.pid = pid /\ c.len = Mode1Length(pid)
    BY <2>1 DEF Command
  <2>3. Mode1Length(pid) \in {3, 4, 6}
    BY DEF Mode1Length
  <2>4. m = Mode1Length(pid)
    BY <2>2, <2>3 DEF OBDIIResponseSuccessful, VARIABLE_RESPONSE_LENGTH
  <2>5. DecoderReads(c, m) <= Mode1Length(pid)
    BY <2>2 DEF DecoderReads, Mode1Length
  <2> QED
    BY <2>4, <2>5
<1>2. CASE c = Command(9, 0, 6)
  BY <1>2 DEF OBDIIResponseSuccessful, VARIABLE_RESPONSE_LENGTH, DecoderReads, Command
<1>3. CASE c = Command(9, 2, VARIABLE_RESPONSE_LENGTH)
  <2>1. m \in Nat
    BY <1>3 DEF ReadLength, Command, VARIABLE_RESPONSE_LENGTH, MAX_ISOTP_PAYLOAD
  <2> QED
    BY <1>3, <2>1 DEF DecoderReads, Command
<1>4. CASE c = OBDIIMode3Command
  <2>1. m \in Nat
    BY <1>4 DEF ReadLength, OBDIIMode3Command, Command, VARIABLE_RESPONSE_LENGTH, MAX_ISOTP_PAYLOAD
  <2> QED
    BY <1>4, <2>1 DEF DecoderReads, OBDIIMode3Command, Command
<1> QED
  BY <1>1, <1>2, <1>3, <1>4 DEF AllCommands, OBDIIMode9Commands, NoDecoder

\* The PIDs from 1 to n are finitely many.
LEMMA FiniteUpTo == \A n \in Nat : IsFiniteSet(1..n)
<1> TAKE n \in Nat
<1>1. 1 \in Int /\ n \in Int
  OBVIOUS
<1> QED
  BY <1>1, FS_Interval, Zenon

\* The commands of mode 1 in the list are one more than the PIDs that the car
\* supports: PID 0 is always among them.
LEMMA Mode1Listed ==
    ASSUME NEW M \in SUBSET (1..78)
    PROVE  LET L == {c \in OBDIIMode1Commands : c.pid = 0 \/ c.pid \in M}
           IN  IsFiniteSet(M) /\ IsFiniteSet(L) /\ Cardinality(L) = Cardinality(M) + 1
<1> DEFINE L == {c \in OBDIIMode1Commands : c.pid = 0 \/ c.pid \in M}
           D == M \cup {0}
           f == [p \in D |-> Command(1, p, Mode1Length(p))]
<1>1. IsFiniteSet(M)
  <2>1. IsFiniteSet(1..78)
    BY FiniteUpTo
  <2> QED
    BY <2>1, FS_Subset
<1>2. IsFiniteSet(D) /\ Cardinality(D) = Cardinality(M) + 1
  BY <1>1, FS_AddElement
<1>3. D \subseteq 0..78
  OBVIOUS
<1>4. f \in [D -> L]
  BY <1>3 DEF OBDIIMode1Commands, Command
<1>5. \A p, q \in D : f[p] = f[q] => p = q
  BY DEF Command
<1>6. \A c \in L : \E p \in D : f[p] = c
  <2> TAKE c \in L
  <2>1. PICK p \in 0..78 : c = Command(1, p, Mode1Length(p))
    BY DEF OBDIIMode1Commands
  <2>2. c.pid = p
    BY <2>1 DEF Command
  <2> QED
    BY <2>1, <2>2
<1>7. f \in Bijection(D, L)
  <2> HIDE DEF f, D, L
  <2> QED
    BY <1>4, <1>5, <1>6 DEF Bijection, Injection, Surjection, IsInjective
<1>8. IsFiniteSet(L) /\ Cardinality(L) = Cardinality(D)
  <2> HIDE DEF f, D, L
  <2> QED
    BY <1>2, <1>7, FS_Bijection, Zenon DEF ExistsBijection
<1> QED
  BY <1>1, <1>2, <1>8

\* The same of mode 9, where PID 3 is counted and has no command.
LEMMA Mode9Listed ==
    ASSUME NEW M \in SUBSET (1..3)
    PROVE  LET L == {c \in OBDIIMode9Commands : c.pid = 0 \/ c.pid \in M}
           IN  /\ IsFiniteSet(M) /\ IsFiniteSet(L)
               /\ Cardinality(L) = Cardinality(M \ {3}) + 1
<1> DEFINE L == {c \in OBDIIMode9Commands : c.pid = 0 \/ c.pid \in M}
           N == M \ {3}
           D == N \cup {0}
           Nine(p) == Command(9, p, IF p = 0 THEN 6 ELSE IF p = 1 THEN 3 ELSE 0)
           f == [p \in D |-> Nine(p)]
<1>1. IsFiniteSet(M) /\ IsFiniteSet(N)
  <2>1. IsFiniteSet(1..3)
    BY FiniteUpTo
  <2>2. M \in SUBSET (1..3) /\ N \in SUBSET (1..3)
    OBVIOUS
  <2> QED
    BY <2>1, <2>2, FS_Subset
<1>2. IsFiniteSet(D) /\ Cardinality(D) = Cardinality(N) + 1
  BY <1>1, FS_AddElement
<1>3. D \subseteq {0, 1, 2}
  OBVIOUS
<1>4. f \in [D -> L]
  BY <1>3 DEF OBDIIMode9Commands, Command, VARIABLE_RESPONSE_LENGTH
<1>5. \A p, q \in D : f[p] = f[q] => p = q
  BY DEF Command
<1>6. \A c \in L : \E p \in D : f[p] = c
  BY DEF OBDIIMode9Commands, Command, VARIABLE_RESPONSE_LENGTH
<1>7. f \in Bijection(D, L)
  <2> HIDE DEF f, D, L
  <2> QED
    BY <1>4, <1>5, <1>6 DEF Bijection, Injection, Surjection, IsInjective
<1>8. IsFiniteSet(L) /\ Cardinality(L) = Cardinality(D)
  <2> HIDE DEF f, D, L
  <2> QED
    BY <1>2, <1>7, FS_Bijection, Zenon DEF ExistsBijection
<1> QED
  BY <1>1, <1>2, <1>8

\* OBDIIGetSupportedCommands: whatever the car answers, the commands written into
\* the array fit the number it was allocated for, and fill it unless the car
\* supports PID 3 of mode 9.
THEOREM SupportedListFits == \A car \in BitFields : ListFits(car)
<1> TAKE car \in BitFields
<1> DEFINE M1 == Mode1Supported(car)
           M9 == Mode9Supported(car)
           L1 == {c \in OBDIIMode1Commands : c.pid = 0 \/ c.pid \in M1}
           L9 == {c \in OBDIIMode9Commands : c.pid = 0 \/ c.pid \in M9}
<1>1. M1 \in SUBSET (1..78) /\ M9 \in SUBSET (1..3) /\ (3 \in M9 <=> 3 \in car[4])
  BY DEF BitFields, Mode1Supported, Mode9Supported
<1>2. IsFiniteSet(M1) /\ IsFiniteSet(L1) /\ Cardinality(L1) = Cardinality(M1) + 1
  BY <1>1, Mode1Listed
<1>3. IsFiniteSet(M9) /\ IsFiniteSet(L9) /\ Cardinality(L9) = Cardinality(M9 \ {3}) + 1
  BY <1>1, Mode9Listed
<1>4. /\ \A c \in OBDIIMode1Commands : c.mode = 1
      /\ \A c \in OBDIIMode9Commands : c.mode = 9
      /\ OBDIIMode3Command.mode = 3
  BY DEF OBDIIMode1Commands, OBDIIMode9Commands, OBDIIMode3Command, Command
<1>5. CommandList(car) = (L1 \cup L9) \cup {OBDIIMode3Command}
  BY <1>4 DEF CommandList, OBDIICommandSetContainsCommand
<1>6. L1 \cap L9 = {} /\ OBDIIMode3Command \notin L1 \cup L9
  BY <1>4
<1> HIDE DEF L1, L9, M1, M9
<1>7. IsFiniteSet(L1 \cup L9) /\ Cardinality(L1 \cup L9) = Cardinality(L1) + Cardinality(L9)
  <2>1. /\ IsFiniteSet(L1 \cup L9)
        /\ Cardinality(L1 \cup L9) = Cardinality(L1) + Cardinality(L9) - Cardinality(L1 \cap L9)
    BY <1>2, <1>3, FS_Union
  <2>2. Cardinality(L1 \cap L9) = 0
    BY <1>6, FS_EmptySet
  <2>3. Cardinality(L1) \in Nat /\ Cardinality(L9) \in Nat
    BY <1>2, <1>3, FS_CardinalityType
  <2> QED
    BY <2>1, <2>2, <2>3
<1>8. Cardinality(CommandList(car)) = Cardinality(L1) + Cardinality(L9) + 1
  BY <1>5, <1>6, <1>7, FS_AddElement
<1>9. /\ Cardinality(M1) \in Nat /\ Cardinality(M9) \in Nat
      /\ Cardinality(M9 \ {3}) = IF 3 \in M9 THEN Cardinality(M9) - 1 ELSE Cardinality(M9)
  BY <1>2, <1>3, FS_RemoveElement, FS_CardinalityType
<1>10. NumCommands(car) = Cardinality(M1) + Cardinality(M9) + 2 + 1
  BY DEF NumCommands, M1, M9
<1> QED
  BY <1>1, <1>2, <1>3, <1>8, <1>9, <1>10 DEF ListFits

-----------------------------------------------------------------------------
(* The configuration file *)

\* The loop of the parser over the characters of a file, and a file as its lines
\* put together one by one.
ParserRun(file, S) ==
    S[0] = Start /\ \A i \in 1..Len(file) : S[i] = Character(S[i - 1], file[i])

LEMMA ParserSteps ==
    ASSUME NEW file, Len(file) \in Nat
    PROVE  \E S : ParserRun(file, S) /\ Parse(file) = S[Len(file)]
<1> DEFINE n == Len(file)
           Def(m, h) == h = [i \in 0..m |-> IF i = 0 THEN Start ELSE Character(h[i - 1], file[i])]
           T == {m \in 0..n : \E h : Def(m, h)}
<1>1. 0 \in T
  <2> DEFINE h == [i \in 0..0 |-> Start]
  <2>1. \A i \in 0..0 : i = 0
    OBVIOUS
  <2>2. Def(0, h)
    BY <2>1, Zenon
  <2> HIDE DEF Def, h
  <2> QED
    BY <2>2
<1>2. ASSUME NEW m \in 1..n, m - 1 \in T PROVE m \in T
  <2>1. PICK h : Def(m - 1, h)
    BY <1>2
  <2> DEFINE x == Character(h[m - 1], file[m])
             k == [i \in 0..m |-> IF i = m THEN x ELSE h[i]]
  <2>2. \A i \in 0..m : k[i] = IF i = 0 THEN Start ELSE Character(k[i - 1], file[i])
    <3> SUFFICES ASSUME NEW i \in 0..m
                 PROVE  k[i] = IF i = 0 THEN Start ELSE Character(k[i - 1], file[i])
      OBVIOUS
    <3>1. CASE i = 0
      <4>1. 0 \in 0..(m - 1) /\ k[0] = h[0]
        OBVIOUS
      <4>2. h[0] = Start
        BY <2>1, <4>1, Zenon
      <4> QED
        BY <3>1, <4>1, <4>2
    <3>2. CASE i = m
      <4>1. k[i] = x /\ k[i - 1] = h[m - 1] /\ i # 0
        BY <3>2
      <4> QED
        BY <3>2, <4>1
    <3>3. CASE i # 0 /\ i # m
      <4>1. i \in 0..(m - 1) /\ k[i] = h[i] /\ k[i - 1] = h[i - 1]
        BY <3>3
      <4>2. h[i] = Character(h[i - 1], file[i])
        BY <2>1, <3>3, <4>1, Zenon
      <4> QED
        BY <3>3, <4>1, <4>2
    <3> QED
      BY <3>1, <3>2, <3>3
  <2>3. Def(m, k)
    BY <2>2, Zenon
  <2> HIDE DEF Def
  <2> QED
    BY <2>3
<1>3. T \in SUBSET (0..n)
  OBVIOUS
<1>4. n \in T
  <2> HIDE DEF T
  <2>1. T = 0..n
    BY <1>1, <1>2, <1>3, Climb
  <2> QED
    BY <2>1
<1> DEFINE S == CHOOSE h : Def(n, h)
<1>5. Def(n, S)
  BY <1>4, Zenon
<1>6. Parse(file) = S[n]
  BY Zenon DEF Parse
<1> HIDE DEF S
<1>7. ParserRun(file, S)
  <2>1. \A i \in 0..n : S[i] = IF i = 0 THEN Start ELSE Character(S[i - 1], file[i])
    BY <1>5, Zenon
  <2>2. 0 \in 0..n /\ \A i \in 1..n : i \in 0..n /\ i # 0
    OBVIOUS
  <2> QED
    BY <2>1, <2>2 DEF ParserRun
<1> QED
  BY <1>6, <1>7

FileRun(lines, F) ==
    F[0] = <<>> /\ \A i \in 1..Len(lines) : F[i] = F[i - 1] \o lines[i]

LEMMA FileSteps ==
    ASSUME NEW lines, Len(lines) \in Nat
    PROVE  \E F : FileRun(lines, F) /\ FileOf(lines) = F[Len(lines)]
<1> DEFINE n == Len(lines)
           Def(m, h) == h = [i \in 0..m |-> IF i = 0 THEN <<>> ELSE h[i - 1] \o lines[i]]
           T == {m \in 0..n : \E h : Def(m, h)}
<1>1. 0 \in T
  <2> DEFINE h == [i \in 0..0 |-> <<>>]
  <2>1. \A i \in 0..0 : i = 0
    OBVIOUS
  <2>2. Def(0, h)
    BY <2>1, Zenon
  <2> HIDE DEF Def, h
  <2> QED
    BY <2>2
<1>2. ASSUME NEW m \in 1..n, m - 1 \in T PROVE m \in T
  <2>1. PICK h : Def(m - 1, h)
    BY <1>2
  <2> DEFINE x == h[m - 1] \o lines[m]
             k == [i \in 0..m |-> IF i = m THEN x ELSE h[i]]
  <2>2. \A i \in 0..m : k[i] = IF i = 0 THEN <<>> ELSE k[i - 1] \o lines[i]
    <3> SUFFICES ASSUME NEW i \in 0..m
                 PROVE  k[i] = IF i = 0 THEN <<>> ELSE k[i - 1] \o lines[i]
      OBVIOUS
    <3>1. CASE i = 0
      <4>1. 0 \in 0..(m - 1) /\ k[0] = h[0]
        OBVIOUS
      <4>2. h[0] = <<>>
        BY <2>1, <4>1, Zenon
      <4> QED
        BY <3>1, <4>1, <4>2
    <3>2. CASE i = m
      <4>1. k[i] = x /\ k[i - 1] = h[m - 1] /\ i # 0
        BY <3>2
      <4> QED
        BY <3>2, <4>1
    <3>3. CASE i # 0 /\ i # m
      <4>1. i \in 0..(m - 1) /\ k[i] = h[i] /\ k[i - 1] = h[i - 1]
        BY <3>3
      <4>2. h[i] = h[i - 1] \o lines[i]
        BY <2>1, <3>3, <4>1, Zenon
      <4> QED
        BY <3>3, <4>1, <4>2
    <3> QED
      BY <3>1, <3>2, <3>3
  <2>3. Def(m, k)
    BY <2>2, Zenon
  <2> HIDE DEF Def
  <2> QED
    BY <2>3
<1>3. T \in SUBSET (0..n)
  OBVIOUS
<1>4. n \in T
  <2> HIDE DEF T
  <2>1. T = 0..n
    BY <1>1, <1>2, <1>3, Climb
  <2> QED
    BY <2>1
<1> DEFINE F == CHOOSE h : Def(n, h)
<1>5. Def(n, F)
  BY <1>4, Zenon
<1>6. FileOf(lines) = F[n]
  BY Zenon DEF FileOf
<1> HIDE DEF F
<1>7. FileRun(lines, F)
  <2>1. \A i \in 0..n : F[i] = IF i = 0 THEN <<>> ELSE F[i - 1] \o lines[i]
    BY <1>5, Zenon
  <2>2. 0 \in 0..n /\ \A i \in 1..n : i \in 0..n /\ i # 0
    OBVIOUS
  <2> QED
    BY <2>1, <2>2 DEF FileRun
<1> QED
  BY <1>6, <1>7

\* The variables of the loop where a line begins, in a name, in a value and in a
\* comment: p is the position, t and g are the tokens of the line and of the group.
CfgState(p, v, n, m, t, g, ts) ==
    [pos |-> p, value_started |-> v, new_line |-> n, comment_line |-> m,
     token |-> t, group |-> g, count |-> t - 1, tokens |-> ts]

LineBegin(p, t, g, ts)    == CfgState(p, FALSE, TRUE, FALSE, t, g, ts)
InName(p, t, g, ts)       == CfgState(p, FALSE, FALSE, FALSE, t, g, ts)
InValue(p, t, g, ts)      == CfgState(p, TRUE, FALSE, FALSE, t, g, ts)
InComment(p, t, g, ts)    == CfgState(p, FALSE, FALSE, TRUE, t, g, ts)
PastEquals(p, t, g, ts)   == CfgState(p, TRUE, FALSE, TRUE, t, g, ts)

\* The tokens with one that begins, with an option counted, with the place of a '='
\* and with an end.
TokenBegun(ts, t, p, z, e, l) ==
    [ts EXCEPT ![t] = [start |-> p, end |-> p, size |-> z, eq_sign_idx |-> e, level |-> l]]
Counted(ts, g)   == [ts EXCEPT ![g].size = @ + 1]
Equals(ts, t, p) == [ts EXCEPT ![t].eq_sign_idx = p]
Ended(ts, t, p)  == Append([ts EXCEPT ![t].end = p], NoToken)

\* One character: in a name, a value or a comment,
LEMMA NameChar ==
    ASSUME NEW p, NEW t, NEW g, NEW ts, NEW c, c \notin {NL, "="}
    PROVE  Character(InName(p, t, g, ts), c) = InName(p + 1, t, g, ts)
<1> DEFINE s == InName(p, t, g, ts)
<1>1. s = CfgState(p, FALSE, FALSE, FALSE, t, g, ts)
  BY DEF InName
<1> HIDE DEF s
<1>2. s.new_line = FALSE
  BY <1>1 DEF CfgState
<1>3. Character(s, c) = [s EXCEPT !.pos = @ + 1]
  BY <1>2, Zenon DEF Character
<1>4. Character(s, c) = CfgState(p + 1, FALSE, FALSE, FALSE, t, g, ts)
  BY <1>1, <1>3 DEF CfgState
<1> QED
  BY <1>4 DEF InName, s

LEMMA ValueChar ==
    ASSUME NEW p, NEW t, NEW g, NEW ts, NEW c, c # NL
    PROVE  Character(InValue(p, t, g, ts), c) = InValue(p + 1, t, g, ts)
<1> DEFINE s == InValue(p, t, g, ts)
<1>1. s = CfgState(p, TRUE, FALSE, FALSE, t, g, ts)
  BY DEF InValue
<1> HIDE DEF s
<1>2. s.new_line = FALSE /\ s.value_started
  BY <1>1 DEF CfgState
<1>3. Character(s, c) = [s EXCEPT !.pos = @ + 1]
  BY <1>2, Zenon DEF Character
<1>4. Character(s, c) = CfgState(p + 1, TRUE, FALSE, FALSE, t, g, ts)
  BY <1>1, <1>3 DEF CfgState
<1> QED
  BY <1>4 DEF InValue, s

LEMMA CommentChar ==
    ASSUME NEW p, NEW t, NEW g, NEW ts, NEW c, c \notin {NL, "="}
    PROVE  /\ Character(InComment(p, t, g, ts), c) = InComment(p + 1, t, g, ts)
           /\ Character(PastEquals(p, t, g, ts), c) = PastEquals(p + 1, t, g, ts)
<1>1. Character(InComment(p, t, g, ts), c) = InComment(p + 1, t, g, ts)
  <2> DEFINE s == InComment(p, t, g, ts)
  <2>1. s = CfgState(p, FALSE, FALSE, TRUE, t, g, ts)
    BY DEF InComment
  <2> HIDE DEF s
  <2>2. s.new_line = FALSE
    BY <2>1 DEF CfgState
  <2>3. Character(s, c) = [s EXCEPT !.pos = @ + 1]
    BY <2>2, Zenon DEF Character
  <2>4. Character(s, c) = CfgState(p + 1, FALSE, FALSE, TRUE, t, g, ts)
    BY <2>1, <2>3 DEF CfgState
  <2> QED
    BY <2>4 DEF InComment, s
<1>2. Character(PastEquals(p, t, g, ts), c) = PastEquals(p + 1, t, g, ts)
  <2> DEFINE s == PastEquals(p, t, g, ts)
  <2>1. s = CfgState(p, TRUE, FALSE, TRUE, t, g, ts)
    BY DEF PastEquals
  <2> HIDE DEF s
  <2>2. s.new_line = FALSE
    BY <2>1 DEF CfgState
  <2>3. Character(s, c) = [s EXCEPT !.pos = @ + 1]
    BY <2>2, Zenon DEF Character
  <2>4. Character(s, c) = CfgState(p + 1, TRUE, FALSE, TRUE, t, g, ts)
    BY <2>1, <2>3 DEF CfgState
  <2> QED
    BY <2>4 DEF PastEquals, s
<1> QED
  BY <1>1, <1>2

\* the first '=' of a line,
LEMMA EqualsChar ==
    ASSUME NEW p, NEW t, NEW g, NEW ts
    PROVE  /\ Character(InName(p, t, g, ts), "=") = InValue(p + 1, t, g, Equals(ts, t, p))
           /\ Character(InComment(p, t, g, ts), "=") = PastEquals(p + 1, t, g, Equals(ts, t, p))
<1>1. Character(InName(p, t, g, ts), "=") = InValue(p + 1, t, g, Equals(ts, t, p))
  <2> DEFINE s == InName(p, t, g, ts)
             us == [s.tokens EXCEPT ![s.token].eq_sign_idx = s.pos]
             r == [s EXCEPT !.value_started = TRUE, !.tokens[s.token].eq_sign_idx = s.pos]
  <2>1. s = CfgState(p, FALSE, FALSE, FALSE, t, g, ts)
    BY DEF InName
  <2>2. r = [s EXCEPT !.value_started = TRUE, !.tokens = us]
    BY <2>1, Zenon
  <2> HIDE DEF s
  <2>3. s.new_line = FALSE /\ s.value_started = FALSE /\ s.tokens = ts /\ s.token = t /\ s.pos = p
    BY <2>1 DEF CfgState
  <2>4. us = Equals(ts, t, p)
    BY <2>3, Zenon DEF Equals
  <2>5. Character(s, "=") = [r EXCEPT !.pos = @ + 1]
    BY <2>3, Zenon DEF Character, NL
  <2> HIDE DEF r, us
  <2>6. r = CfgState(p, TRUE, FALSE, FALSE, t, g, us)
    BY <2>1, <2>2 DEF CfgState
  <2>7. Character(s, "=") = CfgState(p + 1, TRUE, FALSE, FALSE, t, g, us)
    BY <2>5, <2>6 DEF CfgState
  <2> QED
    BY <2>4, <2>7 DEF InValue, s
<1>2. Character(InComment(p, t, g, ts), "=") = PastEquals(p + 1, t, g, Equals(ts, t, p))
  <2> DEFINE s == InComment(p, t, g, ts)
             us == [s.tokens EXCEPT ![s.token].eq_sign_idx = s.pos]
             r == [s EXCEPT !.value_started = TRUE, !.tokens[s.token].eq_sign_idx = s.pos]
  <2>1. s = CfgState(p, FALSE, FALSE, TRUE, t, g, ts)
    BY DEF InComment
  <2>2. r = [s EXCEPT !.value_started = TRUE, !.tokens = us]
    BY <2>1, Zenon
  <2> HIDE DEF s
  <2>3. s.new_line = FALSE /\ s.value_started = FALSE /\ s.tokens = ts /\ s.token = t /\ s.pos = p
    BY <2>1 DEF CfgState
  <2>4. us = Equals(ts, t, p)
    BY <2>3, Zenon DEF Equals
  <2>5. Character(s, "=") = [r EXCEPT !.pos = @ + 1]
    BY <2>3, Zenon DEF Character, NL
  <2> HIDE DEF r, us
  <2>6. r = CfgState(p, TRUE, FALSE, TRUE, t, g, us)
    BY <2>1, <2>2 DEF CfgState
  <2>7. Character(s, "=") = CfgState(p + 1, TRUE, FALSE, TRUE, t, g, us)
    BY <2>5, <2>6 DEF CfgState
  <2> QED
    BY <2>4, <2>7 DEF PastEquals, s
<1> QED
  BY <1>1, <1>2

\* the first of a line,
LEMMA CommentFirst ==
    ASSUME NEW p, NEW t, NEW g, NEW ts
    PROVE  Character(LineBegin(p, t, g, ts), "#") = InComment(p + 1, t, g, ts)
<1> DEFINE s == LineBegin(p, t, g, ts)
           r == [s EXCEPT !.comment_line = TRUE, !.new_line = FALSE]
<1>1. s = CfgState(p, FALSE, TRUE, FALSE, t, g, ts)
  BY DEF LineBegin
<1> HIDE DEF s
<1>2. s.new_line
  BY <1>1 DEF CfgState
<1>3. Character(s, "#") = [r EXCEPT !.pos = @ + 1]
  BY <1>2, Zenon DEF Character, NL
<1>4. r = [s EXCEPT !.comment_line = TRUE, !.new_line = FALSE]
  OBVIOUS
<1> HIDE DEF r
<1>5. r = CfgState(p, FALSE, FALSE, TRUE, t, g, ts)
  BY <1>1, <1>4 DEF CfgState
<1>6. Character(s, "#") = CfgState(p + 1, FALSE, FALSE, TRUE, t, g, ts)
  BY <1>3, <1>5 DEF CfgState
<1> QED
  BY <1>6 DEF InComment, s

LEMMA GroupFirst ==
    ASSUME NEW p, NEW t, NEW g, NEW ts
    PROVE  Character(LineBegin(p, t, g, ts), "[") =
             InName(p + 1, t, t, TokenBegun(ts, t, p + 1, 0, ts[t].eq_sign_idx, "group"))
<1> DEFINE s == LineBegin(p, t, g, ts)
           us == TokenBegun(ts, t, p + 1, 0, ts[t].eq_sign_idx, "group")
           r == LineStart(s, "[")
<1>1. s = CfgState(p, FALSE, TRUE, FALSE, t, g, ts)
  BY DEF LineBegin
<1> HIDE DEF s
<1>2. s.new_line /\ s.tokens = ts /\ s.token = t /\ s.pos = p
  BY <1>1 DEF CfgState
<1>3. Character(s, "[") = [r EXCEPT !.pos = @ + 1]
  BY <1>2, Zenon DEF Character, NL
<1>4. r = [s EXCEPT !.group = t, !.tokens = us, !.new_line = FALSE]
  BY <1>2, Zenon DEF LineStart, TokenBegun
<1> HIDE DEF r, us
<1>5. r = CfgState(p, FALSE, FALSE, FALSE, t, t, us)
  BY <1>1, <1>4 DEF CfgState
<1>6. Character(s, "[") = CfgState(p + 1, FALSE, FALSE, FALSE, t, t, us)
  BY <1>3, <1>5 DEF CfgState
<1> QED
  BY <1>6 DEF InName, s, us

LEMMA OptionFirst ==
    ASSUME NEW p, NEW t, NEW g, NEW ts, NEW c, c \notin {"#", "["}
    PROVE  Character(LineBegin(p, t, g, ts), c) =
             InName(p + 1, t, g, TokenBegun(Counted(ts, g), t, p, 1, p, "option"))
<1> DEFINE s == LineBegin(p, t, g, ts)
           us == TokenBegun(Counted(ts, g), t, p, 1, p, "option")
           r == LineStart(s, c)
<1>1. s = CfgState(p, FALSE, TRUE, FALSE, t, g, ts)
  BY DEF LineBegin
<1> HIDE DEF s
<1>2. s.new_line /\ s.tokens = ts /\ s.token = t /\ s.pos = p /\ s.group = g
  BY <1>1 DEF CfgState
<1>3. Character(s, c) = [r EXCEPT !.pos = @ + 1]
  BY <1>2, Zenon DEF Character
<1>4. r = [s EXCEPT !.group = g, !.tokens = us, !.new_line = FALSE]
  <2>1. r = [s EXCEPT !.group = @, !.tokens = us, !.new_line = FALSE]
    BY <1>2, Zenon DEF LineStart, TokenBegun, Counted
  <2> QED
    BY <1>2, <2>1, Zenon
<1> HIDE DEF r, us
<1>5. r = CfgState(p, FALSE, FALSE, FALSE, t, g, us)
  BY <1>1, <1>4 DEF CfgState
<1>6. Character(s, c) = CfgState(p + 1, FALSE, FALSE, FALSE, t, g, us)
  BY <1>3, <1>5 DEF CfgState
<1> QED
  BY <1>6 DEF InName, s, us

\* and its end.
LEMMA CommentEnd ==
    ASSUME NEW p, NEW t, NEW g, NEW ts
    PROVE  Character(PastEquals(p, t, g, ts), NL) = LineBegin(p + 1, t, g, ts)
<1> DEFINE s == PastEquals(p, t, g, ts)
           r == LineEnd(s)
<1>1. s = CfgState(p, TRUE, FALSE, TRUE, t, g, ts)
  BY DEF PastEquals
<1> HIDE DEF s
<1>2. s.new_line = FALSE /\ s.comment_line
  BY <1>1 DEF CfgState
<1>3. Character(s, NL) = [r EXCEPT !.pos = @ + 1]
  BY <1>2, Zenon DEF Character, NL
<1>4. r = [s EXCEPT !.value_started = FALSE, !.comment_line = FALSE, !.new_line = TRUE]
  BY <1>2, Zenon DEF LineEnd
<1> HIDE DEF r
<1>5. r = CfgState(p, FALSE, TRUE, FALSE, t, g, ts)
  BY <1>1, <1>4 DEF CfgState
<1>6. Character(s, NL) = CfgState(p + 1, FALSE, TRUE, FALSE, t, g, ts)
  BY <1>3, <1>5 DEF CfgState
<1> QED
  BY <1>6 DEF LineBegin, s

LEMMA GroupEnd ==
    ASSUME NEW p, NEW t \in Nat, NEW ts
    PROVE  Character(InName(p, t, t, ts), NL) = LineBegin(p + 1, t + 1, t, Ended(ts, t, p - 1))
<1> DEFINE s == InName(p, t, t, ts)
           us == Ended(ts, t, p - 1)
           r == LineEnd(s)
<1>1. s = CfgState(p, FALSE, FALSE, FALSE, t, t, ts)
  BY DEF InName
<1> HIDE DEF s
<1>2. /\ s.new_line = FALSE /\ s.comment_line = FALSE /\ s.tokens = ts
      /\ s.token = t /\ s.pos = p /\ s.group = t /\ s.count = t - 1
  BY <1>1 DEF CfgState
<1>3. Character(s, NL) = [r EXCEPT !.pos = @ + 1]
  BY <1>2, Zenon DEF Character, NL
<1>4. r = [s EXCEPT !.value_started = FALSE, !.new_line = TRUE, !.tokens = us,
                    !.count = @ + 1, !.token = @ + 1]
  BY <1>2, Zenon DEF LineEnd, Ended
<1> HIDE DEF r, us
<1>5. (t + 1) - 1 = (t - 1) + 1
  OBVIOUS
<1>6. r = CfgState(p, FALSE, TRUE, FALSE, t + 1, t, us)
  BY <1>1, <1>4, <1>5 DEF CfgState
<1>7. Character(s, NL) = CfgState(p + 1, FALSE, TRUE, FALSE, t + 1, t, us)
  BY <1>3, <1>6 DEF CfgState
<1> QED
  BY <1>7 DEF LineBegin, s, us

LEMMA OptionEnd ==
    ASSUME NEW p, NEW t \in Nat, NEW g, g # t, NEW ts
    PROVE  Character(InValue(p, t, g, ts), NL) = LineBegin(p + 1, t + 1, g, Ended(ts, t, p))
<1> DEFINE s == InValue(p, t, g, ts)
           us == Ended(ts, t, p)
           r == LineEnd(s)
<1>1. s = CfgState(p, TRUE, FALSE, FALSE, t, g, ts)
  BY DEF InValue
<1> HIDE DEF s
<1>2. /\ s.new_line = FALSE /\ s.comment_line = FALSE /\ s.tokens = ts
      /\ s.token = t /\ s.pos = p /\ s.group = g /\ s.count = t - 1
  BY <1>1 DEF CfgState
<1>3. Character(s, NL) = [r EXCEPT !.pos = @ + 1]
  BY <1>2, Zenon DEF Character, NL
<1>4. r = [s EXCEPT !.value_started = FALSE, !.new_line = TRUE, !.tokens = us,
                    !.count = @ + 1, !.token = @ + 1]
  BY <1>2, Zenon DEF LineEnd, Ended
<1> HIDE DEF r, us
<1>5. (t + 1) - 1 = (t - 1) + 1
  OBVIOUS
<1>6. r = CfgState(p, FALSE, TRUE, FALSE, t + 1, g, us)
  BY <1>1, <1>4, <1>5 DEF CfgState
<1>7. Character(s, NL) = CfgState(p + 1, FALSE, TRUE, FALSE, t + 1, g, us)
  BY <1>3, <1>6 DEF CfgState
<1> QED
  BY <1>7 DEF LineBegin, s, us

\* Characters of a name, and of a value, one after the other.
LEMMA NameWalk ==
    ASSUME NEW file, NEW S, ParserRun(file, S), Len(file) \in Nat,
           NEW a \in Nat, NEW b \in Nat, a <= b, b <= Len(file),
           NEW t, NEW g, NEW ts, S[a] = InName(a, t, g, ts),
           \A i \in (a + 1)..b : file[i] \notin {NL, "="}
    PROVE  S[b] = InName(b, t, g, ts)
<1> DEFINE m == b - a
           T == {d \in 0..m : S[a + d] = InName(a + d, t, g, ts)}
<1>1. m \in Nat /\ a + m = b
  OBVIOUS
<1>2. T \in SUBSET (0..m) /\ 0 \in T
  <2>1. a + 0 = a /\ 0 \in 0..m
    BY <1>1
  <2> QED
    BY <2>1
<1>3. ASSUME NEW d \in 1..m, d - 1 \in T PROVE d \in T
  <2>1. /\ a + d \in 1..Len(file) /\ a + d \in (a + 1)..b
        /\ (a + d) - 1 = a + (d - 1) /\ (a + (d - 1)) + 1 = a + d
    OBVIOUS
  <2>2. S[a + d] = Character(S[a + (d - 1)], file[a + d]) /\ file[a + d] \notin {NL, "="}
    BY <2>1 DEF ParserRun
  <2>3. S[a + (d - 1)] = InName(a + (d - 1), t, g, ts)
    BY <1>3
  <2>4. S[a + d] = InName((a + (d - 1)) + 1, t, g, ts)
    BY <2>2, <2>3, NameChar
  <2> QED
    BY <2>1, <2>4
<1> HIDE DEF T, m
<1>4. T = 0..m
  BY <1>1, <1>2, <1>3, Climb
<1>5. m \in T
  BY <1>1, <1>4
<1>6. S[a + m] = InName(a + m, t, g, ts)
  BY <1>5 DEF T
<1> QED
  BY <1>1, <1>6

LEMMA ValueWalk ==
    ASSUME NEW file, NEW S, ParserRun(file, S), Len(file) \in Nat,
           NEW a \in Nat, NEW b \in Nat, a <= b, b <= Len(file),
           NEW t, NEW g, NEW ts, S[a] = InValue(a, t, g, ts),
           \A i \in (a + 1)..b : file[i] # NL
    PROVE  S[b] = InValue(b, t, g, ts)
<1> DEFINE m == b - a
           T == {d \in 0..m : S[a + d] = InValue(a + d, t, g, ts)}
<1>1. m \in Nat /\ a + m = b
  OBVIOUS
<1>2. T \in SUBSET (0..m) /\ 0 \in T
  <2>1. a + 0 = a /\ 0 \in 0..m
    BY <1>1
  <2> QED
    BY <2>1
<1>3. ASSUME NEW d \in 1..m, d - 1 \in T PROVE d \in T
  <2>1. /\ a + d \in 1..Len(file) /\ a + d \in (a + 1)..b
        /\ (a + d) - 1 = a + (d - 1) /\ (a + (d - 1)) + 1 = a + d
    OBVIOUS
  <2>2. S[a + d] = Character(S[a + (d - 1)], file[a + d]) /\ file[a + d] # NL
    BY <2>1 DEF ParserRun
  <2>3. S[a + (d - 1)] = InValue(a + (d - 1), t, g, ts)
    BY <1>3
  <2>4. S[a + d] = InValue((a + (d - 1)) + 1, t, g, ts)
    BY <2>2, <2>3, ValueChar
  <2> QED
    BY <2>1, <2>4
<1> HIDE DEF T, m
<1>4. T = 0..m
  BY <1>1, <1>2, <1>3, Climb
<1>5. m \in T
  BY <1>1, <1>4
<1>6. S[a + m] = InValue(a + m, t, g, ts)
  BY <1>5 DEF T
<1> QED
  BY <1>1, <1>6

\* What the parser tells apart in a line that stands at a in a file and is n
\* characters long: a comment, a group, an option whose name has w characters.
CommentAt(file, a) ==
    /\ file[a + 1] = "#" /\ file[a + 2] \notin {NL, "="} /\ file[a + 3] = "="
    /\ file[a + 4] \notin {NL, "="} /\ file[a + 5] = NL

GroupAt(file, a, w) ==
    /\ file[a + 1] = "[" /\ \A i \in 2..(w + 2) : file[a + i] \notin {NL, "="}
    /\ file[a + w + 3] = NL

OptionAt(file, a, w, v) ==
    /\ file[a + 1] \notin {"#", "["} /\ \A i \in 2..w : file[a + i] \notin {NL, "="}
    /\ file[a + w + 1] = "=" /\ \A i \in 1..v : file[a + w + 1 + i] # NL
    /\ file[a + w + v + 2] = NL

\* What a line makes of the tokens.
AfterComment(ts, t, a) == Equals(ts, t, a + 2)
AfterGroup(ts, t, a, w) == Ended(TokenBegun(ts, t, a + 1, 0, ts[t].eq_sign_idx, "group"), t, a + w + 1)
AfterOption(ts, t, g, a, w, v) ==
    Ended(Equals(TokenBegun(Counted(ts, g), t, a, 1, a, "option"), t, a + w), t, a + w + v + 1)

LEMMA CommentLine ==
    ASSUME NEW file, NEW S, ParserRun(file, S), NEW a \in Nat, Len(file) \in Nat, a + 5 <= Len(file),
           CommentAt(file, a), NEW t, NEW g, NEW ts, S[a] = LineBegin(a, t, g, ts)
    PROVE  S[a + 5] = LineBegin(a + 5, t, g, AfterComment(ts, t, a))
<1>1. ASSUME NEW i \in 1..5 PROVE S[a + i] = Character(S[(a + i) - 1], file[a + i])
  BY DEF ParserRun
<1>2. /\ (a + 1) - 1 = a /\ (a + 2) - 1 = a + 1 /\ (a + 3) - 1 = a + 2 /\ (a + 4) - 1 = a + 3
      /\ (a + 5) - 1 = a + 4 /\ (a + 1) + 1 = a + 2 /\ (a + 2) + 1 = a + 3 /\ (a + 3) + 1 = a + 4
      /\ (a + 4) + 1 = a + 5
  OBVIOUS
<1>3. S[a + 1] = InComment(a + 1, t, g, ts)
  BY <1>1, <1>2, CommentFirst DEF CommentAt
<1>4. S[a + 2] = InComment(a + 2, t, g, ts)
  BY <1>1, <1>2, <1>3, CommentChar DEF CommentAt
<1>5. S[a + 3] = PastEquals(a + 3, t, g, Equals(ts, t, a + 2))
  BY <1>1, <1>2, <1>4, EqualsChar DEF CommentAt
<1>6. S[a + 4] = PastEquals(a + 4, t, g, Equals(ts, t, a + 2))
  BY <1>1, <1>2, <1>5, CommentChar DEF CommentAt
<1>7. S[a + 5] = LineBegin(a + 5, t, g, Equals(ts, t, a + 2))
  BY <1>1, <1>2, <1>6, CommentEnd DEF CommentAt
<1> QED
  BY <1>7 DEF AfterComment

GroupHere(file, S, a, w, t, g, ts) ==
    /\ ParserRun(file, S) /\ Len(file) \in Nat /\ a \in Nat /\ w \in Nat /\ t \in Nat
    /\ a + w + 3 <= Len(file) /\ GroupAt(file, a, w) /\ S[a] = LineBegin(a, t, g, ts)

LEMMA GroupLine ==
    ASSUME NEW file, NEW S, NEW a, NEW w, NEW t, NEW g, NEW ts, GroupHere(file, S, a, w, t, g, ts)
    PROVE  S[a + w + 3] = LineBegin(a + w + 3, t + 1, t, AfterGroup(ts, t, a, w))
<1> USE DEF GroupHere
<1> DEFINE us == TokenBegun(ts, t, a + 1, 0, ts[t].eq_sign_idx, "group")
<1>1. S[a + 1] = InName(a + 1, t, t, us)
  <2>1. S[a + 1] = Character(S[(a + 1) - 1], file[a + 1]) /\ (a + 1) - 1 = a
    BY DEF ParserRun
  <2> QED
    BY <2>1, GroupFirst DEF GroupAt
<1> HIDE DEF us
<1>3. S[a + w + 2] = InName(a + w + 2, t, t, us)
  <2> DEFINE b == a + 1
             e == a + w + 2
  <2>1. b \in Nat /\ e \in Nat /\ b <= e /\ e <= Len(file)
    OBVIOUS
  <2>2. ASSUME NEW i \in (b + 1)..e PROVE file[i] \notin {NL, "="}
    <3>1. i - a \in 2..(w + 2) /\ i = a + (i - a)
      OBVIOUS
    <3> QED
      BY <3>1 DEF GroupAt
  <2>3. S[b] = InName(b, t, t, us)
    BY <1>1
  <2> HIDE DEF b, e
  <2>4. S[e] = InName(e, t, t, us)
    BY <2>1, <2>2, <2>3, NameWalk
  <2> QED
    BY <2>4 DEF e
<1>4. S[a + w + 3] = Character(S[a + w + 2], NL)
  <2>1. a + w + 3 \in 1..Len(file) /\ (a + w + 3) - 1 = a + w + 2
    OBVIOUS
  <2> QED
    BY <2>1 DEF ParserRun, GroupAt
<1>5. (a + w + 2) + 1 = a + w + 3 /\ (a + w + 2) - 1 = a + w + 1
  OBVIOUS
<1>7. S[a + w + 3] = LineBegin((a + w + 2) + 1, t + 1, t, Ended(us, t, (a + w + 2) - 1))
  BY <1>3, <1>4, GroupEnd
<1> QED
  BY <1>5, <1>7 DEF AfterGroup, us

OptionHere(file, S, a, w, v, t, g, ts) ==
    /\ ParserRun(file, S) /\ Len(file) \in Nat /\ a \in Nat /\ w \in Nat \ {0} /\ v \in Nat
    /\ a + w + v + 2 <= Len(file) /\ OptionAt(file, a, w, v) /\ S[a] = LineBegin(a, t, g, ts)
    /\ t \in Nat /\ g # t

LEMMA OptionLine ==
    ASSUME NEW file, NEW S, NEW a, NEW w, NEW v, NEW t, NEW g, NEW ts,
           OptionHere(file, S, a, w, v, t, g, ts)
    PROVE  S[a + w + v + 2] = LineBegin(a + w + v + 2, t + 1, g, AfterOption(ts, t, g, a, w, v))
<1> USE DEF OptionHere
<1> DEFINE us == TokenBegun(Counted(ts, g), t, a, 1, a, "option")
           vs == Equals(us, t, a + w)
<1>1. S[a + 1] = InName(a + 1, t, g, us)
  <2>1. S[a + 1] = Character(S[(a + 1) - 1], file[a + 1]) /\ (a + 1) - 1 = a
    BY DEF ParserRun
  <2> QED
    BY <2>1, OptionFirst DEF OptionAt
<1> HIDE DEF us, vs
<1>2. S[a + w] = InName(a + w, t, g, us)
  <2> DEFINE b == a + 1
             e == a + w
  <2>1. b \in Nat /\ e \in Nat /\ b <= e /\ e <= Len(file)
    OBVIOUS
  <2>2. ASSUME NEW i \in (b + 1)..e PROVE file[i] \notin {NL, "="}
    <3>1. i - a \in 2..w /\ i = a + (i - a)
      OBVIOUS
    <3> QED
      BY <3>1 DEF OptionAt
  <2>3. S[b] = InName(b, t, g, us)
    BY <1>1
  <2> HIDE DEF b, e
  <2>4. S[e] = InName(e, t, g, us)
    BY <2>1, <2>2, <2>3, NameWalk
  <2> QED
    BY <2>4 DEF e
<1>3. S[a + w + 1] = InValue(a + w + 1, t, g, vs)
  <2>1. a + w + 1 \in 1..Len(file) /\ (a + w + 1) - 1 = a + w /\ (a + w) + 1 = a + w + 1
    OBVIOUS
  <2>2. S[a + w + 1] = Character(S[a + w], "=")
    BY <2>1 DEF ParserRun, OptionAt
  <2> QED
    BY <1>2, <2>1, <2>2, EqualsChar DEF vs
<1>4. S[a + w + v + 1] = InValue(a + w + v + 1, t, g, vs)
  <2> DEFINE b == a + w + 1
             e == a + w + v + 1
  <2>1. b \in Nat /\ e \in Nat /\ b <= e /\ e <= Len(file)
    OBVIOUS
  <2>2. ASSUME NEW i \in (b + 1)..e PROVE file[i] # NL
    <3>1. i - b \in 1..v /\ i = a + w + 1 + (i - b)
      OBVIOUS
    <3> QED
      BY <3>1 DEF OptionAt
  <2>3. S[b] = InValue(b, t, g, vs)
    BY <1>3
  <2> HIDE DEF b, e
  <2>4. S[e] = InValue(e, t, g, vs)
    BY <2>1, <2>2, <2>3, ValueWalk
  <2> QED
    BY <2>4 DEF e
<1>5. S[a + w + v + 2] = Character(S[a + w + v + 1], NL)
  <2>1. a + w + v + 2 \in 1..Len(file) /\ (a + w + v + 2) - 1 = a + w + v + 1
    OBVIOUS
  <2> QED
    BY <2>1 DEF ParserRun, OptionAt
<1>6. (a + w + v + 1) + 1 = a + w + v + 2
  OBVIOUS
<1>7. Character(S[a + w + v + 1], NL) =
        LineBegin((a + w + v + 1) + 1, t + 1, g, Ended(vs, t, a + w + v + 1))
  <2> DEFINE q == a + w + v + 1
  <2> HIDE DEF q
  <2>1. Character(InValue(q, t, g, vs), NL) = LineBegin(q + 1, t + 1, g, Ended(vs, t, q))
    BY OptionEnd
  <2> QED
    BY <1>4, <2>1 DEF q
<1> QED
  BY <1>5, <1>6, <1>7 DEF AfterOption, vs, us

\* The characters of a line.
CfgChars == Letters \cup Signs

JoinedAs(S, x, y, z) ==
    /\ z \in Seq(S) /\ Len(z) = Len(x) + Len(y) /\ Len(x) \in Nat /\ Len(y) \in Nat
    /\ \A i \in 1..Len(x) : z[i] = x[i]
    /\ \A i \in 1..Len(y) : z[Len(x) + i] = y[i]

LEMMA Joined ==
    ASSUME NEW S, NEW x \in Seq(S), NEW y \in Seq(S)
    PROVE  JoinedAs(S, x, y, x \o y)
BY DEF JoinedAs

LEMMA OneChar ==
    ASSUME NEW S, NEW c \in S, NEW x, x = <<c>>
    PROVE  x \in Seq(S) /\ Len(x) = 1 /\ x[1] = c
OBVIOUS

LEMMA TwoChars ==
    ASSUME NEW S, NEW c \in S, NEW d \in S, NEW x, x = <<c, d>>
    PROVE  x \in Seq(S) /\ Len(x) = 2 /\ x[1] = c /\ x[2] = d
OBVIOUS

LEMMA FiveChars ==
    ASSUME NEW S, NEW a \in S, NEW b \in S, NEW c \in S, NEW d \in S, NEW e \in S,
           NEW x, x = <<a, b, c, d, e>>
    PROVE  /\ x \in Seq(S) /\ Len(x) = 5
           /\ x[1] = a /\ x[2] = b /\ x[3] = c /\ x[4] = d /\ x[5] = e
OBVIOUS

LEMMA SignsAreChars == {"#", "[", "]", "=", NL, "a", "1"} \subseteq CfgChars
BY ConfigurationAssumption DEF CfgChars, Signs

GroupIs(l, x) ==
    /\ l \in Seq(CfgChars) /\ Len(l) = Len(x) + 3 /\ Len(x) \in Nat
    /\ l[1] = "[" /\ \A i \in 1..Len(x) : l[i + 1] = x[i]
    /\ l[Len(x) + 2] = "]" /\ l[Len(x) + 3] = NL

LEMMA GroupText == ASSUME NEW x \in Seq(CfgChars), NEW l, l = Group(x) PROVE GroupIs(l, x)
<1> DEFINE h == <<"[">>
           e == <<"]", NL>>
           y == h \o x
<1>1. h \in Seq(CfgChars) /\ Len(h) = 1 /\ h[1] = "["
  BY SignsAreChars, OneChar
<1>2. e \in Seq(CfgChars) /\ Len(e) = 2 /\ e[1] = "]" /\ e[2] = NL
  BY SignsAreChars, TwoChars
<1>3. l = y \o e
  BY DEF Group
<1> HIDE DEF h, e
<1>4. /\ y \in Seq(CfgChars) /\ Len(y) = Len(h) + Len(x) /\ Len(x) \in Nat
      /\ \A i \in 1..Len(h) : y[i] = h[i]
      /\ \A i \in 1..Len(x) : y[Len(h) + i] = x[i]
  <2>1. JoinedAs(CfgChars, h, x, y)
    BY <1>1, Joined
  <2> HIDE DEF y
  <2> QED
    BY <2>1 DEF JoinedAs
<1> HIDE DEF y
<1>5. /\ l \in Seq(CfgChars) /\ Len(l) = Len(y) + Len(e)
      /\ \A i \in 1..Len(y) : l[i] = y[i]
      /\ \A i \in 1..Len(e) : l[Len(y) + i] = e[i]
  <2>1. JoinedAs(CfgChars, y, e, l)
    BY <1>2, <1>3, <1>4, Joined
  <2> QED
    BY <2>1 DEF JoinedAs
<1>6. Len(y) = Len(x) + 1 /\ y[1] = "["
  BY <1>1, <1>4
<1>7. ASSUME NEW i \in 1..Len(x) PROVE l[i + 1] = x[i]
  <2>1. i + 1 \in 1..Len(y) /\ i + 1 = Len(h) + i
    BY <1>1, <1>6
  <2> QED
    BY <1>4, <1>5, <2>1
<1>8. l[Len(y) + 1] = "]" /\ l[Len(y) + 2] = NL
  BY <1>2, <1>5
<1>9. Len(y) + 1 = Len(x) + 2 /\ Len(y) + 2 = Len(x) + 3 /\ 1 \in 1..Len(y)
  BY <1>4, <1>6
<1> QED
  BY <1>2, <1>4, <1>5, <1>6, <1>7, <1>8, <1>9 DEF GroupIs

OptionIs(l, o, v) ==
    /\ l \in Seq(CfgChars) /\ Len(l) = Len(o) + Len(v) + 2 /\ Len(o) \in Nat /\ Len(v) \in Nat
    /\ \A i \in 1..Len(o) : l[i] = o[i]
    /\ l[Len(o) + 1] = "="
    /\ \A i \in 1..Len(v) : l[Len(o) + 1 + i] = v[i]
    /\ l[Len(o) + Len(v) + 2] = NL

LEMMA OptionText ==
    ASSUME NEW o \in Seq(CfgChars), NEW v \in Seq(CfgChars), NEW l, l = Option(o, v)
    PROVE  OptionIs(l, o, v)
<1> DEFINE q == <<"=">>
           e == <<NL>>
           y == o \o q
           z == y \o v
<1>1. q \in Seq(CfgChars) /\ Len(q) = 1 /\ q[1] = "="
  BY SignsAreChars, OneChar
<1>2. e \in Seq(CfgChars) /\ Len(e) = 1 /\ e[1] = NL
  BY SignsAreChars, OneChar
<1>3. l = z \o e
  BY DEF Option
<1> HIDE DEF q, e
<1>4. /\ y \in Seq(CfgChars) /\ Len(y) = Len(o) + Len(q) /\ Len(o) \in Nat
      /\ \A i \in 1..Len(o) : y[i] = o[i]
      /\ \A i \in 1..Len(q) : y[Len(o) + i] = q[i]
  <2>1. JoinedAs(CfgChars, o, q, y)
    BY <1>1, Joined
  <2> HIDE DEF y
  <2> QED
    BY <2>1 DEF JoinedAs
<1> HIDE DEF y
<1>5. /\ z \in Seq(CfgChars) /\ Len(z) = Len(y) + Len(v) /\ Len(v) \in Nat
      /\ \A i \in 1..Len(y) : z[i] = y[i]
      /\ \A i \in 1..Len(v) : z[Len(y) + i] = v[i]
  <2>1. JoinedAs(CfgChars, y, v, z)
    BY <1>4, Joined
  <2> HIDE DEF z
  <2> QED
    BY <2>1 DEF JoinedAs
<1> HIDE DEF z
<1>6. /\ l \in Seq(CfgChars) /\ Len(l) = Len(z) + Len(e)
      /\ \A i \in 1..Len(z) : l[i] = z[i]
      /\ \A i \in 1..Len(e) : l[Len(z) + i] = e[i]
  <2>1. JoinedAs(CfgChars, z, e, l)
    BY <1>2, <1>3, <1>5, Joined
  <2> QED
    BY <2>1 DEF JoinedAs
<1>7. /\ Len(y) = Len(o) + 1 /\ Len(z) = Len(o) + Len(v) + 1 /\ Len(l) = Len(o) + Len(v) + 2
      /\ 1 \in 1..Len(q) /\ 1 \in 1..Len(e) /\ Len(o) + 1 \in 1..Len(y) /\ Len(o) + 1 \in 1..Len(z)
  BY <1>1, <1>2, <1>4, <1>5, <1>6
<1>8. ASSUME NEW i \in 1..Len(o) PROVE l[i] = o[i]
  <2>1. i \in 1..Len(y) /\ i \in 1..Len(z)
    BY <1>4, <1>5, <1>7
  <2> QED
    BY <1>4, <1>5, <1>6, <2>1
<1>9. l[Len(o) + 1] = "="
  BY <1>1, <1>4, <1>5, <1>6, <1>7
<1>10. ASSUME NEW i \in 1..Len(v) PROVE l[Len(o) + 1 + i] = v[i]
  <2>1. Len(o) + 1 + i \in 1..(Len(o) + Len(v) + 1) /\ Len(o) + 1 + i = (Len(o) + 1) + i
    OBVIOUS
  <2> QED
    BY <1>5, <1>6, <1>7, <2>1
<1>11. l[Len(z) + 1] = NL /\ Len(z) + 1 = Len(o) + Len(v) + 2
  BY <1>2, <1>4, <1>5, <1>6, <1>7
<1> QED
  BY <1>4, <1>5, <1>6, <1>7, <1>8, <1>9, <1>10, <1>11 DEF OptionIs

LEMMA CommentText ==
    /\ Comment \in Seq(CfgChars) /\ Len(Comment) = 5
    /\ Comment[1] = "#" /\ Comment[2] = "a" /\ Comment[3] = "=" /\ Comment[4] = "1" /\ Comment[5] = NL
BY SignsAreChars, FiveChars DEF Comment

\* Names and values.
LEMMA NamesText ==
    /\ \A x \in Groups \cup OptionNames :
          /\ x \in Seq(CfgChars) /\ Len(x) \in Nat \ {0}
          /\ \A i \in 1..Len(x) : x[i] \notin {NL, "#", "[", "]", "="}
    /\ \A v \in Settings : v \in Seq(CfgChars) /\ Len(v) \in Nat /\ \A i \in 1..Len(v) : v[i] # NL
<1>1. ASSUME NEW N, NamesOK(N), NEW x \in N
      PROVE  /\ x \in Seq(CfgChars) /\ Len(x) \in Nat \ {0}
             /\ \A i \in 1..Len(x) : x[i] \notin {NL, "#", "[", "]", "="}
  <2>1. x \in Seq(Letters) /\ x # <<>>
    BY <1>1 DEF NamesOK
  <2>2. Len(x) \in Nat \ {0} /\ \A i \in 1..Len(x) : x[i] \in Letters
    BY <2>1
  <2>3. \A c \in Letters : c \in CfgChars /\ c \notin {NL, "#", "[", "]", "="}
    BY ConfigurationAssumption DEF CfgChars, Signs
  <2>4. x \in Seq(CfgChars)
    BY <2>1, <2>3
  <2> QED
    BY <2>2, <2>3, <2>4
<1>2. ASSUME NEW v \in Settings
      PROVE  v \in Seq(CfgChars) /\ Len(v) \in Nat /\ \A i \in 1..Len(v) : v[i] # NL
  <2> DEFINE C == Letters \cup (Signs \ {NL})
  <2>1. v \in Seq(C)
    BY DevicesAssumption DEF ValuesOK
  <2>2. \A c \in C : c \in CfgChars /\ c # NL
    BY ConfigurationAssumption DEF CfgChars, Signs
  <2> HIDE DEF C
  <2> QED
    BY <2>1, <2>2
<1>3. NamesOK(Groups) /\ NamesOK(OptionNames)
  BY DevicesAssumption
<1> QED
  BY <1>1, <1>2, <1>3

\* The three kinds of lines.
IsGroup(l)     == \E x \in Groups : l = Group(x)
IsOption(l)    == \E o \in OptionNames, v \in Settings : l = Option(o, v)

LEMMA LineKinds ==
    ASSUME NEW l \in FileLines
    PROVE  /\ l \in Seq(CfgChars) /\ Len(l) \in Nat \ {0}
           /\ l = Comment \/ IsGroup(l) \/ IsOption(l)
           /\ l[1] = "#" <=> l = Comment
           /\ l[1] = "[" <=> IsGroup(l)
<1>1. ASSUME NEW x \in Groups PROVE GroupIs(Group(x), x)
  BY GroupText, NamesText
<1>2. ASSUME NEW o \in OptionNames, NEW v \in Settings
      PROVE  OptionIs(Option(o, v), o, v) /\ Option(o, v)[1] \notin {"[", "#"}
  <2>1. OptionIs(Option(o, v), o, v)
    BY OptionText, NamesText
  <2>2. 1 \in 1..Len(o) /\ o[1] \notin {"[", "#"}
    BY NamesText
  <2> QED
    BY <2>1, <2>2 DEF OptionIs
<1>3. l = Comment \/ IsGroup(l) \/ IsOption(l)
  BY DEF FileLines, IsGroup, IsOption
<1>4. IsGroup(l) => l[1] = "["
  BY <1>1 DEF IsGroup, GroupIs
<1>5. IsOption(l) => l[1] \notin {"[", "#"}
  BY <1>2 DEF IsOption
<1>6. l = Comment => l[1] = "#"
  BY CommentText
<1>7. l \in Seq(CfgChars) /\ Len(l) \in Nat \ {0}
  <2>1. CASE l = Comment
    BY <2>1, CommentText
  <2>2. CASE IsGroup(l)
    BY <1>1, <2>2 DEF IsGroup, GroupIs
  <2>3. CASE IsOption(l)
    <3>1. PICK o \in OptionNames, v \in Settings : l = Option(o, v)
      BY <2>3 DEF IsOption
    <3> QED
      BY <1>2, <3>1 DEF OptionIs
  <2> QED
    BY <1>3, <2>1, <2>2, <2>3
<1> QED
  BY <1>3, <1>4, <1>5, <1>6, <1>7

\* Lines laid one after the other: A[k] characters are those of the first k.
Laid(lines, file, A) ==
    /\ file \in Seq(CfgChars) /\ A \in [0..Len(lines) -> Nat]
    /\ A[0] = 0 /\ A[Len(lines)] = Len(file)
    /\ \A k \in 1..Len(lines) :
          /\ A[k] = A[k - 1] + Len(lines[k]) /\ A[k] <= Len(file)
          /\ \A d \in 1..Len(lines[k]) : file[A[k - 1] + d] = lines[k][d]

LEMMA FileLaid ==
    ASSUME NEW lines \in Seq(FileLines)
    PROVE  \E A : Laid(lines, FileOf(lines), A)
<1> DEFINE n == Len(lines)
<1>1. n \in Nat
  OBVIOUS
<1>2. PICK F : FileRun(lines, F) /\ FileOf(lines) = F[n]
  BY <1>1, FileSteps
<1>3. ASSUME NEW k \in 1..n PROVE lines[k] \in Seq(CfgChars) /\ Len(lines[k]) \in Nat
  <2>1. lines[k] \in FileLines
    OBVIOUS
  <2> QED
    BY <2>1, LineKinds
<1> DEFINE Good(i, k) == /\ Len(F[k]) = Len(F[k - 1]) + Len(lines[k]) /\ Len(F[k]) <= Len(F[i])
                         /\ \A d \in 1..Len(lines[k]) : F[i][Len(F[k - 1]) + d] = lines[k][d]
           T == {i \in 0..n : (\A k \in 0..i : F[k] \in Seq(CfgChars)) /\ \A k \in 1..i : Good(i, k)}
<1>4. T \in SUBSET (0..n)
  OBVIOUS
<1>5. 0 \in T
  <2>1. F[0] \in Seq(CfgChars) /\ 1..0 = {} /\ 0 \in 0..n /\ \A k \in 0..0 : k = 0
    BY <1>1, <1>2 DEF FileRun
  <2> QED
    BY <2>1
<1>6. ASSUME NEW i \in 1..n, i - 1 \in T PROVE i \in T
  <2> DEFINE x == F[i - 1]
             y == lines[i]
  <2>1. F[i] = x \o y
    BY <1>2 DEF FileRun
  <2>2. x \in Seq(CfgChars) /\ y \in Seq(CfgChars)
    <3>1. i - 1 \in 0..(i - 1)
      OBVIOUS
    <3> QED
      BY <1>3, <1>6, <3>1
  <2> HIDE DEF x, y
  <2>3. /\ F[i] \in Seq(CfgChars) /\ Len(F[i]) = Len(x) + Len(y) /\ Len(x) \in Nat /\ Len(y) \in Nat
        /\ \A d \in 1..Len(x) : F[i][d] = x[d]
        /\ \A d \in 1..Len(y) : F[i][Len(x) + d] = y[d]
    BY <2>1, <2>2, Joined DEF JoinedAs
  <2>4. ASSUME NEW k \in 0..i PROVE F[k] \in Seq(CfgChars)
    <3>1. k = i \/ k \in 0..(i - 1)
      OBVIOUS
    <3> QED
      BY <1>6, <2>3, <3>1
  <2>5. ASSUME NEW k \in 1..i PROVE Good(i, k)
    <3>1. CASE k = i
      <4>1. F[k - 1] = x /\ lines[k] = y
        BY <3>1 DEF x, y
      <4>2. Len(F[i]) <= Len(F[i])
        BY <2>3
      <4> QED
        BY <2>3, <3>1, <4>1, <4>2
    <3>2. CASE k # i
      <4> DEFINE a == Len(F[k - 1])
                 b == Len(lines[k])
                 c == Len(F[k])
                 e == Len(x)
      <4>1. k \in 1..(i - 1) /\ k \in 0..i /\ k - 1 \in 0..i /\ k \in 1..n
        BY <3>2
      <4>2. c = a + b /\ c <= e /\ \A d \in 1..b : x[a + d] = lines[k][d]
        BY <1>6, <4>1 DEF x
      <4>3. a \in Nat /\ b \in Nat /\ c \in Nat /\ e \in Nat
        BY <1>3, <2>3, <2>4, <4>1
      <4>4. Len(F[i]) = e + Len(y) /\ Len(y) \in Nat /\ \A d \in 1..e : F[i][d] = x[d]
        BY <2>3
      <4> HIDE DEF a, b, c, e
      <4>5. ASSUME NEW d \in 1..b PROVE F[i][a + d] = lines[k][d]
        <5>1. a + d \in 1..e
          BY <4>2, <4>3
        <5> QED
          BY <4>2, <4>4, <5>1
      <4>6. c <= Len(F[i])
        BY <4>2, <4>3, <4>4
      <4> QED
        BY <4>2, <4>5, <4>6 DEF a, b, c
    <3> QED
      BY <3>1, <3>2
  <2> HIDE DEF Good
  <2> QED
    BY <2>4, <2>5
<1>7. n \in T
  <2> HIDE DEF T, n
  <2>1. T = 0..n
    BY <1>1, <1>4, <1>5, <1>6, Climb
  <2> QED
    BY <1>1, <2>1
<1> DEFINE A == [k \in 0..n |-> Len(F[k])]
<1>8. A \in [0..Len(lines) -> Nat] /\ A[0] = 0 /\ A[n] = Len(F[n]) /\ F[n] \in Seq(CfgChars)
  <2>1. \A k \in 0..n : Len(F[k]) \in Nat
    BY <1>7
  <2>2. F[0] = <<>> /\ 0 \in 0..n /\ n \in 0..n
    BY <1>1, <1>2 DEF FileRun
  <2> QED
    BY <1>7, <2>1, <2>2
<1>9. ASSUME NEW k \in 1..n
      PROVE  /\ A[k] = A[k - 1] + Len(lines[k]) /\ A[k] <= Len(F[n])
             /\ \A d \in 1..Len(lines[k]) : F[n][A[k - 1] + d] = lines[k][d]
  <2>1. A[k] = Len(F[k]) /\ A[k - 1] = Len(F[k - 1])
    BY <1>1
  <2>2. Good(n, k)
    BY <1>7
  <2> HIDE DEF A
  <2> QED
    BY <2>1, <2>2
<1> HIDE DEF A
<1>10. Laid(lines, F[n], A)
  BY <1>8, <1>9 DEF Laid
<1> QED
  BY <1>2, <1>10

\* What the parser sees of a line.
LEMMA LineSeen ==
    ASSUME NEW file, NEW a \in Nat, NEW l, \A d \in 1..Len(l) : file[a + d] = l[d]
    PROVE  /\ l = Comment => CommentAt(file, a)
           /\ \A x \in Groups : l = Group(x) => GroupAt(file, a, Len(x))
           /\ \A o \in OptionNames, v \in Settings : l = Option(o, v) => OptionAt(file, a, Len(o), Len(v))
<1>1. ASSUME l = Comment PROVE CommentAt(file, a)
  <2>1. /\ Len(l) = 5 /\ l[1] = "#" /\ l[2] = "a" /\ l[3] = "=" /\ l[4] = "1" /\ l[5] = NL
    BY <1>1, CommentText
  <2>2. /\ file[a + 1] = l[1] /\ file[a + 2] = l[2] /\ file[a + 3] = l[3] /\ file[a + 4] = l[4]
        /\ file[a + 5] = l[5]
    BY <2>1
  <2> QED
    BY <2>1, <2>2 DEF CommentAt, NL
<1>2. ASSUME NEW x \in Groups, l = Group(x) PROVE GroupAt(file, a, Len(x))
  <2> DEFINE w == Len(x)
  <2>1. GroupIs(l, x) /\ w \in Nat \ {0} /\ \A i \in 1..w : x[i] \notin {NL, "="}
    BY <1>2, GroupText, NamesText
  <2>2. /\ Len(l) = w + 3 /\ l[1] = "[" /\ l[w + 2] = "]" /\ l[w + 3] = NL
        /\ \A i \in 1..w : l[i + 1] = x[i]
    BY <2>1 DEF GroupIs
  <2> HIDE DEF w
  <2>3. file[a + 1] = "[" /\ file[a + w + 3] = NL
    <3>1. 1 \in 1..Len(l) /\ w + 3 \in 1..Len(l) /\ a + w + 3 = a + (w + 3)
      BY <2>1, <2>2
    <3> QED
      BY <2>2, <3>1
  <2>4. ASSUME NEW i \in 2..(w + 2) PROVE file[a + i] \notin {NL, "="}
    <3>1. file[a + i] = l[i]
      BY <2>1, <2>2
    <3>2. CASE i = w + 2
      BY <2>2, <3>1, <3>2 DEF NL
    <3>3. CASE i # w + 2
      <4>1. i - 1 \in 1..w /\ (i - 1) + 1 = i
        BY <2>1, <3>3
      <4>2. l[i] = x[i - 1]
        BY <2>2, <4>1
      <4> QED
        BY <2>1, <3>1, <4>1, <4>2
    <3> QED
      BY <3>2, <3>3
  <2> QED
    BY <2>3, <2>4 DEF GroupAt, w
<1>3. ASSUME NEW o \in OptionNames, NEW v \in Settings, l = Option(o, v)
      PROVE  OptionAt(file, a, Len(o), Len(v))
  <2> DEFINE w == Len(o)
             u == Len(v)
  <2>1. /\ OptionIs(l, o, v) /\ w \in Nat \ {0} /\ u \in Nat
        /\ \A i \in 1..w : o[i] \notin {NL, "=", "#", "["}
        /\ \A i \in 1..u : v[i] # NL
    BY <1>3, OptionText, NamesText
  <2>2. /\ Len(l) = w + u + 2 /\ l[w + 1] = "=" /\ l[w + u + 2] = NL
        /\ \A i \in 1..w : l[i] = o[i]
        /\ \A i \in 1..u : l[w + 1 + i] = v[i]
    BY <2>1 DEF OptionIs
  <2> HIDE DEF w, u
  <2>3. ASSUME NEW i \in 1..w PROVE file[a + i] = o[i]
    BY <2>1, <2>2
  <2>4. file[a + 1] \notin {"#", "["} /\ \A i \in 2..w : file[a + i] \notin {NL, "="}
    <3>1. 1 \in 1..w /\ \A i \in 2..w : i \in 1..w
      BY <2>1
    <3> QED
      BY <2>1, <2>3, <3>1
  <2>5. file[a + w + 1] = "=" /\ file[a + w + u + 2] = NL
    <3>1. /\ w + 1 \in 1..Len(l) /\ w + u + 2 \in 1..Len(l)
          /\ a + w + 1 = a + (w + 1) /\ a + w + u + 2 = a + (w + u + 2)
      BY <2>1, <2>2
    <3> QED
      BY <2>2, <3>1
  <2>6. ASSUME NEW i \in 1..u PROVE file[a + w + 1 + i] # NL
    <3>1. w + 1 + i \in 1..Len(l) /\ a + w + 1 + i = a + (w + 1 + i)
      BY <2>1, <2>2
    <3>2. file[a + w + 1 + i] = l[w + 1 + i]
      BY <3>1
    <3>3. l[w + 1 + i] = v[i]
      BY <2>2
    <3> QED
      BY <2>1, <3>2, <3>3
  <2> QED
    BY <2>4, <2>5, <2>6 DEF OptionAt, w, u
<1> QED
  BY <1>1, <1>2, <1>3

\* The parser between two lines: after k of them, t[k] is the next token, g[k] that of
\* the group and ts[k] are the tokens.  From one line to the next they change as
\* the line says.
LineStep(l, a, t, g, ts, t1, g1, ts1) ==
    \/ l = Comment /\ t1 = t /\ g1 = g /\ ts1 = AfterComment(ts, t, a)
    \/ \E x \in Groups :
          l = Group(x) /\ t1 = t + 1 /\ g1 = t /\ ts1 = AfterGroup(ts, t, a, Len(x))
    \/ \E o \in OptionNames, v \in Settings :
          /\ l = Option(o, v) /\ t1 = t + 1 /\ g1 = g
          /\ ts1 = AfterOption(ts, t, g, a, Len(o), Len(v))

LineHere(file, S, l, a, b, t, g, ts) ==
    /\ Len(file) \in Nat /\ ParserRun(file, S) /\ l \in FileLines
    /\ a \in Nat /\ b = a + Len(l) /\ b <= Len(file)
    /\ \A d \in 1..Len(l) : file[a + d] = l[d]
    /\ t \in Nat /\ S[a] = LineBegin(a, t, g, ts)
    /\ IsOption(l) => g # t

LEMMA LineParsed ==
    ASSUME NEW file, NEW S, NEW l, NEW a, NEW b, NEW t, NEW g, NEW ts,
           LineHere(file, S, l, a, b, t, g, ts)
    PROVE  \E t1, g1, ts1 : S[b] = LineBegin(b, t1, g1, ts1) /\ LineStep(l, a, t, g, ts, t1, g1, ts1)
<1>1. CASE l = Comment
  <2>1. CommentAt(file, a) /\ b = a + 5
    BY <1>1, LineSeen, CommentText DEF LineHere
  <2>2. S[a + 5] = LineBegin(a + 5, t, g, AfterComment(ts, t, a))
    BY <2>1, CommentLine DEF LineHere
  <2> QED
    BY <1>1, <2>1, <2>2 DEF LineStep
<1>2. ASSUME NEW x \in Groups, l = Group(x)
      PROVE  \E t1, g1, ts1 : S[b] = LineBegin(b, t1, g1, ts1) /\ LineStep(l, a, t, g, ts, t1, g1, ts1)
  <2> DEFINE w == Len(x)
             us == AfterGroup(ts, t, a, w)
  <2>1. GroupAt(file, a, w)
    BY <1>2, LineSeen DEF LineHere
  <2>2. GroupIs(l, x) /\ w \in Nat
    BY <1>2, GroupText, NamesText
  <2>3. b = a + w + 3
    BY <2>2 DEF GroupIs, LineHere
  <2> HIDE DEF w
  <2>4. S[a + w + 3] = LineBegin(a + w + 3, t + 1, t, us)
    <3>1. a + w + 3 <= Len(file)
      BY <2>3 DEF LineHere
    <3>2. S[a + w + 3] = LineBegin(a + w + 3, t + 1, t, AfterGroup(ts, t, a, w))
      <4>1. GroupHere(file, S, a, w, t, g, ts)
        BY <2>1, <2>2, <3>1 DEF GroupHere, LineHere
      <4> QED
        BY <4>1, GroupLine
    <3> QED
      BY <3>2
  <2>5. LineStep(l, a, t, g, ts, t + 1, t, us)
    BY <1>2 DEF LineStep, w
  <2> QED
    BY <2>3, <2>4, <2>5
<1>3. ASSUME NEW o \in OptionNames, NEW v \in Settings, l = Option(o, v)
      PROVE  \E t1, g1, ts1 : S[b] = LineBegin(b, t1, g1, ts1) /\ LineStep(l, a, t, g, ts, t1, g1, ts1)
  <2> DEFINE w == Len(o)
             u == Len(v)
             us == AfterOption(ts, t, g, a, w, u)
  <2>1. OptionAt(file, a, w, u) /\ g # t
    BY <1>3, LineSeen DEF IsOption, LineHere
  <2>2. OptionIs(l, o, v) /\ w \in Nat \ {0} /\ u \in Nat
    BY <1>3, OptionText, NamesText
  <2>3. b = a + w + u + 2
    BY <2>2 DEF OptionIs, LineHere
  <2> HIDE DEF w, u
  <2>4. S[a + w + u + 2] = LineBegin(a + w + u + 2, t + 1, g, us)
    <3>1. a + w + u + 2 <= Len(file)
      BY <2>3 DEF LineHere
    <3>2. S[a + w + u + 2] = LineBegin(a + w + u + 2, t + 1, g, AfterOption(ts, t, g, a, w, u))
      <4>1. OptionHere(file, S, a, w, u, t, g, ts)
        BY <2>1, <2>2, <3>1 DEF OptionHere, LineHere
      <4> QED
        BY <4>1, OptionLine
    <3> QED
      BY <3>2
  <2>5. LineStep(l, a, t, g, ts, t + 1, g, us)
    BY <1>3 DEF LineStep, w, u
  <2> QED
    BY <2>3, <2>4, <2>5
<1> QED
  BY <1>1, <1>2, <1>3 DEF FileLines, LineHere

\* A file as the parser is made for: an option comes after a group.
FileOK(lines) ==
    lines \in Seq(FileLines) /\ \A i \in 1..Len(lines) : IsOption(lines[i]) => \E j \in 1..i : IsGroup(lines[j])

\* All lines.
LinesRun(lines, A, t, g, ts) ==
    /\ t \in [0..Len(lines) -> Nat \ {0}] /\ t[0] = 1 /\ g[0] = 1 /\ ts[0] = <<NoToken>>
    /\ \A k \in 0..Len(lines) :
          /\ g[k] \in 1..t[k]
          /\ (\E j \in 1..k : IsGroup(lines[j])) => g[k] < t[k]
    /\ \A k \in 1..Len(lines) :
          LineStep(lines[k], A[k - 1], t[k - 1], g[k - 1], ts[k - 1], t[k], g[k], ts[k])

LEMMA LinesParsed ==
    ASSUME NEW lines, FileOK(lines), NEW file, NEW A, Laid(lines, file, A)
    PROVE  \E t, g, ts : /\ LinesRun(lines, A, t, g, ts)
                         /\ Parse(file) = LineBegin(Len(file), t[Len(lines)], g[Len(lines)], ts[Len(lines)])
<1> DEFINE n == Len(lines)
<1>1. n \in Nat /\ \A k \in 1..n : lines[k] \in FileLines
  BY DEF FileOK
<1>2. /\ file \in Seq(CfgChars) /\ Len(file) \in Nat /\ A[0] = 0 /\ A[n] = Len(file)
      /\ \A k \in 0..n : A[k] \in Nat
      /\ \A k \in 1..n : /\ A[k] = A[k - 1] + Len(lines[k]) /\ A[k] <= Len(file)
                         /\ \A d \in 1..Len(lines[k]) : file[A[k - 1] + d] = lines[k][d]
  BY DEF Laid
<1>3. PICK S : ParserRun(file, S) /\ Parse(file) = S[Len(file)]
  BY <1>2, ParserSteps
<1> DEFINE t == [k \in 0..n |-> S[A[k]].token]
           g == [k \in 0..n |-> S[A[k]].group]
           ts == [k \in 0..n |-> S[A[k]].tokens]
           At(k) == /\ S[A[k]] = LineBegin(A[k], t[k], g[k], ts[k])
                    /\ t[k] \in Nat \ {0} /\ g[k] \in 1..t[k]
                    /\ (\E j \in 1..k : IsGroup(lines[j])) => g[k] < t[k]
           Stepped(k) == LineStep(lines[k], A[k - 1], t[k - 1], g[k - 1], ts[k - 1], t[k], g[k], ts[k])
           T == {k \in 0..n : At(k) /\ \A j \in 1..k : Stepped(j)}
<1>4. ASSUME NEW k \in 0..n, NEW p, NEW t1, NEW g1, NEW ts1, S[A[k]] = LineBegin(p, t1, g1, ts1)
      PROVE  t[k] = t1 /\ g[k] = g1 /\ ts[k] = ts1
  <2> DEFINE s == S[A[k]]
  <2>1. s = CfgState(p, FALSE, TRUE, FALSE, t1, g1, ts1)
    BY <1>4 DEF LineBegin
  <2>2. t[k] = s.token /\ g[k] = s.group /\ ts[k] = s.tokens
    OBVIOUS
  <2> HIDE DEF s, t, g, ts
  <2> QED
    BY <2>1, <2>2 DEF CfgState
<1> HIDE DEF t, g, ts
<1>5. At(0) /\ t[0] = 1 /\ g[0] = 1 /\ ts[0] = <<NoToken>>
  <2>1. S[0] = LineBegin(0, 1, 1, <<NoToken>>)
    BY <1>3 DEF ParserRun, Start, LineBegin, CfgState
  <2>2. 0 \in 0..n /\ 1..0 = {}
    BY <1>1
  <2>3. t[0] = 1 /\ g[0] = 1 /\ ts[0] = <<NoToken>>
    BY <1>2, <1>4, <2>1, <2>2
  <2> QED
    BY <1>2, <2>1, <2>2, <2>3
<1>6. 0 \in T /\ T \in SUBSET (0..n)
  <2>1. 0 \in 0..n /\ 1..0 = {}
    BY <1>1
  <2> HIDE DEF At, Stepped
  <2> QED
    BY <1>5, <2>1
<1>7. ASSUME NEW k \in 1..n, k - 1 \in T PROVE k \in T
  <2> DEFINE a == A[k - 1]
             l == lines[k]
             b == A[k]
             t0 == t[k - 1]
             g0 == g[k - 1]
             s0 == ts[k - 1]
  <2>1. At(k - 1) /\ \A j \in 1..(k - 1) : Stepped(j)
    BY <1>7
  <2>2. k - 1 \in 0..n /\ k \in 0..n /\ k - 1 \in Int
    BY <1>1
  <2>3. /\ a \in Nat /\ b = a + Len(l) /\ b <= Len(file) /\ l \in FileLines
        /\ \A d \in 1..Len(l) : file[a + d] = l[d]
    BY <1>1, <1>2, <2>2
  <2>4. /\ S[a] = LineBegin(a, t0, g0, s0) /\ t0 \in Nat \ {0} /\ g0 \in 1..t0
        /\ (\E j \in 1..(k - 1) : IsGroup(lines[j])) => g0 < t0
    BY <2>1
  <2>5. IsOption(l) => ~IsGroup(l)
    <3>1. IsOption(l) => l[1] # "["
      <4> SUFFICES ASSUME NEW o \in OptionNames, NEW v \in Settings, l = Option(o, v)
                   PROVE  l[1] # "["
        BY DEF IsOption
      <4>1. OptionIs(l, o, v) /\ 1 \in 1..Len(o) /\ o[1] # "["
        BY OptionText, NamesText
      <4> QED
        BY <4>1 DEF OptionIs
    <3> QED
      BY <2>3, <3>1, LineKinds
  <2>6. IsOption(l) => g0 # t0 /\ g0 < t0
    <3> SUFFICES ASSUME IsOption(l) PROVE \E j \in 1..(k - 1) : IsGroup(lines[j])
      BY <2>4
    <3>1. PICK j \in 1..k : IsGroup(lines[j])
      BY DEF FileOK
    <3> QED
      BY <2>5, <3>1
  <2>7. PICK t1, g1, ts1 : S[b] = LineBegin(b, t1, g1, ts1) /\ LineStep(l, a, t0, g0, s0, t1, g1, ts1)
    <3> HIDE DEF a, b, l, t0, g0, s0
    <3>1. t0 \in Nat /\ (IsOption(l) => g0 # t0) /\ Len(file) \in Nat /\ ParserRun(file, S)
      BY <1>2, <1>3, <2>4, <2>6
    <3>2. S[a] = LineBegin(a, t0, g0, s0)
      BY <2>4
    <3>3. LineHere(file, S, l, a, b, t0, g0, s0)
      BY <2>3, <3>1, <3>2 DEF LineHere
    <3> QED
      BY <3>3, LineParsed
  <2>8. t[k] = t1 /\ g[k] = g1 /\ ts[k] = ts1
    BY <1>4, <2>2, <2>7
  <2>9. t1 \in Nat \ {0} /\ g1 \in 1..t1 /\ ((\E j \in 1..k : IsGroup(lines[j])) => g1 < t1)
    <3>1. (\E j \in 1..k : IsGroup(lines[j])) => IsGroup(l) \/ \E j \in 1..(k - 1) : IsGroup(lines[j])
      OBVIOUS
    <3>2. CASE l = Comment
      <4>1. ~IsGroup(l)
        BY <2>3, <3>2, LineKinds, CommentText
      <4>2. t1 = t0 /\ g1 = g0
        <5>1. ~IsOption(l)
          <6> SUFFICES ASSUME NEW o \in OptionNames, NEW v \in Settings, l = Option(o, v)
                       PROVE  FALSE
            BY DEF IsOption
          <6>1. OptionIs(l, o, v) /\ 1 \in 1..Len(o) /\ o[1] # "#"
            BY OptionText, NamesText
          <6>2. l[1] = "#"
            BY <3>2, CommentText
          <6> QED
            BY <6>1, <6>2 DEF OptionIs
        <5> QED
          BY <2>7, <4>1, <5>1 DEF LineStep, IsGroup, IsOption
      <4> QED
        BY <2>4, <3>1, <4>1, <4>2
    <3>3. ASSUME NEW x \in Groups, l = Group(x), t1 = t0 + 1, g1 = t0
          PROVE  t1 \in Nat \ {0} /\ g1 \in 1..t1 /\ g1 < t1
      BY <2>4, <3>3
    <3>4. ASSUME IsOption(l), t1 = t0 + 1, g1 = g0
          PROVE  t1 \in Nat \ {0} /\ g1 \in 1..t1 /\ g1 < t1
      BY <2>4, <2>6, <3>4
    <3> QED
      BY <2>7, <3>2, <3>3, <3>4 DEF LineStep, IsOption
  <2>10. At(k) /\ Stepped(k)
    BY <2>7, <2>8, <2>9
  <2> HIDE DEF At, Stepped
  <2>11. \A j \in 1..k : Stepped(j)
    BY <2>1, <2>10
  <2> QED
    BY <2>2, <2>10, <2>11
<1>8. T = 0..n
  <2> HIDE DEF T, n
  <2> QED
    BY <1>1, <1>6, <1>7, Climb
<1>9. ASSUME NEW k \in 0..n PROVE At(k) /\ \A j \in 1..k : Stepped(j)
  BY <1>8
<1>10. LinesRun(lines, A, t, g, ts)
  <2>1. t \in [0..n -> Nat \ {0}]
    BY <1>9 DEF t
  <2>2. \A k \in 0..n : g[k] \in 1..t[k] /\ ((\E j \in 1..k : IsGroup(lines[j])) => g[k] < t[k])
    BY <1>9
  <2>3. \A k \in 1..n : Stepped(k)
    BY <1>1, <1>9
  <2> QED
    BY <1>5, <2>1, <2>2, <2>3 DEF LinesRun
<1>11. Parse(file) = LineBegin(Len(file), t[n], g[n], ts[n])
  <2>1. n \in 0..n
    BY <1>1
  <2> QED
    BY <1>2, <1>3, <1>9, <2>1
<1> QED
  BY <1>10, <1>11

\* What a line does to the tokens: it leaves those of the lines before, but for the
\* size of its group if it is an option, and fills the next one.
CfgTokens == [start : Int, end : Int, size : Int, eq_sign_idx : Int, level : {"none", "group", "option"}]

SetTo(ts, i, r, us) ==
    us \in Seq(CfgTokens) /\ Len(us) = Len(ts) /\ us[i] = r /\ \A j \in 1..Len(ts) : j # i => us[j] = ts[j]

LEMMA TokenSet ==
    ASSUME NEW ts \in Seq(CfgTokens), NEW i \in 1..Len(ts), NEW r \in CfgTokens
    PROVE  SetTo(ts, i, r, [ts EXCEPT ![i] = r])
BY ExceptSeq DEF SetTo

LEMMA NoTokenType == NoToken \in CfgTokens
BY DEF NoToken, CfgTokens

EqualsAs(x, p, r) ==
    /\ r.eq_sign_idx = p
    /\ r.start = x.start /\ r.end = x.end /\ r.size = x.size /\ r.level = x.level

LEMMA EqualsSets ==
    ASSUME NEW ts \in Seq(CfgTokens), NEW i \in 1..Len(ts), NEW p \in Int
    PROVE  \E r : SetTo(ts, i, r, Equals(ts, i, p)) /\ EqualsAs(ts[i], p, r)
<1> DEFINE x == ts[i]
           r == [x EXCEPT !.eq_sign_idx = p]
<1>1. x \in CfgTokens
  OBVIOUS
<1>2. Equals(ts, i, p) = [ts EXCEPT ![i] = r]
  BY DEF Equals
<1> HIDE DEF x
<1>3. /\ r \in CfgTokens /\ r.eq_sign_idx = p
      /\ r.start = x.start /\ r.end = x.end /\ r.size = x.size /\ r.level = x.level
  BY <1>1 DEF CfgTokens
<1> HIDE DEF r
<1>4. SetTo(ts, i, r, Equals(ts, i, p))
  BY <1>2, <1>3, TokenSet
<1> QED
  BY <1>3, <1>4 DEF x, EqualsAs

LEMMA CountedSets ==
    ASSUME NEW ts \in Seq(CfgTokens), NEW i \in 1..Len(ts)
    PROVE  \E r : /\ SetTo(ts, i, r, Counted(ts, i)) /\ r.size = ts[i].size + 1
                  /\ r.start = ts[i].start /\ r.end = ts[i].end /\ r.eq_sign_idx = ts[i].eq_sign_idx
                  /\ r.level = ts[i].level
<1> DEFINE x == ts[i]
           z == x.size + 1
           r == [x EXCEPT !.size = z]
<1>1. x \in CfgTokens
  OBVIOUS
<1>2. Counted(ts, i) = [ts EXCEPT ![i] = r]
  BY DEF Counted
<1>3. z \in Int
  BY <1>1 DEF CfgTokens
<1> HIDE DEF x, z
<1>4. /\ r \in CfgTokens /\ r.size = z
      /\ r.start = x.start /\ r.end = x.end /\ r.eq_sign_idx = x.eq_sign_idx /\ r.level = x.level
  BY <1>1, <1>3 DEF CfgTokens
<1> HIDE DEF r
<1>5. SetTo(ts, i, r, Counted(ts, i))
  BY <1>2, <1>4, TokenSet
<1> QED
  BY <1>4, <1>5 DEF x, z

EndedAs(x, p, r) ==
    /\ r.end = p
    /\ r.start = x.start /\ r.eq_sign_idx = x.eq_sign_idx /\ r.size = x.size /\ r.level = x.level

LEMMA EndedSets ==
    ASSUME NEW ts \in Seq(CfgTokens), NEW i \in 1..Len(ts), NEW p \in Int
    PROVE  \E r, vs : /\ SetTo(ts, i, r, vs) /\ Ended(ts, i, p) = Append(vs, NoToken)
                      /\ EndedAs(ts[i], p, r)
<1> DEFINE x == ts[i]
           r == [x EXCEPT !.end = p]
           vs == [ts EXCEPT ![i].end = p]
<1>1. x \in CfgTokens
  OBVIOUS
<1>2. vs = [ts EXCEPT ![i] = r] /\ Ended(ts, i, p) = Append(vs, NoToken)
  BY DEF Ended
<1> HIDE DEF x, vs
<1>3. /\ r \in CfgTokens /\ r.end = p
      /\ r.start = x.start /\ r.eq_sign_idx = x.eq_sign_idx /\ r.size = x.size /\ r.level = x.level
  BY <1>1 DEF CfgTokens
<1> HIDE DEF r
<1>4. SetTo(ts, i, r, vs)
  BY <1>2, <1>3, TokenSet
<1> QED
  BY <1>2, <1>3, <1>4 DEF x, EndedAs

LEMMA AppendedToken ==
    ASSUME NEW vs \in Seq(CfgTokens), NEW us, us = Append(vs, NoToken)
    PROVE  us \in Seq(CfgTokens) /\ Len(us) = Len(vs) + 1 /\ \A j \in 1..Len(vs) : us[j] = vs[j]
BY NoTokenType

\* The tokens before the last.
SameBefore(ts, us, t) == \A i \in 1..(t - 1) : us[i] = ts[i]

CountedBefore(ts, us, t, g) ==
    \A i \in 1..(t - 1) :
        /\ us[i].start = ts[i].start /\ us[i].end = ts[i].end /\ us[i].eq_sign_idx = ts[i].eq_sign_idx
        /\ us[i].level = ts[i].level
        /\ us[i].size = IF i = g THEN ts[i].size + 1 ELSE ts[i].size

TokensOK(ts, t) == ts \in Seq(CfgTokens) /\ t \in Nat \ {0} /\ Len(ts) = t

LEMMA CommentTokens ==
    ASSUME NEW ts, NEW t, TokensOK(ts, t), NEW a \in Nat, NEW us, us = AfterComment(ts, t, a)
    PROVE  TokensOK(us, t) /\ SameBefore(ts, us, t)
<1>1. ts \in Seq(CfgTokens) /\ t \in 1..Len(ts) /\ a + 2 \in Int /\ Len(ts) = t /\ t \in Nat \ {0}
  BY DEF TokensOK
<1>2. PICK r : SetTo(ts, t, r, us)
  BY <1>1, EqualsSets DEF AfterComment
<1> QED
  BY <1>1, <1>2 DEF SetTo, TokensOK, SameBefore

GroupFilled(ts, us, t, a, w) ==
    /\ TokensOK(us, t + 1) /\ SameBefore(ts, us, t)
    /\ us[t].start = a + 1 /\ us[t].end = a + w + 1 /\ us[t].size = 0 /\ us[t].level = "group"

LEMMA GroupTokens ==
    ASSUME NEW ts, NEW t, TokensOK(ts, t), NEW a \in Nat, NEW w \in Nat
    PROVE  GroupFilled(ts, AfterGroup(ts, t, a, w), t, a, w)
<1> DEFINE x == [start |-> a + 1, end |-> a + 1, size |-> 0, eq_sign_idx |-> ts[t].eq_sign_idx,
                 level |-> "group"]
           us == AfterGroup(ts, t, a, w)
           bs == TokenBegun(ts, t, a + 1, 0, ts[t].eq_sign_idx, "group")
<1>1. ts \in Seq(CfgTokens) /\ t \in 1..Len(ts) /\ a + w + 1 \in Int /\ Len(ts) = t /\ t \in Nat \ {0}
  BY DEF TokensOK
<1>2. x \in CfgTokens /\ x.start = a + 1 /\ x.size = 0 /\ x.level = "group"
  <2>1. ts[t] \in CfgTokens
    BY <1>1
  <2> QED
    BY <2>1 DEF CfgTokens
<1>3. bs = [ts EXCEPT ![t] = x]
  BY DEF TokenBegun
<1>4. us = Ended(bs, t, a + w + 1)
  BY DEF AfterGroup
<1> HIDE DEF x, bs, us
<1>5. SetTo(ts, t, x, bs)
  BY <1>1, <1>2, <1>3, TokenSet
<1>6. bs \in Seq(CfgTokens) /\ Len(bs) = t /\ t \in 1..Len(bs) /\ bs[t] = x /\ \A j \in 1..(t - 1) : bs[j] = ts[j]
  BY <1>1, <1>5 DEF SetTo
<1>7. PICK r, vs : /\ SetTo(bs, t, r, vs) /\ us = Append(vs, NoToken)
                   /\ EndedAs(bs[t], a + w + 1, r)
  BY <1>1, <1>4, <1>6, EndedSets
<1>8. vs \in Seq(CfgTokens) /\ Len(vs) = t /\ vs[t] = r /\ \A j \in 1..(t - 1) : vs[j] = ts[j]
  BY <1>1, <1>6, <1>7 DEF SetTo
<1>9. us \in Seq(CfgTokens) /\ Len(us) = t + 1 /\ us[t] = r /\ \A j \in 1..(t - 1) : us[j] = ts[j]
  <2>1. us \in Seq(CfgTokens) /\ Len(us) = Len(vs) + 1 /\ \A j \in 1..Len(vs) : us[j] = vs[j]
    BY <1>7, <1>8, AppendedToken
  <2> QED
    BY <1>1, <1>8, <2>1
<1>10. TokensOK(us, t + 1) /\ SameBefore(ts, us, t)
  BY <1>1, <1>9 DEF TokensOK, SameBefore
<1> QED
  <2>1. GroupFilled(ts, us, t, a, w)
    BY <1>2, <1>6, <1>7, <1>9, <1>10 DEF EndedAs, GroupFilled
  <2> QED
    BY <2>1 DEF us

OptionFilled(ts, us, t, g, a, w, v) ==
    /\ TokensOK(us, t + 1) /\ CountedBefore(ts, us, t, g)
    /\ us[t].start = a /\ us[t].eq_sign_idx = a + w /\ us[t].end = a + w + v + 1
    /\ us[t].level = "option"

LEMMA OptionTokens ==
    ASSUME NEW ts, NEW t, TokensOK(ts, t), NEW a \in Nat, NEW w \in Nat, NEW v \in Nat,
           NEW g \in 1..(t - 1)
    PROVE  OptionFilled(ts, AfterOption(ts, t, g, a, w, v), t, g, a, w, v)
<1> DEFINE x == [start |-> a, end |-> a, size |-> 1, eq_sign_idx |-> a, level |-> "option"]
           ns == Counted(ts, g)
           bs == TokenBegun(ns, t, a, 1, a, "option")
           qs == Equals(bs, t, a + w)
           us == AfterOption(ts, t, g, a, w, v)
<1>1. /\ ts \in Seq(CfgTokens) /\ t \in 1..Len(ts) /\ g \in 1..Len(ts) /\ g # t
      /\ a + w \in Int /\ a + w + v + 1 \in Int /\ Len(ts) = t /\ t \in Nat \ {0}
  BY DEF TokensOK
<1>2. x \in CfgTokens /\ x.start = a /\ x.level = "option"
  BY DEF CfgTokens
<1>3. bs = [ns EXCEPT ![t] = x]
  BY DEF TokenBegun
<1>4. us = Ended(qs, t, a + w + v + 1)
  BY DEF AfterOption
<1>5. PICK y : /\ SetTo(ts, g, y, ns) /\ y.size = ts[g].size + 1
               /\ y.start = ts[g].start /\ y.end = ts[g].end /\ y.eq_sign_idx = ts[g].eq_sign_idx
               /\ y.level = ts[g].level
  BY <1>1, CountedSets
<1> HIDE DEF x, ns, bs, qs, us
<1>6. ns \in Seq(CfgTokens) /\ Len(ns) = t /\ ns[g] = y /\ \A j \in 1..(t - 1) : j # g => ns[j] = ts[j]
  BY <1>1, <1>5 DEF SetTo
<1>7. SetTo(ns, t, x, bs)
  BY <1>1, <1>2, <1>3, <1>6, TokenSet
<1>8. bs \in Seq(CfgTokens) /\ Len(bs) = t /\ bs[t] = x /\ \A j \in 1..(t - 1) : bs[j] = ns[j]
  BY <1>1, <1>6, <1>7 DEF SetTo
<1>9. PICK z : SetTo(bs, t, z, qs) /\ EqualsAs(bs[t], a + w, z)
  BY <1>1, <1>8, EqualsSets DEF qs
<1>10. qs \in Seq(CfgTokens) /\ Len(qs) = t /\ qs[t] = z /\ \A j \in 1..(t - 1) : qs[j] = ns[j]
  BY <1>1, <1>8, <1>9 DEF SetTo
<1>11. PICK r, vs : /\ SetTo(qs, t, r, vs) /\ us = Append(vs, NoToken)
                    /\ EndedAs(qs[t], a + w + v + 1, r)
  BY <1>1, <1>4, <1>10, EndedSets
<1>12. vs \in Seq(CfgTokens) /\ Len(vs) = t /\ vs[t] = r /\ \A j \in 1..(t - 1) : vs[j] = ns[j]
  BY <1>1, <1>10, <1>11 DEF SetTo
<1>13. us \in Seq(CfgTokens) /\ Len(us) = t + 1 /\ us[t] = r /\ \A j \in 1..(t - 1) : us[j] = ns[j]
  <2>1. us \in Seq(CfgTokens) /\ Len(us) = Len(vs) + 1 /\ \A j \in 1..Len(vs) : us[j] = vs[j]
    BY <1>11, <1>12, AppendedToken
  <2> QED
    BY <1>1, <1>12, <2>1
<1>14. TokensOK(us, t + 1)
  BY <1>1, <1>13 DEF TokensOK
<1>15. CountedBefore(ts, us, t, g)
  <2> SUFFICES ASSUME NEW i \in 1..(t - 1)
               PROVE  /\ us[i].start = ts[i].start /\ us[i].end = ts[i].end
                      /\ us[i].eq_sign_idx = ts[i].eq_sign_idx /\ us[i].level = ts[i].level
                      /\ us[i].size = IF i = g THEN ts[i].size + 1 ELSE ts[i].size
    BY DEF CountedBefore
  <2>1. us[i] = ns[i]
    BY <1>13
  <2>2. CASE i = g
    BY <1>5, <1>6, <2>1, <2>2
  <2>3. CASE i # g
    BY <1>6, <2>1, <2>3
  <2> QED
    BY <2>2, <2>3
<1> QED
  <2>1. OptionFilled(ts, us, t, g, a, w, v)
    BY <1>2, <1>8, <1>9, <1>10, <1>11, <1>13, <1>14, <1>15 DEF EqualsAs, EndedAs, OptionFilled
  <2> QED
    BY <2>1 DEF us

\* The line of a token: that of line j is t[j - 1].
LineCounts(lines, t) ==
    /\ t \in [0..Len(lines) -> Nat \ {0}] /\ t[0] = 1 /\ Len(lines) \in Nat
    /\ \A k \in 1..Len(lines) : t[k] = IF lines[k] = Comment THEN t[k - 1] ELSE t[k - 1] + 1
    /\ \A i, j \in 0..Len(lines) : i <= j => t[i] <= t[j]

LEMMA LinesDiffer ==
    ASSUME NEW l \in FileLines
    PROVE  /\ l = Comment => ~IsGroup(l) /\ ~IsOption(l)
           /\ IsGroup(l) => ~IsOption(l)
<1>1. IsOption(l) => l[1] \notin {"[", "#"}
  <2> SUFFICES ASSUME NEW o \in OptionNames, NEW v \in Settings, l = Option(o, v)
               PROVE  l[1] \notin {"[", "#"}
    BY DEF IsOption
  <2>1. OptionIs(l, o, v) /\ 1 \in 1..Len(o) /\ o[1] \notin {"[", "#"}
    BY OptionText, NamesText
  <2> QED
    BY <2>1 DEF OptionIs
<1> QED
  BY <1>1, LineKinds

LEMMA LinesCounted ==
    ASSUME NEW lines, FileOK(lines), NEW A, NEW t, NEW g, NEW ts, LinesRun(lines, A, t, g, ts)
    PROVE  LineCounts(lines, t)
<1> DEFINE n == Len(lines)
<1>1. n \in Nat /\ \A k \in 1..n : lines[k] \in FileLines
  BY DEF FileOK
<1>2. /\ t \in [0..n -> Nat \ {0}] /\ t[0] = 1
      /\ \A k \in 1..n : LineStep(lines[k], A[k - 1], t[k - 1], g[k - 1], ts[k - 1], t[k], g[k], ts[k])
  BY DEF LinesRun
<1>3. ASSUME NEW k \in 1..n PROVE t[k] = IF lines[k] = Comment THEN t[k - 1] ELSE t[k - 1] + 1
  <2>1. LineStep(lines[k], A[k - 1], t[k - 1], g[k - 1], ts[k - 1], t[k], g[k], ts[k])
    BY <1>2
  <2>2. CASE lines[k] = Comment
    <3>1. ~IsGroup(lines[k]) /\ ~IsOption(lines[k])
      BY <1>1, <2>2, LinesDiffer
    <3> QED
      BY <2>1, <2>2, <3>1 DEF LineStep, IsGroup, IsOption
  <2>3. CASE lines[k] # Comment
    BY <2>1, <2>3 DEF LineStep
  <2> QED
    BY <2>2, <2>3
<1>4. \A i, j \in 0..n : i <= j => t[i] <= t[j]
  <2>1. t \in [0..n -> Nat]
    BY <1>2
  <2>2. ASSUME NEW k \in 1..n PROVE t[k - 1] <= t[k]
    <3>1. k - 1 \in 0..n /\ k \in 0..n
      BY <1>1
    <3>2. t[k - 1] \in Nat /\ t[k] \in Nat
      BY <2>1, <3>1
    <3> QED
      BY <1>3, <3>2
  <2> HIDE DEF n
  <2> QED
    BY <1>1, <2>1, <2>2, Rises
<1> QED
  BY <1>1, <1>2, <1>3, <1>4 DEF LineCounts

LEMMA TokenOrder ==
    ASSUME NEW lines, NEW t, LineCounts(lines, t), NEW k \in 0..Len(lines), NEW j \in 1..k,
           lines[j] # Comment
    PROVE  t[j] = t[j - 1] + 1 /\ t[j - 1] \in 1..(t[k] - 1) /\ t[j] <= t[k] /\ t[j - 1] \in Nat /\ t[k] \in Nat
<1>1. k \in Nat /\ j \in 0..Len(lines) /\ j \in 1..Len(lines) /\ j - 1 \in 0..Len(lines) /\ j <= k
  BY DEF LineCounts
<1>2. t[j] = t[j - 1] + 1 /\ t[j] <= t[k] /\ t[j - 1] \in Nat \ {0} /\ t[k] \in Nat \ {0}
  BY <1>1 DEF LineCounts
<1> QED
  BY <1>2

\* What the tokens say of the first k lines, and which lines a group spans.
GroupToken(r, a, w) == r.level = "group" /\ r.start = a + 1 /\ r.end = a + w + 1
OptionToken(r, a, w, v) ==
    r.level = "option" /\ r.start = a /\ r.eq_sign_idx = a + w /\ r.end = a + w + v + 1

TokenSays(l, a, r) ==
    /\ \A x \in Groups : l = Group(x) => GroupToken(r, a, Len(x))
    /\ \A o \in OptionNames, v \in Settings : l = Option(o, v) => OptionToken(r, a, Len(o), Len(v))

Spans(lines, j, m, k) ==
    /\ \A i \in (j + 1)..m : ~IsGroup(lines[i])
    /\ m < k => IsGroup(lines[m + 1])

SizeSays(lines, t, gk, us, j, m, k) ==
    /\ Spans(lines, j, m, k)
    /\ us[t[j - 1]].size = t[m] - t[j]
    /\ m = k <=> gk = t[j - 1]

TokensSay(lines, A, t, gk, us, k) ==
    /\ TokensOK(us, t[k])
    /\ \A j \in 1..k : lines[j] # Comment => TokenSays(lines[j], A[j - 1], us[t[j - 1]])
    /\ \A j \in 1..k : IsGroup(lines[j]) => \E m \in j..k : SizeSays(lines, t, gk, us, j, m, k)

\* One line more.  What it leaves of the tokens before, and the token of its own.
SaysBefore(ts, us, t) ==
    \A i \in 1..(t - 1) : /\ us[i].level = ts[i].level /\ us[i].start = ts[i].start
                          /\ us[i].end = ts[i].end /\ us[i].eq_sign_idx = ts[i].eq_sign_idx

LEMMA SaysKept ==
    ASSUME NEW ts, NEW us, NEW t, SaysBefore(ts, us, t), NEW i \in 1..(t - 1), NEW l, NEW a,
           TokenSays(l, a, ts[i])
    PROVE  TokenSays(l, a, us[i])
BY DEF SaysBefore, TokenSays, GroupToken, OptionToken

SameSizes(ts, us, t) == \A i \in 1..(t - 1) : us[i].size = ts[i].size
CountedSizes(ts, us, t, g) ==
    \A i \in 1..(t - 1) : us[i].size = IF i = g THEN ts[i].size + 1 ELSE ts[i].size

LineEffect(l, a, t, g, ts, t1, g1, us) ==
    /\ TokensOK(us, t1) /\ SaysBefore(ts, us, t)
    /\ l # Comment => TokenSays(l, a, us[t])
    /\ \/ l = Comment /\ t1 = t /\ g1 = g /\ SameSizes(ts, us, t)
       \/ IsGroup(l) /\ t1 = t + 1 /\ g1 = t /\ us[t].size = 0 /\ SameSizes(ts, us, t)
       \/ IsOption(l) /\ t1 = t + 1 /\ g1 = g /\ CountedSizes(ts, us, t, g)

LEMMA LineCase ==
    ASSUME NEW l \in FileLines, NEW a \in Nat, NEW t, NEW g, NEW ts, NEW t1, NEW g1, NEW us,
           LineStep(l, a, t, g, ts, t1, g1, us), TokensOK(ts, t), IsOption(l) => g \in 1..(t - 1)
    PROVE  LineEffect(l, a, t, g, ts, t1, g1, us)
<1> USE DEF LineEffect
<1>1. CASE l = Comment /\ t1 = t /\ g1 = g /\ us = AfterComment(ts, t, a)
  <2>1. TokensOK(us, t) /\ SameBefore(ts, us, t)
    BY <1>1, CommentTokens
  <2> QED
    BY <1>1, <2>1 DEF SameBefore, SaysBefore, SameSizes
<1>2. ASSUME NEW x \in Groups, l = Group(x), t1 = t + 1, g1 = t, us = AfterGroup(ts, t, a, Len(x))
      PROVE  /\ TokensOK(us, t1) /\ SaysBefore(ts, us, t) /\ TokenSays(l, a, us[t])
             /\ IsGroup(l) /\ us[t].size = 0 /\ SameSizes(ts, us, t)
  <2> DEFINE w == Len(x)
  <2>1. w \in Nat
    BY NamesText
  <2>2. /\ TokensOK(us, t + 1) /\ SameBefore(ts, us, t)
        /\ us[t].start = a + 1 /\ us[t].end = a + w + 1 /\ us[t].size = 0 /\ us[t].level = "group"
    <3> HIDE DEF w
    <3>1. us = AfterGroup(ts, t, a, w)
      BY <1>2 DEF w
    <3>2. GroupFilled(ts, us, t, a, w)
      BY <2>1, <3>1, GroupTokens
    <3> QED
      BY <3>2 DEF GroupFilled
  <2>3. GroupIs(l, x) /\ IsGroup(l) /\ ~IsOption(l)
    BY <1>2, GroupText, NamesText, LinesDiffer DEF IsGroup
  <2>4. TokenSays(l, a, us[t])
    <3>1. ASSUME NEW y \in Groups, l = Group(y) PROVE Len(y) = w
      <4>1. GroupIs(l, y)
        BY <3>1, GroupText, NamesText
      <4> QED
        BY <2>3, <4>1 DEF GroupIs
    <3>2. ASSUME NEW y \in Groups, l = Group(y) PROVE GroupToken(us[t], a, Len(y))
      BY <2>2, <3>1, <3>2 DEF GroupToken
    <3>3. ASSUME NEW o \in OptionNames, NEW v \in Settings PROVE l # Option(o, v)
      BY <2>3 DEF IsOption
    <3> QED
      BY <3>2, <3>3 DEF TokenSays
  <2> QED
    BY <1>2, <2>2, <2>3, <2>4 DEF SameBefore, SaysBefore, SameSizes
<1>3. ASSUME NEW o \in OptionNames, NEW v \in Settings, l = Option(o, v), t1 = t + 1, g1 = g,
             us = AfterOption(ts, t, g, a, Len(o), Len(v))
      PROVE  /\ TokensOK(us, t1) /\ SaysBefore(ts, us, t) /\ TokenSays(l, a, us[t]) /\ IsOption(l)
             /\ CountedSizes(ts, us, t, g)
  <2> DEFINE w == Len(o)
             u == Len(v)
  <2>1. w \in Nat /\ u \in Nat
    BY NamesText
  <2>2. OptionIs(l, o, v) /\ IsOption(l) /\ ~IsGroup(l)
    BY <1>3, OptionText, NamesText, LinesDiffer DEF IsOption
  <2>3. /\ TokensOK(us, t + 1) /\ CountedBefore(ts, us, t, g)
        /\ us[t].start = a /\ us[t].eq_sign_idx = a + w /\ us[t].end = a + w + u + 1
        /\ us[t].level = "option"
    <3> HIDE DEF w, u
    <3>1. us = AfterOption(ts, t, g, a, w, u) /\ g \in 1..(t - 1)
      BY <1>3, <2>2 DEF w, u
    <3>2. OptionFilled(ts, us, t, g, a, w, u)
      BY <2>1, <3>1, OptionTokens
    <3> QED
      BY <3>2 DEF OptionFilled
  <2>4. TokenSays(l, a, us[t])
    <3>1. ASSUME NEW y \in OptionNames, NEW z \in Settings, l = Option(y, z)
          PROVE  Len(y) = w /\ Len(z) = u
      <4>1. OptionIs(l, y, z) /\ Len(y) \in Nat /\ Len(z) \in Nat
        BY <3>1, OptionText, NamesText
      <4>2. Len(y) + Len(z) = w + u /\ l[w + 1] = "=" /\ l[Len(y) + 1] = "="
        <5>1. Len(l) = Len(y) + Len(z) + 2 /\ l[Len(y) + 1] = "="
          BY <4>1 DEF OptionIs
        <5>2. Len(l) = w + u + 2 /\ l[w + 1] = "="
          BY <2>2 DEF OptionIs
        <5> HIDE DEF w, u
        <5> QED
          BY <2>1, <4>1, <5>1, <5>2
      <4>3. \A i \in 1..w : l[i] # "="
        BY <2>2, NamesText DEF OptionIs
      <4>4. \A i \in 1..Len(y) : l[i] # "="
        BY <4>1, NamesText DEF OptionIs
      <4>5. ~(Len(y) < w) /\ ~(w < Len(y))
        BY <2>1, <4>1, <4>2, <4>3, <4>4
      <4> QED
        BY <2>1, <4>1, <4>2, <4>5
    <3>2. ASSUME NEW y \in OptionNames, NEW z \in Settings, l = Option(y, z)
          PROVE  OptionToken(us[t], a, Len(y), Len(z))
      BY <2>3, <3>1, <3>2 DEF OptionToken
    <3>3. ASSUME NEW y \in Groups PROVE l # Group(y)
      BY <2>2 DEF IsGroup
    <3> QED
      BY <3>2, <3>3 DEF TokenSays
  <2> QED
    BY <1>3, <2>2, <2>3, <2>4 DEF CountedBefore, SaysBefore, CountedSizes
<1> QED
  BY <1>1, <1>2, <1>3 DEF LineStep

LEMMA LineKept ==
    ASSUME NEW lines, FileOK(lines), NEW t, LineCounts(lines, t), NEW A, NEW k \in 1..Len(lines),
           NEW g, NEW ts, NEW g1, NEW us, TokensSay(lines, A, t, g, ts, k - 1),
           LineEffect(lines[k], A[k - 1], t[k - 1], g, ts, t[k], g1, us)
    PROVE  TokensSay(lines, A, t, g1, us, k)
<1> DEFINE l == lines[k]
           t0 == t[k - 1]
<1>1. /\ Len(lines) \in Nat /\ k - 1 \in 0..Len(lines) /\ k \in 0..Len(lines)
      /\ t0 \in Nat \ {0} /\ t[k] \in Nat \ {0} /\ l \in FileLines
  BY DEF LineCounts, FileOK
<1>2. TokensOK(us, t[k]) /\ SaysBefore(ts, us, t0) /\ (l # Comment => TokenSays(l, A[k - 1], us[t0]))
  BY DEF LineEffect
<1>3. ASSUME NEW j \in 1..(k - 1), lines[j] # Comment
      PROVE  t[j - 1] \in 1..(t0 - 1) /\ t[j] = t[j - 1] + 1 /\ t[j] <= t0
  BY <1>1, <1>3, TokenOrder
<1>4. ASSUME NEW j \in 1..k, lines[j] # Comment PROVE TokenSays(lines[j], A[j - 1], us[t[j - 1]])
  <2>1. CASE j = k
    BY <1>2, <1>4, <2>1
  <2>2. CASE j # k
    <3>1. j \in 1..(k - 1)
      BY <2>2
    <3>2. TokenSays(lines[j], A[j - 1], ts[t[j - 1]])
      BY <1>4, <3>1 DEF TokensSay
    <3>3. t[j - 1] \in 1..(t0 - 1)
      BY <1>3, <1>4, <3>1
    <3> HIDE DEF t0
    <3> QED
      BY <1>2, <3>2, <3>3, SaysKept
  <2> QED
    BY <2>1, <2>2
<1>5. ASSUME NEW j \in 1..k, IsGroup(lines[j]), j # k
      PROVE  \E m \in j..k : SizeSays(lines, t, g1, us, j, m, k)
  <2> DEFINE i == t[j - 1]
  <2>1. j \in 1..(k - 1) /\ lines[j] \in FileLines
    BY <1>1, <1>5 DEF FileOK
  <2>2. lines[j] # Comment
    BY <1>5, <2>1, LinesDiffer
  <2>3. i \in 1..(t0 - 1) /\ t[j] = i + 1 /\ t[j] <= t0
    BY <1>3, <2>1, <2>2
  <2>4. PICK m \in j..(k - 1) : SizeSays(lines, t, g, ts, j, m, k - 1)
    BY <1>5, <2>1 DEF TokensSay
  <2>5. /\ \A c \in (j + 1)..m : ~IsGroup(lines[c])
        /\ m < k - 1 => IsGroup(lines[m + 1])
        /\ ts[i].size = t[m] - t[j] /\ (m = k - 1 <=> g = i)
    BY <2>4 DEF SizeSays, Spans
  <2>6. m \in j..k /\ k \in j..k /\ m \in Int /\ m # k /\ (k - 1) + 1 = k
    BY <2>1
  <2>7. CASE l = Comment /\ t[k] = t0 /\ g1 = g /\ SameSizes(ts, us, t0)
    <3>1. us[i].size = ts[i].size /\ ~IsGroup(l)
      BY <1>1, <2>3, <2>7, LinesDiffer DEF SameSizes
    <3>2. CASE m = k - 1
      <4>1. ~(k < k) /\ \A c \in (j + 1)..k : c = k \/ c \in (j + 1)..m
        BY <3>2
      <4>2. Spans(lines, j, k, k)
        BY <2>5, <3>1, <4>1 DEF Spans
      <4>3. SizeSays(lines, t, g1, us, j, k, k)
        BY <2>5, <2>7, <3>1, <3>2, <4>2 DEF SizeSays
      <4> QED
        BY <2>6, <4>3
    <3>3. CASE m # k - 1
      <4>1. m < k - 1
        BY <3>3
      <4>2. Spans(lines, j, m, k)
        BY <2>5, <4>1 DEF Spans
      <4>3. SizeSays(lines, t, g1, us, j, m, k)
        BY <2>5, <2>6, <2>7, <3>1, <3>3, <4>2 DEF SizeSays
      <4> QED
        BY <2>6, <4>3
    <3> QED
      BY <3>2, <3>3
  <2>8. CASE IsGroup(l) /\ t[k] = t0 + 1 /\ g1 = t0 /\ us[t0].size = 0 /\ SameSizes(ts, us, t0)
    <3>1. us[i].size = ts[i].size /\ g1 # i
      BY <1>1, <2>3, <2>8 DEF SameSizes
    <3>2. m < k => IsGroup(lines[m + 1])
      <4>1. m < k => m < k - 1 \/ m + 1 = k
        BY <2>6
      <4> QED
        BY <2>5, <2>8, <4>1
    <3>3. Spans(lines, j, m, k)
      BY <2>5, <3>2 DEF Spans
    <3>4. SizeSays(lines, t, g1, us, j, m, k)
      BY <2>5, <2>6, <3>1, <3>3 DEF SizeSays
    <3> QED
      BY <2>6, <3>4
  <2>9. CASE IsOption(l) /\ t[k] = t0 + 1 /\ g1 = g /\ CountedSizes(ts, us, t0, g)
    <3>1. us[i].size = (IF i = g THEN ts[i].size + 1 ELSE ts[i].size) /\ ~IsGroup(l)
      BY <1>1, <2>3, <2>9, LinesDiffer DEF CountedSizes
    <3>2. CASE m = k - 1
      <4>1. ~(k < k) /\ \A c \in (j + 1)..k : c = k \/ c \in (j + 1)..m
        BY <3>2
      <4>2. Spans(lines, j, k, k)
        BY <2>5, <3>1, <4>1 DEF Spans
      <4>3. us[i].size = t[k] - t[j]
        <5>1. us[i].size = ts[i].size + 1 /\ ts[i].size = t0 - t[j]
          BY <2>5, <3>1, <3>2
        <5>2. t[j] \in Int
          BY <2>3
        <5> HIDE DEF t0, i
        <5> QED
          BY <1>1, <2>9, <5>1, <5>2
      <4>4. SizeSays(lines, t, g1, us, j, k, k)
        BY <2>5, <2>9, <3>2, <4>2, <4>3 DEF SizeSays
      <4> QED
        BY <2>6, <4>4
    <3>3. CASE m # k - 1
      <4>1. m < k - 1
        BY <3>3
      <4>2. Spans(lines, j, m, k)
        BY <2>5, <4>1 DEF Spans
      <4>3. SizeSays(lines, t, g1, us, j, m, k)
        BY <2>5, <2>6, <2>9, <3>1, <3>3, <4>2 DEF SizeSays
      <4> QED
        BY <2>6, <4>3
    <3> QED
      BY <3>2, <3>3
  <2> QED
    BY <2>7, <2>8, <2>9 DEF LineEffect
<1>6. ASSUME IsGroup(l) PROVE \E m \in k..k : SizeSays(lines, t, g1, us, k, m, k)
  <2>1. l # Comment /\ ~IsOption(l)
    BY <1>1, <1>6, LinesDiffer
  <2>2. t[k] = t0 + 1 /\ g1 = t0 /\ us[t0].size = 0
    BY <2>1 DEF LineEffect
  <2>3. Spans(lines, k, k, k)
    BY DEF Spans
  <2>4. t[k] - t[k] = 0 /\ k \in k..k
    BY <1>1
  <2>5. SizeSays(lines, t, g1, us, k, k, k)
    BY <2>2, <2>3, <2>4 DEF SizeSays
  <2> QED
    BY <2>4, <2>5
<1>7. ASSUME NEW j \in 1..k, IsGroup(lines[j]) PROVE \E m \in j..k : SizeSays(lines, t, g1, us, j, m, k)
  BY <1>5, <1>6, <1>7
<1> QED
  BY <1>2, <1>4, <1>7 DEF TokensSay

\* The tokens of a whole file.
LEMMA TokensOfFile ==
    ASSUME NEW lines, FileOK(lines), NEW A, \A k \in 0..Len(lines) : A[k] \in Nat,
           NEW t, NEW g, NEW ts, LinesRun(lines, A, t, g, ts)
    PROVE  TokensSay(lines, A, t, g[Len(lines)], ts[Len(lines)], Len(lines))
<1> DEFINE n == Len(lines)
           T == {k \in 0..n : TokensSay(lines, A, t, g[k], ts[k], k)}
<1>1. LineCounts(lines, t) /\ n \in Nat
  BY LinesCounted DEF FileOK
<1>2. 0 \in T /\ T \in SUBSET (0..n)
  <2>1. ts[0] = <<NoToken>> /\ t[0] = 1
    BY DEF LinesRun
  <2>2. TokensOK(<<NoToken>>, 1)
    BY NoTokenType DEF TokensOK
  <2>3. 0 \in 0..n /\ 1..0 = {}
    BY <1>1
  <2>4. TokensSay(lines, A, t, g[0], ts[0], 0)
    BY <2>1, <2>2, <2>3 DEF TokensSay
  <2> QED
    BY <2>3, <2>4
<1>3. ASSUME NEW k \in 1..n, k - 1 \in T PROVE k \in T
  <2> DEFINE a == A[k - 1]
             t0 == t[k - 1]
             g0 == g[k - 1]
             s0 == ts[k - 1]
             l == lines[k]
  <2>1. /\ k - 1 \in 0..n /\ k \in 0..n /\ l \in FileLines /\ a \in Nat
        /\ TokensSay(lines, A, t, g0, s0, k - 1)
    BY <1>1, <1>3 DEF FileOK
  <2>2. LineStep(l, a, t0, g0, s0, t[k], g[k], ts[k])
    BY DEF LinesRun
  <2>3. TokensOK(s0, t0)
    BY <2>1 DEF TokensSay
  <2>4. IsOption(l) => g0 \in 1..(t0 - 1)
    <3> SUFFICES ASSUME IsOption(l) PROVE g0 \in 1..(t0 - 1)
      OBVIOUS
    <3>1. PICK j \in 1..k : IsGroup(lines[j])
      BY DEF FileOK
    <3>2. j \in 1..(k - 1)
      BY <2>1, <3>1, LinesDiffer
    <3>3. g0 \in 1..t0 /\ g0 < t0 /\ t0 \in Nat
      BY <2>1, <3>1, <3>2 DEF LinesRun
    <3> QED
      BY <3>3
  <2>5. LineEffect(l, a, t0, g0, s0, t[k], g[k], ts[k])
    <3> HIDE DEF l, a, t0, g0, s0
    <3> QED
      BY <2>1, <2>2, <2>3, <2>4, LineCase
  <2>6. TokensSay(lines, A, t, g[k], ts[k], k)
    <3> HIDE DEF g0, s0
    <3> QED
      BY <1>1, <2>1, <2>5, LineKept
  <2> QED
    BY <2>1, <2>6
<1>4. T = 0..n
  <2> HIDE DEF T, n
  <2> QED
    BY <1>1, <1>2, <1>3, Climb
<1> QED
  BY <1>1, <1>4

\* Every token but the last, which is not complete, is that of a line.
LEMMA TokensAreLines ==
    ASSUME NEW lines, NEW t, LineCounts(lines, t), NEW i \in 1..(t[Len(lines)] - 1)
    PROVE  \E j \in 1..Len(lines) : lines[j] # Comment /\ t[j - 1] = i /\ t[j] = i + 1
<1> DEFINE n == Len(lines)
           Has(k) == i < t[k] => \E j \in 1..k : lines[j] # Comment /\ t[j - 1] = i /\ t[j] = i + 1
           T == {k \in 0..n : Has(k)}
<1>1. n \in Nat /\ \A k \in 0..n : t[k] \in Nat \ {0}
  BY DEF LineCounts
<1>2. 0 \in T /\ T \in SUBSET (0..n)
  <2>1. t[0] = 1 /\ 0 \in 0..n
    BY <1>1 DEF LineCounts
  <2> QED
    BY <1>1, <2>1
<1>3. ASSUME NEW k \in 1..n, k - 1 \in T PROVE k \in T
  <2>1. k \in 0..n /\ k - 1 \in 0..n /\ t[k] \in Nat /\ t[k - 1] \in Nat
    BY <1>1
  <2>2. t[k] = IF lines[k] = Comment THEN t[k - 1] ELSE t[k - 1] + 1
    BY DEF LineCounts
  <2>3. CASE i < t[k - 1]
    <3>1. PICK j \in 1..(k - 1) : lines[j] # Comment /\ t[j - 1] = i /\ t[j] = i + 1
      BY <1>3, <2>3
    <3>2. j \in 1..k
      BY <2>1
    <3> QED
      BY <2>1, <3>1, <3>2
  <2>4. CASE ~(i < t[k - 1])
    <3>1. i < t[k] => lines[k] # Comment /\ t[k - 1] = i /\ t[k] = i + 1
      BY <1>1, <2>1, <2>2, <2>4
    <3> QED
      BY <2>1, <3>1
  <2> QED
    BY <2>3, <2>4
<1>4. T = 0..n
  <2> HIDE DEF T, n
  <2> QED
    BY <1>1, <1>2, <1>3, Climb
<1>5. n \in T /\ i < t[n]
  BY <1>1, <1>4
<1> QED
  BY <1>5

\* Pieces of a text.
LEMMA PieceIs ==
    ASSUME NEW s \in Seq(CfgChars), NEW a \in Nat, NEW y \in Seq(CfgChars), a + Len(y) <= Len(s),
           \A i \in 1..Len(y) : s[a + i] = y[i], NEW b, b = a + Len(y)
    PROVE  SubSeq(s, a + 1, b) = y
<1> DEFINE w == Len(y)
           z == SubSeq(s, a + 1, b)
<1>1. w \in Nat /\ a + 1 \in Int /\ b \in Int /\ Len(s) \in Nat /\ b <= Len(s) /\ b - (a + 1) + 1 = w
  OBVIOUS
<1>2. \A i \in (a + 1)..b : s[i] \in CfgChars
  <2>1. \A i \in (a + 1)..b : i \in 1..Len(s)
    BY <1>1
  <2> QED
    BY <2>1
<1>3. /\ z \in Seq(CfgChars) /\ Len(z) = IF a + 1 <= b THEN b - (a + 1) + 1 ELSE 0
      /\ \A i \in 1..(b - (a + 1) + 1) : z[i] = s[(a + 1) + i - 1]
  BY <1>1, <1>2, SubSeqProperties
<1> HIDE DEF z
<1>4. Len(z) = w
  BY <1>1, <1>3
<1>5. ASSUME NEW i \in 1..w PROVE z[i] = y[i]
  <2>1. (a + 1) + i - 1 = a + i
    OBVIOUS
  <2> QED
    BY <1>1, <1>3, <2>1
<1>6. z = y
  BY <1>3, <1>4, <1>5, SeqEqual
<1> QED
  BY <1>6 DEF z

LEMMA PrefixIs ==
    ASSUME NEW x \in Seq(CfgChars), NEW y \in Seq(CfgChars)
    PROVE  IsPrefix(y, x) <=> Len(y) <= Len(x) /\ \A i \in 1..Len(y) : x[i] = y[i]
<1> DEFINE w == Len(y)
<1>1. w \in Nat /\ Len(x) \in Nat
  OBVIOUS
<1>2. SubSeq(y, 1, w) = y
  <2>1. 0 + w = w /\ 0 + 1 = 1 /\ \A i \in 1..w : y[0 + i] = y[i]
    BY <1>1
  <2>2. SubSeq(y, 0 + 1, w) = y
    BY <1>1, <2>1, PieceIs
  <2> QED
    BY <2>1, <2>2
<1>3. ASSUME w <= Len(x), \A i \in 1..w : x[i] = y[i] PROVE SubSeq(x, 1, w) = y
  <2>1. 0 + w = w /\ 0 + 1 = 1 /\ \A i \in 1..w : x[0 + i] = y[i]
    BY <1>1, <1>3
  <2>2. SubSeq(x, 0 + 1, w) = y
    BY <1>1, <1>3, <2>1, PieceIs
  <2> QED
    BY <2>1, <2>2
<1>4. ASSUME w <= Len(x), SubSeq(x, 1, w) = y, NEW i \in 1..w PROVE x[i] = y[i]
  <2>1. \A j \in 1..w : x[j] \in CfgChars
    BY <1>1, <1>4
  <2>2. \A j \in 1..(w - 1 + 1) : SubSeq(x, 1, w)[j] = x[1 + j - 1]
    BY <1>1, <2>1, SubSeqProperties
  <2>3. i \in 1..(w - 1 + 1) /\ 1 + i - 1 = i
    BY <1>1
  <2> QED
    BY <1>4, <2>2, <2>3
<1> QED
  BY <1>2, <1>3, <1>4 DEF IsPrefix

\* A token's text is a name that was looked for only if it is that name.
LEMMA NamedIs ==
    ASSUME NEW file \in Seq(CfgChars), NEW a \in Nat, NEW y \in Seq(CfgChars), NEW x \in Seq(CfgChars),
           a + Len(y) <= Len(file), \A i \in 1..Len(y) : file[a + i] = y[i], NEW b, b = a + Len(y)
    PROVE  Named(file, x, a, b) <=> IsPrefix(y, x)
<1>1. Len(y) \in Nat /\ b - a = Len(y)
  OBVIOUS
<1>2. SubSeq(file, a + 1, b) = y
  BY PieceIs
<1>3. SubSeq(y, 1, Len(y)) = y
  <2> DEFINE w == Len(y)
  <2>1. 0 + w = w /\ 0 + 1 = 1 /\ \A i \in 1..w : y[0 + i] = y[i]
    BY <1>1
  <2>2. SubSeq(y, 0 + 1, w) = y
    BY <1>1, <2>1, PieceIs
  <2> QED
    BY <2>1, <2>2
<1> QED
  BY <1>1, <1>2, <1>3 DEF Named, Text, IsPrefix

LEMMA NamesEqual ==
    /\ \A x, y \in Groups : IsPrefix(y, x) <=> y = x
    /\ \A x, y \in OptionNames : IsPrefix(y, x) <=> y = x
<1>1. ASSUME NEW N, NamesOK(N), N \subseteq Seq(CfgChars), NEW x \in N, NEW y \in N
      PROVE  IsPrefix(y, x) <=> y = x
  <2>1. IsPrefix(y, x) => y = x
    BY <1>1 DEF NamesOK
  <2>2. IsPrefix(x, x)
    BY <1>1, PrefixIs
  <2> QED
    BY <2>1, <2>2
<1>2. Groups \subseteq Seq(CfgChars) /\ OptionNames \subseteq Seq(CfgChars)
  BY NamesText
<1> QED
  BY <1>1, <1>2, DevicesAssumption

\* A line that begins with an option's name and '=' is that option's.
LEMMA OptionPrefix ==
    ASSUME NEW l \in FileLines, ~IsGroup(l), NEW o \in OptionNames
    PROVE  IsPrefix(o \o <<"=">>, l) <=> \E v \in Settings : l = Option(o, v)
<1> DEFINE q == <<"=">>
           y == o \o q
           w == Len(o)
<1>1. o \in Seq(CfgChars) /\ w \in Nat \ {0} /\ \A i \in 1..w : o[i] \notin {"=", "#"}
  BY NamesText
<1>2. q \in Seq(CfgChars) /\ Len(q) = 1 /\ q[1] = "="
  BY SignsAreChars, OneChar
<1> HIDE DEF q
<1>3. JoinedAs(CfgChars, o, q, y)
  BY <1>1, <1>2, Joined
<1> HIDE DEF y
<1>4. y \in Seq(CfgChars) /\ Len(y) = w + 1 /\ y[w + 1] = "=" /\ \A i \in 1..w : y[i] = o[i]
  BY <1>1, <1>2, <1>3 DEF JoinedAs
<1>5. l \in Seq(CfgChars) /\ Len(l) \in Nat
  BY LineKinds
<1>6. IsPrefix(y, l) <=> Len(y) <= Len(l) /\ \A i \in 1..Len(y) : l[i] = y[i]
  BY <1>4, <1>5, PrefixIs
<1> HIDE DEF w
<1>7. ASSUME NEW v \in Settings, l = Option(o, v) PROVE IsPrefix(y, l)
  <2>1. OptionIs(l, o, v) /\ Len(v) \in Nat
    BY <1>7, OptionText, NamesText
  <2>2. Len(l) = w + Len(v) + 2 /\ l[w + 1] = "=" /\ \A i \in 1..w : l[i] = o[i]
    BY <2>1 DEF OptionIs, w
  <2>3. \A i \in 1..(w + 1) : l[i] = y[i]
    <3>1. \A i \in 1..(w + 1) : i = w + 1 \/ i \in 1..w
      BY <1>1
    <3> QED
      BY <1>4, <2>2, <3>1
  <2> QED
    BY <1>1, <1>4, <1>6, <2>1, <2>2, <2>3
<1>8. ASSUME IsPrefix(y, l) PROVE \E v \in Settings : l = Option(o, v)
  <2>1. w + 1 <= Len(l) /\ l[w + 1] = "=" /\ \A i \in 1..w : l[i] = o[i]
    <3>1. w + 1 \in 1..Len(y) /\ \A i \in 1..w : i \in 1..Len(y)
      BY <1>1, <1>4
    <3> QED
      BY <1>4, <1>6, <1>8, <3>1
  <2>2. l # Comment
    <3>1. 1 \in 1..w
      BY <1>1
    <3> QED
      BY <1>1, <2>1, <3>1, CommentText
  <2>3. PICK p \in OptionNames, v \in Settings : l = Option(p, v)
    BY <2>2, LineKinds DEF IsOption
  <2> DEFINE u == Len(p)
  <2>4. OptionIs(l, p, v) /\ u \in Nat /\ p \in Seq(CfgChars) /\ \A i \in 1..u : p[i] # "="
    BY <2>3, OptionText, NamesText
  <2>5. l[u + 1] = "=" /\ \A i \in 1..u : l[i] = p[i]
    BY <2>4 DEF OptionIs
  <2> HIDE DEF u
  <2>6. u = w
    <3>1. ~(u < w)
      BY <1>1, <2>1, <2>4, <2>5
    <3>2. ~(w < u)
      BY <1>1, <2>1, <2>4, <2>5
    <3> QED
      BY <1>1, <2>4, <3>1, <3>2
  <2>7. p = o
    <3>1. Len(p) = Len(o) /\ \A i \in 1..Len(p) : p[i] = o[i]
      BY <2>1, <2>5, <2>6 DEF u, w
    <3> QED
      BY <1>1, <2>4, <3>1, SeqEqual
  <2> QED
    BY <2>3, <2>7
<1> QED
  BY <1>7, <1>8 DEF y, q

\* The smallest of a set of numbers, and the token of the smallest line.
LeastOf(H) == CHOOSE i \in H : \A j \in H : i <= j
TokensOf(t, H) == {t[j - 1] : j \in H}

LEMMA Smallest ==
    ASSUME NEW H, H \subseteq Nat, H # {}
    PROVE  LeastOf(H) \in H /\ \A j \in H : LeastOf(H) <= j
<1>1. PICK i \in H : \A j \in H : <<j, i>> \notin OpToRel(<, Nat)
  BY NatLessThanWellFounded, WFMin
<1>2. ASSUME NEW j \in H PROVE i <= j
  <2>1. ~(j < i)
    BY <1>1 DEF OpToRel
  <2> QED
    BY <2>1
<1> QED
  BY <1>2 DEF LeastOf

LEMMA SmallestToken ==
    ASSUME NEW n \in Nat, NEW t \in [0..n -> Nat \ {0}], \A i, j \in 0..n : i <= j => t[i] <= t[j],
           NEW H \in SUBSET (1..n), H # {}
    PROVE  TokensOf(t, H) # {} /\ LeastOf(TokensOf(t, H)) = t[LeastOf(H) - 1]
<1> DEFINE P == TokensOf(t, H)
           h == LeastOf(H)
           e == LeastOf(P)
<1>1. h \in H /\ \A j \in H : h <= j
  <2>1. H \subseteq Nat
    OBVIOUS
  <2> QED
    BY <2>1, Smallest
<1>2. P \subseteq Nat
  BY DEF TokensOf
<1> HIDE DEF h
<1>3. t[h - 1] \in P /\ \A j \in P : t[h - 1] <= j
  <2>1. ASSUME NEW k \in H PROVE t[h - 1] <= t[k - 1]
    <3>1. h - 1 \in 0..n /\ k - 1 \in 0..n /\ h - 1 <= k - 1
      BY <1>1
    <3> QED
      BY <3>1
  <2> QED
    BY <1>1, <2>1 DEF TokensOf
<1> HIDE DEF P
<1>4. e \in P /\ \A j \in P : e <= j
  BY <1>2, <1>3, Smallest
<1> HIDE DEF e
<1>5. e = t[h - 1]
  <2> DEFINE x == t[h - 1]
  <2>1. x \in P /\ x <= e /\ e <= x
    BY <1>3, <1>4
  <2>2. x \in Nat /\ e \in Nat
    BY <1>2, <1>4, <2>1, Zenon
  <2> HIDE DEF x
  <2>3. x = e
    BY <2>1, <2>2
  <2> QED
    BY <2>3 DEF x
<1> QED
  BY <1>3, <1>5 DEF e, h, P

\* A file, its lines and what the parser made of them.
ParsedAs(lines, file, A, t, us) ==
    /\ FileOK(lines) /\ Laid(lines, file, A) /\ LineCounts(lines, t)
    /\ \E gk : TokensSay(lines, A, t, gk, us, Len(lines))

LEMMA FileParsed ==
    ASSUME NEW lines, FileOK(lines)
    PROVE  \E A, t, us : /\ ParsedAs(lines, FileOf(lines), A, t, us)
                         /\ Parse(FileOf(lines)).tokens = us
                         /\ Parse(FileOf(lines)).count = t[Len(lines)] - 1
<1> DEFINE file == FileOf(lines)
           n == Len(lines)
<1>1. PICK A : Laid(lines, file, A)
  BY FileLaid DEF FileOK
<1> HIDE DEF file
<1>2. PICK t, g, ts : LinesRun(lines, A, t, g, ts) /\ Parse(file) = LineBegin(Len(file), t[n], g[n], ts[n])
  BY <1>1, LinesParsed
<1>3. TokensSay(lines, A, t, g[n], ts[n], n)
  <2>1. \A k \in 0..n : A[k] \in Nat
    BY <1>1 DEF Laid
  <2> QED
    BY <1>2, <2>1, TokensOfFile
<1>4. LineCounts(lines, t)
  BY <1>2, LinesCounted
<1>5. ParsedAs(lines, file, A, t, ts[n])
  BY <1>1, <1>3, <1>4 DEF ParsedAs
<1>6. Parse(file).tokens = ts[n] /\ Parse(file).count = t[n] - 1
  <2> DEFINE s == Parse(file)
  <2>1. s = CfgState(Len(file), FALSE, TRUE, FALSE, t[n], g[n], ts[n])
    BY <1>2 DEF LineBegin
  <2> HIDE DEF s
  <2>2. s.tokens = ts[n] /\ s.count = t[n] - 1
    BY <2>1 DEF CfgState
  <2> QED
    BY <2>2 DEF s
<1> QED
  BY <1>5, <1>6 DEF file

\* The characters of line j, and its token.
LEMMA LineOfToken ==
    ASSUME NEW lines, NEW file, NEW A, NEW t, NEW us, ParsedAs(lines, file, A, t, us),
           NEW j \in 1..Len(lines), lines[j] # Comment
    PROVE  /\ TokenSays(lines[j], A[j - 1], us[t[j - 1]])
           /\ t[j - 1] \in 1..(t[Len(lines)] - 1) /\ t[j] = t[j - 1] + 1
           /\ file \in Seq(CfgChars) /\ A[j - 1] \in Nat /\ A[j - 1] + Len(lines[j]) <= Len(file)
           /\ lines[j] \in FileLines /\ Len(lines) \in Nat
           /\ \A d \in 1..Len(lines[j]) : file[A[j - 1] + d] = lines[j][d]
<1> DEFINE n == Len(lines)
<1>1. FileOK(lines) /\ Laid(lines, file, A) /\ LineCounts(lines, t)
  BY DEF ParsedAs
<1>2. n \in Nat /\ lines[j] \in FileLines /\ n \in 0..n /\ j \in 1..n /\ j - 1 \in 0..n
  BY <1>1 DEF FileOK
<1>3. TokenSays(lines[j], A[j - 1], us[t[j - 1]])
  BY DEF ParsedAs, TokensSay
<1>4. t[j - 1] \in 1..(t[n] - 1) /\ t[j] = t[j - 1] + 1
  <2> HIDE DEF n
  <2> QED
    BY <1>1, <1>2, TokenOrder DEF n
<1>5. /\ file \in Seq(CfgChars) /\ A[j - 1] \in Nat /\ A[j - 1] + Len(lines[j]) <= Len(file)
      /\ \A d \in 1..Len(lines[j]) : file[A[j - 1] + d] = lines[j][d]
  BY <1>1, <1>2 DEF Laid
<1> QED
  BY <1>2, <1>3, <1>4, <1>5

\* The look-up finds the tokens of the lines that have the name.
GroupsIn(file, us, k, x) ==
    {i \in 1..k : us[i].level = "group" /\ Named(file, x, us[i].start, us[i].end)}
OptionsIn(file, us, g, o) ==
    {i \in (g + 1)..(g + us[g].size) : Named(file, o, us[i].start, us[i].eq_sign_idx)}
GroupLines(lines, x) == {j \in 1..Len(lines) : lines[j] = Group(x)}
Hits(lines, first, o) ==
    {i \in 1..Len(lines) : /\ i > first /\ \A j \in (first + 1)..i : ~IsGroup(lines[j])
                           /\ \E v \in Settings : lines[i] = Option(o, v)}

LEMMA GroupsFound ==
    ASSUME NEW lines, NEW file, NEW A, NEW t, NEW us, ParsedAs(lines, file, A, t, us), NEW x \in Groups
    PROVE  GroupsIn(file, us, t[Len(lines)] - 1, x) = TokensOf(t, GroupLines(lines, x))
<1> DEFINE n == Len(lines)
           L == {i \in 1..(t[n] - 1) : us[i].level = "group" /\ Named(file, x, us[i].start, us[i].end)}
           R == {t[j - 1] : j \in {j \in 1..n : lines[j] = Group(x)}}
<1>1. ASSUME NEW y \in Groups, NEW j \in 1..n, lines[j] = Group(y)
      PROVE  /\ t[j - 1] \in 1..(t[n] - 1) /\ us[t[j - 1]].level = "group"
             /\ Named(file, x, us[t[j - 1]].start, us[t[j - 1]].end) <=> y = x
  <2> DEFINE a == A[j - 1]
             r == us[t[j - 1]]
             l == lines[j]
             w == Len(y)
  <2>1. l # Comment
    <3>1. l \in FileLines /\ IsGroup(l)
      BY <1>1 DEF IsGroup, ParsedAs, FileOK
    <3> QED
      BY <3>1, LinesDiffer
  <2>2. /\ TokenSays(l, a, r) /\ t[j - 1] \in 1..(t[n] - 1)
        /\ file \in Seq(CfgChars) /\ a \in Nat /\ a + Len(l) <= Len(file)
        /\ \A d \in 1..Len(l) : file[a + d] = l[d]
    BY <2>1, LineOfToken
  <2> HIDE DEF a, r, l
  <2>3. GroupToken(r, a, w)
    BY <1>1, <2>2 DEF TokenSays, l
  <2>4. GroupIs(l, y) /\ y \in Seq(CfgChars) /\ x \in Seq(CfgChars) /\ w \in Nat
    BY <1>1, GroupText, NamesText DEF l
  <2>5. Len(l) = w + 3 /\ \A i \in 1..w : l[i + 1] = y[i]
    BY <2>4 DEF GroupIs
  <2> HIDE DEF w
  <2>6. ASSUME NEW i \in 1..w PROVE file[(a + 1) + i] = y[i]
    <3>1. i + 1 \in 1..Len(l) /\ (a + 1) + i = a + (i + 1)
      BY <2>2, <2>4, <2>5
    <3> QED
      BY <2>2, <2>5, <3>1
  <2>7. a + 1 \in Nat /\ (a + 1) + w <= Len(file) /\ a + w + 1 = (a + 1) + w
    BY <2>2, <2>4, <2>5
  <2>8. Named(file, x, a + 1, a + w + 1) <=> IsPrefix(y, x)
    <3> DEFINE b == a + 1
               e == a + w + 1
    <3>1. b \in Nat /\ b + Len(y) <= Len(file) /\ e = b + Len(y) /\ \A i \in 1..Len(y) : file[b + i] = y[i]
      BY <2>6, <2>7 DEF w
    <3> HIDE DEF b, e
    <3>2. Named(file, x, b, e) <=> IsPrefix(y, x)
      BY <2>2, <2>4, <3>1, NamedIs
    <3> QED
      BY <3>2 DEF b, e
  <2>9. IsPrefix(y, x) <=> y = x
    BY NamesEqual
  <2> QED
    BY <2>2, <2>3, <2>8, <2>9 DEF GroupToken, r
<1>2. ASSUME NEW i \in L PROVE i \in R
  <2>1. i \in 1..(t[n] - 1) /\ LineCounts(lines, t)
    BY DEF ParsedAs
  <2>2. PICK j \in 1..n : lines[j] # Comment /\ t[j - 1] = i
    BY <2>1, TokensAreLines
  <2>3. lines[j] \in FileLines
    BY <2>2, LineOfToken
  <2>4. CASE IsGroup(lines[j])
    <3>1. PICK y \in Groups : lines[j] = Group(y)
      BY <2>4 DEF IsGroup
    <3>2. y = x
      BY <1>1, <2>2, <3>1
    <3> QED
      BY <2>2, <3>1, <3>2
  <2>5. CASE IsOption(lines[j])
    <3>1. TokenSays(lines[j], A[j - 1], us[i])
      BY <2>2, LineOfToken
    <3>2. us[i].level = "option"
      BY <2>5, <3>1 DEF TokenSays, OptionToken, IsOption
    <3> QED
      BY <3>2
  <2> QED
    BY <2>2, <2>3, <2>4, <2>5, LineKinds
<1>3. ASSUME NEW i \in R PROVE i \in L
  <2>1. PICK j \in 1..n : lines[j] = Group(x) /\ i = t[j - 1]
    OBVIOUS
  <2> QED
    BY <1>1, <2>1
<1> HIDE DEF L, R
<1>4. L = R
  BY <1>2, <1>3
<1> QED
  BY <1>4 DEF L, R, GroupsIn, TokensOf, GroupLines

LEMMA OptionsFound ==
    ASSUME NEW lines, NEW file, NEW A, NEW t, NEW us, ParsedAs(lines, file, A, t, us),
           NEW o \in OptionNames, NEW first \in 1..Len(lines), IsGroup(lines[first]),
           NEW g, g = t[first - 1]
    PROVE  OptionsIn(file, us, g, o) = TokensOf(t, Hits(lines, first, o))
<1> DEFINE n == Len(lines)
           L == {i \in (g + 1)..(g + us[g].size) : Named(file, o, us[i].start, us[i].eq_sign_idx)}
           H == Hits(lines, first, o)
           R == {t[j - 1] : j \in H}
<1>1. /\ LineCounts(lines, t) /\ n \in Nat /\ \A k \in 1..n : lines[k] \in FileLines
      /\ \A k \in 0..n : t[k] \in Nat \ {0}
      /\ \A i, j \in 0..n : i <= j => t[i] <= t[j]
  <2>1. FileOK(lines) /\ LineCounts(lines, t)
    BY DEF ParsedAs
  <2>2. n \in Nat /\ \A k \in 1..n : lines[k] \in FileLines
    BY <2>1 DEF FileOK
  <2>3. t \in [0..n -> Nat \ {0}] /\ \A i, j \in 0..n : i <= j => t[i] <= t[j]
    BY <2>1 DEF LineCounts
  <2> QED
    BY <2>1, <2>2, <2>3
<1>2. lines[first] # Comment
  BY <1>1, LinesDiffer
<1>3. t[first] = g + 1 /\ g \in Nat
  <2>1. t[first - 1] \in 1..(t[n] - 1) /\ t[first] = t[first - 1] + 1
    BY <1>2, LineOfToken
  <2> QED
    BY <2>1
<1>4. PICK gk : TokensSay(lines, A, t, gk, us, n)
  BY DEF ParsedAs
<1>5. PICK m \in first..n : SizeSays(lines, t, gk, us, first, m, n)
  BY <1>4 DEF TokensSay
<1>6. /\ \A i \in (first + 1)..m : ~IsGroup(lines[i])
      /\ m < n => IsGroup(lines[m + 1])
      /\ us[g].size = t[m] - t[first]
  BY <1>5 DEF SizeSays, Spans
<1>7. m \in 0..n /\ first \in 0..n /\ t[m] \in Nat /\ g + us[g].size = t[m] - 1
  <2>1. m \in 0..n /\ first \in 0..n
    BY <1>1
  <2>2. t[m] \in Nat
    BY <1>1, <2>1
  <2> QED
    BY <1>3, <1>6, <2>1, <2>2
<1>8. ASSUME NEW p \in OptionNames, NEW v \in Settings, NEW j \in 1..n, lines[j] = Option(p, v)
      PROVE  Named(file, o, us[t[j - 1]].start, us[t[j - 1]].eq_sign_idx) <=> p = o
  <2> DEFINE a == A[j - 1]
             r == us[t[j - 1]]
             l == lines[j]
             w == Len(p)
  <2>1. l # Comment
    <3>1. l \in FileLines /\ IsOption(l)
      BY <1>1, <1>8 DEF IsOption
    <3> QED
      BY <3>1, LinesDiffer
  <2>2. /\ TokenSays(l, a, r)
        /\ file \in Seq(CfgChars) /\ a \in Nat /\ a + Len(l) <= Len(file)
        /\ \A d \in 1..Len(l) : file[a + d] = l[d]
    BY <2>1, LineOfToken
  <2> HIDE DEF a, r, l
  <2>3. OptionToken(r, a, w, Len(v))
    BY <1>8, <2>2 DEF TokenSays, l
  <2>4. OptionIs(l, p, v) /\ p \in Seq(CfgChars) /\ o \in Seq(CfgChars) /\ w \in Nat /\ Len(v) \in Nat
    BY <1>8, OptionText, NamesText DEF l
  <2>5. Len(l) = w + Len(v) + 2 /\ \A i \in 1..w : l[i] = p[i]
    BY <2>4 DEF OptionIs
  <2>6. /\ a + Len(p) <= Len(file) /\ a + w = a + Len(p)
        /\ \A i \in 1..Len(p) : file[a + i] = p[i]
    BY <2>2, <2>4, <2>5
  <2> HIDE DEF w
  <2>7. Named(file, o, a, a + w) <=> IsPrefix(p, o)
    <3> DEFINE e == a + w
    <3>1. e = a + Len(p)
      BY <2>6
    <3> HIDE DEF e
    <3>2. Named(file, o, a, e) <=> IsPrefix(p, o)
      BY <2>2, <2>4, <2>6, <3>1, NamedIs
    <3> QED
      BY <3>2 DEF e
  <2>8. IsPrefix(p, o) <=> p = o
    BY NamesEqual
  <2> QED
    BY <2>3, <2>7, <2>8 DEF OptionToken, r
<1>9. ASSUME NEW i \in L PROVE i \in R
  <2>1. i \in (g + 1)..(t[m] - 1) /\ i \in Nat
    BY <1>3, <1>7
  <2>2. i \in 1..(t[n] - 1)
    <3>1. t[m] <= t[n] /\ t[n] \in Nat
      BY <1>1, <1>7
    <3> QED
      BY <1>3, <1>7, <2>1, <3>1
  <2>3. PICK j \in 1..n : lines[j] # Comment /\ t[j - 1] = i /\ t[j] = i + 1
    BY <1>1, <2>2, TokensAreLines
  <2>4. j \in 0..n /\ j - 1 \in 0..n
    BY <1>1
  <2>5. j > first
    <3> SUFFICES ASSUME j <= first PROVE FALSE
      BY <1>1
    <3>1. t[j] <= t[first]
      BY <1>1, <1>7, <2>4
    <3> QED
      BY <1>3, <2>1, <2>3, <3>1
  <2>6. j <= m
    <3> SUFFICES ASSUME ~(j <= m) PROVE FALSE
      OBVIOUS
    <3>1. m <= j - 1
      BY <1>1, <1>7
    <3>2. t[m] <= t[j - 1]
      BY <1>1, <1>7, <2>4, <3>1
    <3> QED
      BY <1>7, <2>1, <2>3, <3>2
  <2>7. \A c \in (first + 1)..j : ~IsGroup(lines[c])
    <3>1. \A c \in (first + 1)..j : c \in (first + 1)..m
      BY <1>7, <2>6
    <3> QED
      BY <1>6, <3>1
  <2>8. j \in (first + 1)..j
    BY <1>7, <2>5
  <2>9. IsOption(lines[j])
    BY <1>1, <2>3, <2>7, <2>8, LineKinds
  <2>10. PICK p \in OptionNames, v \in Settings : lines[j] = Option(p, v)
    BY <2>9 DEF IsOption
  <2>11. p = o
    BY <1>8, <2>3, <2>10
  <2>12. j \in H
    BY <2>5, <2>7, <2>10, <2>11 DEF Hits
  <2> HIDE DEF H
  <2> QED
    BY <2>3, <2>12
<1>10. ASSUME NEW i \in R PROVE i \in L
  <2>1. PICK j \in H : i = t[j - 1]
    OBVIOUS
  <2>2. /\ j \in 1..n /\ j > first /\ (\A c \in (first + 1)..j : ~IsGroup(lines[c]))
        /\ \E v \in Settings : lines[j] = Option(o, v)
    BY DEF Hits
  <2>3. PICK v \in Settings : lines[j] = Option(o, v)
    BY <2>2
  <2>4. lines[j] # Comment
    BY <1>1, <2>2, <2>3, LinesDiffer DEF IsOption
  <2>5. Named(file, o, us[i].start, us[i].eq_sign_idx)
    BY <1>8, <2>1, <2>2, <2>3
  <2>6. t[j] = i + 1 /\ i \in Nat /\ j \in 0..n /\ j - 1 \in 0..n /\ first <= j - 1
    <3>1. t[j] = t[j - 1] + 1 /\ t[j - 1] \in 1..(t[n] - 1)
      BY <2>2, <2>4, LineOfToken
    <3> QED
      BY <1>1, <2>1, <2>2, <3>1
  <2>7. j <= m
    <3> SUFFICES ASSUME ~(j <= m) PROVE FALSE
      OBVIOUS
    <3>1. m < n /\ m + 1 \in (first + 1)..j
      BY <1>1, <1>7, <2>6
    <3> QED
      BY <1>6, <2>2, <3>1
  <2>8. t[j] <= t[m] /\ t[first] <= t[j - 1]
    BY <1>1, <1>7, <2>6, <2>7
  <2>9. i \in (g + 1)..(g + us[g].size)
    BY <1>3, <1>7, <2>1, <2>6, <2>8
  <2> QED
    BY <2>5, <2>9
<1> HIDE DEF L, R
<1>11. L = R
  BY <1>9, <1>10
<1> QED
  BY <1>11 DEF L, R, H, OptionsIn, TokensOf

CopyLen(r, size) == IF r.end - r.eq_sign_idx < size THEN r.end - r.eq_sign_idx ELSE size

ValueIs(file, l, o, v, r, c, size) ==
    /\ Text(file, r.eq_sign_idx + 1, r.eq_sign_idx + c)
          = SubSeq(v, 1, IF Len(v) < size THEN Len(v) ELSE size - 1)
    /\ Len(v) + 3 <= size => c + 1 < size
    /\ SubSeq(l, Len(o) + 2, Len(l) - 1) = v
    /\ v # NotFound

\* The value of an option's line: what is copied of it, and what the line says.
LEMMA ValueFound ==
    ASSUME NEW lines, NEW file, NEW A, NEW t, NEW us, ParsedAs(lines, file, A, t, us),
           NEW o \in OptionNames, NEW v \in Settings, NEW j \in 1..Len(lines), lines[j] = Option(o, v),
           NEW size \in Nat, NEW r, r = us[t[j - 1]], NEW c, c = CopyLen(r, size)
    PROVE  ValueIs(file, lines[j], o, v, r, c, size)
<1> DEFINE a == A[j - 1]
           l == lines[j]
           w == Len(o)
           u == Len(v)
           b == a + w + 1
           d == IF u < size THEN u ELSE size - 1
<1>1. l # Comment
  <2>1. l \in FileLines /\ IsOption(l)
    BY DEF IsOption, ParsedAs, FileOK
  <2> QED
    BY <2>1, LinesDiffer
<1>2. /\ TokenSays(l, a, r)
      /\ file \in Seq(CfgChars) /\ a \in Nat /\ a + Len(l) <= Len(file)
      /\ \A i \in 1..Len(l) : file[a + i] = l[i]
  BY <1>1, LineOfToken
<1> HIDE DEF a, l
<1>3. /\ OptionIs(l, o, v) /\ v \in Seq(CfgChars) /\ w \in Nat /\ u \in Nat
      /\ \A i \in 1..u : v[i] # NL
  BY OptionText, NamesText DEF l
<1>4. r.eq_sign_idx = a + w /\ r.end = a + w + u + 1
  BY <1>2 DEF TokenSays, OptionToken, l
<1>5. /\ Len(l) = w + u + 2 /\ l \in Seq(CfgChars)
      /\ \A i \in 1..u : l[w + 1 + i] = v[i]
  BY <1>3 DEF OptionIs
<1> HIDE DEF w, u
<1>6. ASSUME NEW i \in 1..u PROVE file[b + i] = v[i]
  <2>1. w + 1 + i \in 1..Len(l) /\ b + i = a + (w + 1 + i)
    BY <1>2, <1>3, <1>5
  <2> QED
    BY <1>2, <1>5, <2>1
<1>7. b \in Nat /\ b + u <= Len(file) /\ r.eq_sign_idx + 1 = b /\ Len(file) \in Nat
  BY <1>2, <1>3, <1>4, <1>5
<1>8. d \in Int /\ d <= u /\ r.eq_sign_idx + c = b + d /\ (u + 3 <= size => c + 1 < size)
  <2>1. r.end - r.eq_sign_idx = u + 1
    BY <1>2, <1>3, <1>4
  <2>2. c = IF u + 1 < size THEN u + 1 ELSE size
    BY <2>1 DEF CopyLen
  <2> QED
    BY <1>2, <1>3, <1>4, <2>2
<1> HIDE DEF b, d
<1>9. SubSeq(file, b + 1, b + d) = SubSeq(v, 1, d)
  <2>1. CASE d <= 0
    <3>1. b + d < b + 1 /\ d < 1 /\ b + 1 \in Int /\ b + d \in Int
      BY <1>7, <1>8, <2>1
    <3> QED
      BY <1>8, <3>1, SubSeqEmpty
  <2>2. CASE d > 0
    <3> DEFINE y == SubSeq(v, 1, d)
    <3>1. /\ d \in Nat /\ d - 1 + 1 = d /\ b + d <= Len(file) /\ d <= u /\ 1 <= d
      BY <1>3, <1>7, <1>8, <2>2
    <3>2. \A i \in 1..d : v[i] \in CfgChars /\ i \in 1..u
      BY <1>3, <3>1 DEF u
    <3>3. /\ y \in Seq(CfgChars) /\ Len(y) = (IF 1 <= d THEN d - 1 + 1 ELSE 0)
          /\ \A i \in 1..(d - 1 + 1) : y[i] = v[1 + i - 1]
      BY <3>1, <3>2, SubSeqProperties
    <3> HIDE DEF y
    <3>4. Len(y) = d
      BY <3>1, <3>3
    <3>5. ASSUME NEW i \in 1..Len(y) PROVE file[b + i] = y[i]
      <4>1. i \in 1..(d - 1 + 1) /\ i \in 1..u /\ 1 + i - 1 = i
        BY <3>1, <3>2, <3>4
      <4> QED
        BY <1>6, <3>3, <4>1
    <3>6. SubSeq(file, b + 1, b + d) = y
      BY <1>2, <1>7, <3>1, <3>3, <3>4, <3>5, PieceIs
    <3> QED
      BY <3>6 DEF y
  <2>3. d <= 0 \/ d > 0
    BY <1>8
  <2> QED
    BY <2>1, <2>2, <2>3, Zenon
<1>10. Text(file, r.eq_sign_idx + 1, r.eq_sign_idx + c) = SubSeq(v, 1, d)
  BY <1>7, <1>8, <1>9 DEF Text
<1>11. SubSeq(l, w + 2, Len(l) - 1) = v
  <2> DEFINE e == w + 1
             f == Len(l) - 1
  <2>1. e \in Nat /\ e + 1 = w + 2 /\ f = e + Len(v) /\ e + Len(v) <= Len(l)
    BY <1>3, <1>5 DEF u
  <2>2. \A i \in 1..Len(v) : l[e + i] = v[i]
    BY <1>5 DEF u
  <2> HIDE DEF e, f
  <2>3. SubSeq(l, e + 1, f) = v
    BY <1>3, <1>5, <2>1, <2>2, PieceIs
  <2> QED
    BY <2>1, <2>3 DEF f
<1>12. v # NotFound
  <2> SUFFICES ASSUME v = NotFound PROVE FALSE
    OBVIOUS
  <2>1. NotFound \in Seq(CfgChars) /\ Len(NotFound) = 1 /\ NotFound[1] = NL
    BY SignsAreChars, OneChar DEF NotFound
  <2>2. 1 \in 1..u /\ v[1] = NL
    BY <2>1 DEF u
  <2> QED
    BY <1>3, <2>2
<1> QED
  BY <1>8, <1>10, <1>11, <1>12 DEF d, w, u, l, ValueIs


\* What an ini file means, in terms of its lines.
LEMMA LookupIs ==
    ASSUME NEW lines, FileOK(lines), NEW x \in Groups, NEW o \in OptionNames,
           NEW first, first = LeastOf(GroupLines(lines, x)), NEW h, h = LeastOf(Hits(lines, first, o))
    PROVE  Lookup(lines, x, o) = IF GroupLines(lines, x) = {} \/ Hits(lines, first, o) = {} THEN NotFound
                                 ELSE SubSeq(lines[h], Len(o) + 2, Len(lines[h]) - 1)
<1> DEFINE at == GroupLines(lines, x)
           hits == Hits(lines, first, o)
           y == o \o <<"=">>
           K(f) == {i \in DOMAIN lines : /\ i > f
                                         /\ \A j \in f + 1 .. i : ~(lines[j][1] = "[")
                                         /\ IsPrefix(y, lines[i])}
           Reading(B, k, l) == IF B = {} \/ k = {} THEN NotFound ELSE SubSeq(l, Len(o) + 2, Len(l) - 1)
<1>1. DOMAIN lines = 1..Len(lines) /\ Len(lines) \in Nat /\ \A i \in 1..Len(lines) : lines[i] \in FileLines
  BY DEF FileOK
<1>2. at = {i \in DOMAIN lines : lines[i] = Group(x)}
  BY <1>1, Zenon DEF GroupLines
<1>3. Lookup(lines, x, o) = Reading(at, K(first), lines[LeastOf(K(first))])
  <2> DEFINE B == {i \in DOMAIN lines : lines[i] = Group(x)}
  <2>1. Lookup(lines, x, o) = Reading(B, K(LeastOf(B)), lines[LeastOf(K(LeastOf(B)))])
    BY Zenon DEF Lookup, LeastOf
  <2>2. B = at /\ LeastOf(B) = first
    BY <1>2
  <2> HIDE DEF B, K, Reading
  <2> QED
    BY <2>1, <2>2
<1>4. ASSUME at # {} PROVE K(first) = hits
  <2>1. first \in 1..Len(lines)
    <3>1. at \subseteq Nat /\ at \subseteq 1..Len(lines)
      BY <1>1 DEF GroupLines
    <3> HIDE DEF at
    <3>2. LeastOf(at) \in at
      BY <1>4, <3>1, Smallest
    <3> QED
      BY <3>1, <3>2 DEF at
  <2>2. \A i \in 1..Len(lines) : lines[i][1] = "[" <=> IsGroup(lines[i])
    BY <1>1, LineKinds
  <2>3. \A i \in 1..Len(lines) :
           ~IsGroup(lines[i]) => (IsPrefix(y, lines[i]) <=> \E v \in Settings : lines[i] = Option(o, v))
    BY <1>1, OptionPrefix
  <2> HIDE DEF y
  <2>4. ASSUME NEW i \in 1..Len(lines), i > first
        PROVE  i \in (first + 1)..i /\ \A j \in (first + 1)..i : j \in 1..Len(lines)
    BY <1>1, <2>1, <2>4
  <2>5. ASSUME NEW i \in 1..Len(lines), i > first
        PROVE  (\A j \in (first + 1)..i : ~(lines[j][1] = "[")) <=> \A j \in (first + 1)..i : ~IsGroup(lines[j])
    BY <2>2, <2>4, <2>5, Zenon
  <2>6. ASSUME NEW i \in 1..Len(lines) PROVE i \in K(first) <=> i \in hits
    <3>1. i \in hits <=> /\ i > first /\ \A j \in (first + 1)..i : ~IsGroup(lines[j])
                         /\ \E v \in Settings : lines[i] = Option(o, v)
      BY Zenon DEF Hits
    <3>2. i \in K(first) <=> /\ i > first /\ \A j \in (first + 1)..i : ~(lines[j][1] = "[")
                             /\ IsPrefix(y, lines[i])
      BY <1>1, Zenon
    <3> HIDE DEF K, hits
    <3>3. CASE i > first
      BY <2>3, <2>4, <2>5, <3>1, <3>2, <3>3, Zenon
    <3> QED
      BY <3>1, <3>2, <3>3, Zenon
  <2>7. K(first) \subseteq 1..Len(lines) /\ hits \subseteq 1..Len(lines)
    BY <1>1 DEF Hits
  <2> HIDE DEF K, hits
  <2> QED
    BY <2>6, <2>7, Zenon
<1> HIDE DEF K, at
<1>5. Lookup(lines, x, o) = Reading(at, hits, lines[h])
  BY <1>3, <1>4
<1> QED
  BY <1>5 DEF at

\* What the code finds, in terms of its tokens.
FoundIn(file, us, k, x, o, size) ==
    LET groups == GroupsIn(file, us, k, x)
        opts == OptionsIn(file, us, LeastOf(groups), o)
        r == us[LeastOf(opts)]
    IN  IF groups = {} \/ opts = {} THEN [value |-> NotFound, last |-> 0]
        ELSE [value |-> Text(file, r.eq_sign_idx + 1, r.eq_sign_idx + CopyLen(r, size)),
              last  |-> CopyLen(r, size) + 1]

LEMMA GetStringIs ==
    ASSUME NEW file, NEW x, NEW o, NEW size
    PROVE  GetString(file, x, o, size) = FoundIn(file, Parse(file).tokens, Parse(file).count, x, o, size)
BY Zenon DEF GetString, OptionsOf, FoundIn, GroupsIn, OptionsIn, LeastOf, CopyLen

\* What ConfigMeans says of one look-up.
LookupOK(lines, x, o, size) ==
    LET got  == GetString(FileOf(lines), x, o, size)
        want == Lookup(lines, x, o)
    IN  IF want = NotFound THEN got.value = NotFound
        ELSE /\ got.value = SubSeq(want, 1, IF Len(want) < size THEN Len(want) ELSE size - 1)
             /\ Len(want) + 3 <= size => got.last < size

LEMMA LookupHolds ==
    ASSUME NEW lines, FileOK(lines), NEW x \in Groups, NEW o \in OptionNames, NEW size \in Nat
    PROVE  LookupOK(lines, x, o, size)
<1> DEFINE n == Len(lines)
           file == FileOf(lines)
           p == Parse(file)
           got == GetString(file, x, o, size)
           want == Lookup(lines, x, o)
           at == GroupLines(lines, x)
           first == LeastOf(at)
           hits == Hits(lines, first, o)
           h == LeastOf(hits)
<1>1. PICK A, t, us : ParsedAs(lines, file, A, t, us) /\ p.tokens = us /\ p.count = t[n] - 1
  BY FileParsed
<1> DEFINE groups == GroupsIn(file, us, t[n] - 1, x)
           g == LeastOf(groups)
           opts == OptionsIn(file, us, g, o)
           r == us[LeastOf(opts)]
           c == CopyLen(r, size)
<1>2. got = IF groups = {} \/ opts = {} THEN [value |-> NotFound, last |-> 0]
            ELSE [value |-> Text(file, r.eq_sign_idx + 1, r.eq_sign_idx + c), last |-> c + 1]
  <2>1. got = FoundIn(file, us, t[n] - 1, x, o, size)
    <3>1. got = FoundIn(file, p.tokens, p.count, x, o, size)
      BY GetStringIs
    <3> HIDE DEF got, p
    <3> QED
      BY <1>1, <3>1
  <2> HIDE DEF got, file
  <2> QED
    BY <2>1, Zenon DEF FoundIn
<1>3. groups = TokensOf(t, at)
  BY <1>1, GroupsFound
<1>4. n \in Nat /\ t \in [0..n -> Nat \ {0}] /\ \A i, j \in 0..n : i <= j => t[i] <= t[j]
  <2>1. LineCounts(lines, t)
    BY <1>1 DEF ParsedAs
  <2> QED
    BY <2>1 DEF LineCounts
<1>5. at \in SUBSET (1..n) /\ at \subseteq Nat /\ \A j \in at : lines[j] = Group(x)
  BY <1>4 DEF GroupLines
<1>6. hits \in SUBSET (1..n) /\ hits \subseteq Nat /\ \A j \in hits : \E v \in Settings : lines[j] = Option(o, v)
  BY <1>4 DEF Hits
<1>7. want = IF at = {} \/ hits = {} THEN NotFound ELSE SubSeq(lines[h], Len(o) + 2, Len(lines[h]) - 1)
  BY LookupIs
<1>8. LookupOK(lines, x, o, size) <=>
        IF want = NotFound THEN got.value = NotFound
        ELSE /\ got.value = SubSeq(want, 1, IF Len(want) < size THEN Len(want) ELSE size - 1)
             /\ Len(want) + 3 <= size => got.last < size
  BY Zenon DEF LookupOK
<1> HIDE DEF file, p, got, want, groups, n, at, first, hits, h, g, opts, r, c
<1>9. CASE at = {}
  <2>1. groups = {}
    BY <1>3, <1>9 DEF TokensOf
  <2> QED
    BY <1>2, <1>7, <1>8, <1>9, <2>1
<1>10. CASE at # {}
  <2>1. first \in at
    BY <1>5, <1>10, Smallest DEF first
  <2>2. groups # {} /\ g = t[first - 1]
    BY <1>3, <1>4, <1>5, <1>10, SmallestToken DEF first, g
  <2>3. first \in 1..n /\ IsGroup(lines[first])
    BY <1>5, <2>1 DEF IsGroup
  <2>4. opts = TokensOf(t, hits)
    BY <1>1, <2>2, <2>3, OptionsFound DEF n, opts, hits
  <2>5. CASE hits = {}
    <3>1. opts = {}
      BY <2>4, <2>5 DEF TokensOf
    <3> QED
      BY <1>2, <1>7, <1>8, <2>5, <3>1
  <2>6. CASE hits # {}
    <3>1. h \in hits
      BY <1>6, <2>6, Smallest DEF h
    <3>2. opts # {} /\ r = us[t[h - 1]]
      BY <1>4, <1>6, <2>4, <2>6, SmallestToken DEF h, r
    <3>3. PICK v \in Settings : lines[h] = Option(o, v)
      BY <1>6, <3>1
    <3>4. h \in 1..n
      BY <1>6, <3>1
    <3>5. c = CopyLen(r, size)
      BY DEF c
    <3>6. /\ Text(file, r.eq_sign_idx + 1, r.eq_sign_idx + c)
                = SubSeq(v, 1, IF Len(v) < size THEN Len(v) ELSE size - 1)
          /\ Len(v) + 3 <= size => c + 1 < size
          /\ SubSeq(lines[h], Len(o) + 2, Len(lines[h]) - 1) = v
          /\ v # NotFound
      <4>1. ValueIs(file, lines[h], o, v, r, c, size)
        BY <1>1, <3>2, <3>3, <3>4, <3>5, ValueFound, SMT DEF n
      <4> QED
        BY <4>1 DEF ValueIs
    <3>7. want = v
      BY <1>7, <1>10, <2>6, <3>6
    <3>8. got = [value |-> Text(file, r.eq_sign_idx + 1, r.eq_sign_idx + c), last |-> c + 1]
      BY <1>2, <2>2, <3>2
    <3>9. got.value = Text(file, r.eq_sign_idx + 1, r.eq_sign_idx + c) /\ got.last = c + 1
      BY <3>8
    <3> QED
      BY <1>8, <3>6, <3>7, <3>9, Zenon
  <2> QED
    BY <2>5, <2>6
<1> QED
  BY <1>9, <1>10

\* Sequences up to a length.
LEMMA UpToSeq ==
    ASSUME NEW S, NEW T, S \subseteq T, NEW n \in Nat, NEW s \in UpTo(S, n)
    PROVE  s \in Seq(T)
<1>1. PICK k \in 0..n : s \in [1..k -> S]
  BY DEF UpTo
<1>2. s \in [1..k -> T] /\ k \in Nat
  BY <1>1
<1> QED
  BY <1>2, SeqDef

\* The files that are looked at are such files.
LEMMA FilesOK == \A f \in Files : FileOK(f)
<1> SUFFICES ASSUME NEW f \in Files PROVE FileOK(f)
  OBVIOUS
<1>1. /\ f \in UpTo(FileLines, MaxLines)
      /\ \A i \in DOMAIN f : f[i][1] \notin {"#", "["} => \E j \in 1..i : f[j][1] = "["
  BY DEF Files
<1>2. f \in Seq(FileLines)
  BY <1>1, UpToSeq, DevicesAssumption
<1>3. ASSUME NEW i \in 1..Len(f), IsOption(f[i]) PROVE \E j \in 1..i : IsGroup(f[j])
  <2>1. i \in DOMAIN f /\ Len(f) \in Nat /\ \A j \in 1..i : j \in 1..Len(f) /\ f[j] \in FileLines
    BY <1>2
  <2>2. f[i] \in FileLines
    BY <1>2
  <2>3. f[i] # Comment /\ ~IsGroup(f[i])
    BY <1>3, <2>2, LinesDiffer
  <2>4. f[i][1] # "#" /\ f[i][1] # "["
    BY <2>2, <2>3, LineKinds
  <2>5. PICK j \in 1..i : f[j][1] = "["
    BY <1>1, <2>1, <2>4
  <2> QED
    BY <2>1, <2>5, LineKinds
<1> QED
  BY <1>2, <1>3 DEF FileOK

LEMMA ConfigCalled ==
    ASSUME FileOK(arg) PROVE \A x \in Groups, o \in OptionNames, size \in Sizes : LookupOK(arg, x, o, size)
<1>1. Sizes \subseteq Nat
  BY DevicesAssumption
<1> QED
  BY <1>1, LookupHolds

-----------------------------------------------------------------------------
(* All parts *)

\* The parts share no variable, so Devices behaves as each of them does.
THEOREM DevicesCompose == Spec => RelaySpec /\ DatasetSpec /\ GpsSpec /\ ModbusSpec
<1>1. Init => RelayInit /\ DatasetInit /\ GpsInit /\ ModbusInit
  BY DEF Init
<1>2. ASSUME [Next]_devicesVars
      PROVE  [RelayNext]_relayVars /\ [DatasetNext]_datasetVars /\ [GpsNext]_gpsVars
             /\ [ModbusNext]_modbusVars
  <2>1. CASE Relay
    BY <2>1, Zenon DEF Relay
  <2>2. CASE Signals
    BY <2>2, Zenon DEF Signals
  <2>3. CASE Gps
    BY <2>3, Zenon DEF Gps
  <2>4. CASE Serial
    BY <2>4, Zenon DEF Serial
  <2>5. ASSUME NEW p, NEW Args, Call(p, Args)
        PROVE  UNCHANGED <<relayVars, datasetVars, gpsVars, modbusVars>>
    BY <2>5, Zenon DEF Call
  <2>6. CASE UNCHANGED devicesVars
    BY <2>6, Zenon DEF devicesVars
  <2> QED
    BY <1>2, <2>1, <2>2, <2>3, <2>4, <2>5, <2>6, Zenon DEF Next
<1> QED
  BY <1>1, <1>2, PTL DEF Spec, RelaySpec, DatasetSpec, GpsSpec, ModbusSpec

\* So the relays settle, the last selection of signals counts, cuts in the stream of
\* the GPS receiver do not matter and a register's value is its own, whichever part
\* runs.
THEOREM DevicesHold == Spec => [](RelaysSettle /\ SelectionIsLast /\ CutsDoNotMatter /\ RegisterIsOwn)
BY DevicesCompose, RelaysSettled, DatasetSelection, GpsCuts, ModbusRegisters, PTL

\* What a function is called with.
Called ==
    called =>
        /\ part = "config" => FileOK(arg)
        /\ part = "scan" => arg \in Seq(Characters)
        /\ part \in {"check", "crc"} => arg \in Seq(Bytes)
        /\ part = "check" => \A i \in DOMAIN arg : Summed(arg[i])
        /\ part = "supported" => arg \in BitFields
        /\ part = "answer" => arg \in AllCommands \X Nat

LEMMA CalledInv == Spec => []Called
<1>1. Init => Called
  BY DEF Init, Called
<1>2. ASSUME Called, [Next]_devicesVars PROVE Called'
  <2>1. CASE UNCHANGED <<part, called, arg>>
    BY <1>2, <2>1 DEF Called
  <2>2. CASE Call("config", Files)
    <3>1. FileOK(arg)'
      <4>1. arg' \in Files
        BY <2>2 DEF Call
      <4> QED
        BY <4>1, FilesOK DEF FileOK, IsOption, IsGroup
    <3> QED
      BY <2>2, <3>1 DEF Call, Called
  <2>3. CASE Call("scan", UpTo(FieldChars, MaxField))
    <3>1. arg' \in Seq(Characters)
      BY <2>3, UpToSeq, DevicesAssumption DEF Call
    <3> QED
      BY <2>3, <3>1 DEF Call, Called
  <2>4. CASE Call("check", UpTo({c \in SampleCodes : Summed(c)}, MaxMessage))
    <3>1. arg' \in Seq(Bytes) /\ \A i \in DOMAIN arg' : Summed(arg'[i])
      <4>1. {c \in SampleCodes : Summed(c)} \subseteq {c \in Bytes : Summed(c)}
        BY DevicesAssumption
      <4>2. arg' \in Seq({c \in Bytes : Summed(c)})
        BY <2>4, <4>1, UpToSeq, DevicesAssumption DEF Call
      <4> QED
        BY <4>2
    <3> QED
      BY <2>4, <3>1 DEF Call, Called
  <2>5. CASE Call("crc", UpTo(SampleBytes, MaxMessage))
    <3>1. arg' \in Seq(Bytes)
      BY <2>5, UpToSeq, DevicesAssumption DEF Call
    <3> QED
      BY <2>5, <3>1 DEF Call, Called
  <2>6. CASE Call("supported", SampleCars)
    <3>1. arg' \in BitFields
      BY <2>6, DevicesAssumption DEF Call
    <3> QED
      BY <2>6, <3>1 DEF Call, Called
  <2>7. CASE Call("answer", AllCommands \X (0..MaxAnswer))
    <3>1. arg' \in AllCommands \X Nat
      BY <2>7, DevicesAssumption DEF Call
    <3> QED
      BY <2>7, <3>1 DEF Call, Called
  <2>8. CASE Relay \/ Signals \/ Gps \/ Serial
    BY <2>1, <2>8, Zenon DEF Relay, Signals, Gps, Serial
  <2>9. CASE UNCHANGED devicesVars
    BY <2>1, <2>9, Zenon DEF devicesVars
  <2> QED
    BY <1>2, <2>2, <2>3, <2>4, <2>5, <2>6, <2>7, <2>8, <2>9 DEF Next
<1> QED
  BY <1>1, <1>2, PTL DEF Spec

\* config_manager.c, for files of any length whose options come after a group, any names
\* of which none is the beginning of another, and any values: an option that is looked
\* up has the value that the file means, cut to the buffer, and nothing is written
\* behind a buffer with room for two bytes more than the value and its 0.
THEOREM ConfigurationMeans == Spec => []ConfigMeans
<1>1. ASSUME Called PROVE ConfigMeans
  <2>1. ASSUME called, part = "config"
        PROVE  \A x \in Groups, o \in OptionNames, size \in Sizes : LookupOK(arg, x, o, size)
    BY <1>1, <2>1, ConfigCalled DEF Called
  <2> QED
    BY <2>1, Zenon DEF ConfigMeans, LookupOK
<1> QED
  BY <1>1, CalledInv, PTL

\* minmea.c and modbus.c, on fields and messages of any length: what minmea_scan
\* takes for a number is that number to the last digit it can hold; minmea_check
\* refuses a sentence with one character changed into any other, unless that takes
\* the checksum away or writes a digit of it differently; and no change of one byte
\* leaves the CRC of modbus.c as it was.
THEOREM InputsAreExact == Spec => []InputsExact
<1>1. ASSUME Called PROVE InputsExact
  <2>1. ASSUME called, part = "scan" PROVE ScanIsExact(arg)
    BY <1>1, <2>1, ScanExact DEF Called
  <2>2. ASSUME called, part = "check" PROVE CheckCatches(arg, SampleCodes)
    <3>1. /\ arg \in Seq(Bytes) /\ SampleCodes \subseteq Bytes
          /\ \A i \in DOMAIN arg : Summed(arg[i])
      BY <1>1, <2>2, DevicesAssumption DEF Called
    <3> QED
      BY <3>1, CheckExact
  <2>3. ASSUME called, part = "crc" PROVE CrcCatches(arg, SampleBytes)
    <3>1. arg \in Seq(Bytes) /\ SampleBytes \subseteq Bytes
      BY <1>1, <2>3, DevicesAssumption DEF Called
    <3> QED
      BY <3>1, CrcExact
  <2> QED
    BY <2>1, <2>2, <2>3, Zenon DEF InputsExact
<1> QED
  BY <1>1, CalledInv, PTL

\* OBDII.c, whatever a car supports and however long its answer: the list of
\* commands fits its array, and no decoder reads a byte that was not received.
THEOREM TablesStayInBounds == Spec => []TablesInBounds
<1>1. ASSUME Called PROVE TablesInBounds
  <2>1. ASSUME called, part = "supported" PROVE ListFits(arg)
    BY <1>1, <2>1, SupportedListFits DEF Called
  <2>2. ASSUME called, part = "answer" PROVE DecodeInBounds(arg[1], arg[2])
    <3>1. arg[1] \in AllCommands /\ arg[2] \in Nat
      BY <1>1, <2>2 DEF Called
    <3> QED
      BY <3>1, DecodersInBounds
  <2> QED
    BY <2>1, <2>2, Zenon DEF TablesInBounds
<1> QED
  BY <1>1, CalledInv, PTL
=============================================================================
