-------------------------------- MODULE Nmea --------------------------------
(***************************************************************************)
(* Positions from a GPS receiver: the loop of pip_plugin_gps.c, which puts *)
(* sentences together from whatever read() returns.                        *)
(*                                                                         *)
(* The receiver (external) sends sentences one after the other.  Of a      *)
(* sentence the stream has four symbols: its first character '$', two      *)
(* parts of the rest, and the end of the line.  Symbols are numbered from  *)
(* 1 on in the order they are sent.  A read returns any number of them and *)
(* is cut into lines by strtok; the dumper may run after each line.        *)
(***************************************************************************)
EXTENDS Integers, Sequences, FiniteSets, FiniteSetsExt

CONSTANT Sentences   \* bound: sentences in a stream

ASSUME NmeaAssumption == Sentences \in Nat

VARIABLES
    kinds,      \* what the sentences are
    started,    \* symbols that were sent before the port was opened
    read,       \* symbols read so far
    handled,    \* symbols that strtok has passed
    nmea_sentence_buffer,
    location,   \* the position in the JSON tree: 0 none, -1 "0.0, 0.0"
    processed   \* history: sentences that were given to minmea_sentence_id

gpsVars == <<kinds, started, read, handled, nmea_sentence_buffer, location, processed>>

\* A position from GGA or RMC, one of these without a fix, another sentence, one
\* with a wrong checksum.
Kinds == {"fix", "void", "other", "damaged"}

Dollar(k) == 4 * k - 3
EndOfLine(k) == 4 * k
LastSymbol == EndOfLine(Sentences)

IsDollar(n) == n % 4 = 1
IsLineEnd(n) == n % 4 = 0

\* The symbols after from up to to.
Stream(from, to) == [i \in 1..(to - from) |-> from + i]

\* Nothing of sentence k is missing.
Complete(k) == Stream(Dollar(k) - 1, EndOfLine(k) - 1)
Whole(buf) == \E k \in 1..Sentences : buf = Complete(k)

GpsInit ==
    /\ kinds \in [1..Sentences -> Kinds]
    /\ started \in 0..4 /\ started <= LastSymbol
    /\ read = started /\ handled = started
    /\ nmea_sentence_buffer = <<>>
    /\ location = 0
    /\ processed = <<>>

GpsRead(n) ==
    /\ handled = read
    /\ read + n <= LastSymbol
    /\ read' = read + n
    /\ UNCHANGED <<kinds, started, handled, nmea_sentence_buffer, location, processed>>

\* strtok(buffer, "\n\r"): line ends are skipped, and the token goes up to the
\* next one or to the end of what was read.
TokenBegin == IF IsLineEnd(handled + 1) THEN handled + 1 ELSE handled
TokenEnd ==
    Max({n \in TokenBegin..read : \A m \in TokenBegin + 1 .. n : ~IsLineEnd(m)})

\* minmea_sentence_id and minmea_parse_gga, _rmc on the buffer, then the position.
Position(buf, old) ==
    LET ks == {k \in 1..Sentences : buf = Complete(k)}
    IN  IF ks = {} THEN old
        ELSE LET k == Max(ks)
             IN  CASE kinds[k] = "fix" -> k [] kinds[k] = "void" -> -1 [] OTHER -> old

\* A '$' ends the sentence before, which is processed, and begins another.
FirstOfSentence(token) ==
    /\ location' = Position(nmea_sentence_buffer, location)
    /\ processed' = Append(processed, nmea_sentence_buffer)
    /\ nmea_sentence_buffer' = token

\* Mutant: a line that does not begin a sentence replaces the buffer.
RestReplaces(token) ==
    /\ nmea_sentence_buffer' = token
    /\ UNCHANGED <<location, processed>>

\* Anything else belongs to the sentence that is being collected.
RestOfSentence(token) ==
    /\ nmea_sentence_buffer' = nmea_sentence_buffer \o token
    /\ UNCHANGED <<location, processed>>

\* One round of the loop over the tokens of a read; nothing is left of the read
\* if only a line end was.
GpsToken ==
    /\ handled < read
    /\ handled' = TokenEnd
    /\ LET token == Stream(TokenBegin, TokenEnd)
       IN  \/ /\ TokenBegin < TokenEnd /\ IsDollar(token[1])
              /\ FirstOfSentence(token)
           \/ /\ TokenBegin < TokenEnd /\ ~IsDollar(token[1])
              /\ RestOfSentence(token)
           \/ /\ TokenBegin = TokenEnd
              /\ UNCHANGED <<nmea_sentence_buffer, location, processed>>
    /\ UNCHANGED <<kinds, started, read>>

GpsNext == GpsToken \/ \E n \in 1..LastSymbol : GpsRead(n)

GpsSpec == GpsInit /\ [][GpsNext]_gpsVars

-----------------------------------------------------------------------------
(* Properties *)

\* The sentences whose '$' has been handled, and those that another one followed.
Begun == {k \in 1..Sentences : started < Dollar(k) /\ Dollar(k) <= handled}
Done  == {k \in Begun : k + 1 \in Begun}
Told  == {k \in Done : kinds[k] \in {"fix", "void"}}

\* The position is that of the last sentence that had any.
Located ==
    location = IF Told = {} THEN 0
               ELSE IF kinds[Max(Told)] = "fix" THEN Max(Told) ELSE -1

\* Where the reads cut the stream does not matter: every sentence that was sent
\* while the port was open is processed, whole and once, when the next begins,
\* and the position is that of the last one that had any.
CutsDoNotMatter ==
    /\ {k \in 1..Sentences : \E i \in DOMAIN processed : processed[i] = Complete(k)} = Done
    /\ Len(processed) = Cardinality(Begun)
    /\ Located

\* Why: the first sentence whose '$' comes after the port was opened, and the one
\* that the last symbol handled belongs to.
FirstHeard      == IF started = 0 THEN 1 ELSE 2
CurrentSentence == (handled + 3) \div 4

\* What has been handled of the current sentence is in the buffer.
CollectedFrom ==
    LET n == EndOfLine(CurrentSentence) - 4 IN IF started > n THEN started ELSE n
CollectedTo ==
    LET n == EndOfLine(CurrentSentence) - 1 IN IF handled < n THEN handled ELSE n
Collected == nmea_sentence_buffer = Stream(CollectedFrom, CollectedTo)

\* What was processed: the end of a sentence that began before the port was opened,
\* if any, and then the sentences one after the other.
ProcessedInOrder ==
    /\ Len(processed) =
          IF CurrentSentence < FirstHeard THEN 0 ELSE CurrentSentence - FirstHeard + 1
    /\ Len(processed) > 0 => ~Whole(processed[1])
    /\ \A i \in 2..Len(processed) : processed[i] = Complete(FirstHeard + i - 2)

\* The variables of the loop have values of their types.
GpsTypeOK ==
    /\ kinds \in [1..Sentences -> Kinds]
    /\ started \in 0..4
    /\ handled \in started..read /\ read <= LastSymbol /\ read \in Nat
    /\ nmea_sentence_buffer \in Seq(1..LastSymbol)
    /\ location \in -1..Sentences
    /\ processed \in Seq(Seq(1..LastSymbol))

GpsInd == GpsTypeOK /\ Collected /\ ProcessedInOrder /\ Located
=============================================================================
