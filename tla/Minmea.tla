------------------------------- MODULE Minmea -------------------------------
(***************************************************************************)
(* What the GPS plugin uses of the minmea library: the checksum of a       *)
(* sentence and the scanner of decimal fractions (type 'f' of              *)
(* minmea_scan).                                                           *)
(***************************************************************************)
EXTENDS Bits

CONSTANT MAXINT   \* INT_LEAST32_MAX

ASSUME MinmeaAssumption == MAXINT \in Nat /\ MAXINT >= 9

-----------------------------------------------------------------------------
(* minmea_check, called with strict = false.  A string is the sequence of   *)
(* its characters, each the set of its bits that are 1; it ends before the  *)
(* first Nul, or with the sequence.                                         *)

MINMEA_MAX_LENGTH == 80

Nul        == {}
DollarSign == {2, 5}
Star       == {1, 3, 5}
Lf         == {1, 3}
Cr         == {0, 2, 3}

CharAt(s, i) == IF i \in DOMAIN s THEN s[i] ELSE Nul
strlen(s)    == CHOOSE n \in 0..Len(s) : CharAt(s, n + 1) = Nul /\ \A i \in 1..n : s[i] # Nul

isprint(c) == 7 \notin c /\ c \cap {5, 6} # {} /\ c # 0..6

HexDigits == SUBSET (0..3)
NotHex    == {4}

\* '0' is 0x30, 'A' 0x41 and 'a' 0x61.
hex2int(c) ==
    LET low == c \cap 0..3
    IN  CASE c \ low = {4, 5} /\ (3 \in low => low \cap {1, 2} = {}) -> low
          [] c \ low \in {{6}, {5, 6}} /\ low = {0}    -> {1, 3}
          [] c \ low \in {{6}, {5, 6}} /\ low = {1}    -> {0, 1, 3}
          [] c \ low \in {{6}, {5, 6}} /\ low = {0, 1} -> {2, 3}
          [] c \ low \in {{6}, {5, 6}} /\ low = {2}    -> {0, 2, 3}
          [] c \ low \in {{6}, {5, 6}} /\ low = {0, 2} -> {1, 2, 3}
          [] c \ low \in {{6}, {5, 6}} /\ low = {1, 2} -> {0, 1, 2, 3}
          [] OTHER -> NotHex

\* checksum ^= *sentence++, from character to character.
Checksums(codes) ==
    LET checksum[i \in 0..Len(codes)] ==
            IF i = 0 THEN {} ELSE SymDiff(checksum[i - 1], codes[i])
    IN  checksum

minmea_checksum(codes) == Checksums(codes)[Len(codes)]

\* Where the loop over the characters after '$' stops.
Summed(c) == isprint(c) /\ c # Star
Stop(s)   == CHOOSE e \in 2..(Len(s) + 1) :
                ~Summed(CharAt(s, e)) /\ \A i \in 2..(e - 1) : Summed(s[i])

\* A newline, or nothing.
AtEnd(s, i) == \/ CharAt(s, i) = Nul
               \/ CharAt(s, i) = Lf /\ CharAt(s, i + 1) = Nul
               \/ CharAt(s, i) = Cr /\ CharAt(s, i + 1) = Lf /\ CharAt(s, i + 2) = Nul

\* The two characters from i on are the checksum.
SumAt(s, i, codes) ==
    /\ hex2int(CharAt(s, i)) # NotHex /\ hex2int(CharAt(s, i + 1)) # NotHex
    /\ minmea_checksum(codes) = {b + 4 : b \in hex2int(CharAt(s, i))} \cup hex2int(CharAt(s, i + 1))

minmea_check(s) ==
    /\ strlen(s) <= MINMEA_MAX_LENGTH + 3
    /\ CharAt(s, 1) = DollarSign
    /\ LET e == Stop(s)
       IN  IF CharAt(s, e) = Star
           THEN SumAt(s, e + 1, SubSeq(s, 2, e - 1)) /\ AtEnd(s, e + 3)
           ELSE AtEnd(s, e)

-----------------------------------------------------------------------------
(* minmea_scan, type 'f' *)

Digits == {"0", "1", "2", "3", "4", "5", "6", "7", "8", "9"}
Characters == Digits \cup {"+", "-", ".", "space", "x"}   \* "x": any other

Digit(c) == CASE c = "0" -> 0 [] c = "1" -> 1 [] c = "2" -> 2 [] c = "3" -> 3 [] c = "4" -> 4
              [] c = "5" -> 5 [] c = "6" -> 6 [] c = "7" -> 7 [] c = "8" -> 8 [] OTHER -> 9

ScanStart == [sign |-> 0, value |-> -1, scale |-> 0, state |-> "go"]

\* Mutant: the digit is not taken off the limit.
DigitFitsLoose(value, d) == value <= MAXINT \div 10

DigitFits(value, d) == value <= (MAXINT - d) \div 10

\* A digit that does not fit ends the number, or is an error before the point.
\* The scale is multiplied without a test.
ScanDigit(s, d) ==
    LET value == IF s.value = -1 THEN 0 ELSE s.value
    IN  IF ~DigitFits(value, d)
        THEN [s EXCEPT !.state = IF s.scale # 0 THEN "stop" ELSE "error"]
        ELSE [s EXCEPT !.value = 10 * value + d, !.scale = 10 * s.scale,
                       !.state = IF 10 * s.scale <= MAXINT THEN "go" ELSE "overflow"]

ScanChar(s, c) ==
    CASE s.state # "go" -> s
      [] s.state = "go" /\ c \in {"+", "-"} /\ s.sign = 0 /\ s.value = -1 ->
            [s EXCEPT !.sign = IF c = "+" THEN 1 ELSE -1]
      [] s.state = "go" /\ c \in Digits -> ScanDigit(s, Digit(c))
      [] s.state = "go" /\ c = "." /\ s.scale = 0 -> [s EXCEPT !.scale = 1]
      [] s.state = "go" /\ c = "space" /\ s.sign = 0 /\ s.value = -1 /\ s.scale = 0 -> s
      [] OTHER -> [s EXCEPT !.state = "error"]

\* The variables of the loop, from character to character.
Scan(field) ==
    LET s[i \in 0..Len(field)] == IF i = 0 THEN ScanStart ELSE ScanChar(s[i - 1], field[i])
    IN  s

\* The number, if result is "ok"; what an overflow does is undefined.
NoNumber(result) == [result |-> result, value |-> 0, scale |-> 0]

minmea_scan_f(field) ==
    LET s == Scan(field)[Len(field)]
    IN  CASE s.state = "error" -> NoNumber("error")
          [] s.state = "overflow" -> NoNumber("undefined")
          [] s.state \in {"go", "stop"} /\ s.value = -1 ->
                NoNumber(IF s.sign = 0 /\ s.scale = 0 THEN "ok" ELSE "error")
          [] OTHER -> [result |-> "ok",
                       value |-> IF s.sign = -1 THEN -s.value ELSE s.value,
                       scale |-> IF s.scale = 0 THEN 1 ELSE s.scale]

-----------------------------------------------------------------------------
(* Properties *)

\* A sentence with its checksum, in digits of either case.
Sentence(codes, upper, lower) == <<DollarSign>> \o codes \o <<Star, upper, lower>>

WrittenAs(digit) == {c \in Bytes : hex2int(c) = digit}

\* What the checksum cannot tell: the sentence has lost it, its '*' being another
\* printable character or the string ending there or before, or a digit of it is
\* written differently.
Unprotected(s, other) ==
    LET star == Len(s) - 2
    IN  \/ \E i \in 2..star : other[i] = Nul
        \/ Summed(other[star])
        \/ \E i \in {star + 1, star + 2} :
              other[i] # s[i] /\ hex2int(other[i]) = hex2int(s[i])

\* minmea_check takes a sentence with its checksum unless it is too long, and one
\* of whose characters one was changed only where the checksum cannot tell.
CheckCatches(codes, Others) ==
    LET sum == minmea_checksum(codes)
    IN  \A upper \in WrittenAs({b - 4 : b \in sum \cap 4..7}), lower \in WrittenAs(sum \cap 0..3) :
          LET s == Sentence(codes, upper, lower)
          IN  /\ minmea_check(s) <=> Len(s) <= MINMEA_MAX_LENGTH + 3
              /\ \A other \in OneChanged(s, Others) :
                    minmea_check(other) <=>
                        strlen(other) <= MINMEA_MAX_LENGTH + 3 /\ Unprotected(s, other)

\* A number: spaces, a sign or none, digits, a point or none, digits after a point.
Shape(field, spaces, sign, whole, point, fraction) ==
    /\ Len(field) = spaces + sign + whole + point + fraction
    /\ point = 0 => fraction = 0
    /\ \A i \in DOMAIN field :
          field[i] \in IF i <= spaces THEN {"space"}
                       ELSE IF i <= spaces + sign THEN {"+", "-"}
                       ELSE IF i <= spaces + sign + whole THEN Digits
                       ELSE IF i <= spaces + sign + whole + point THEN {"."} ELSE Digits

\* What the first k digits of it say, for each k, and powers of ten.
Numbers(field, before, whole, point, fraction) ==
    LET number[k \in 0..(whole + fraction)] ==
            IF k = 0 THEN 0
            ELSE 10 * number[k - 1]
                 + Digit(field[before + k + (IF k <= whole THEN 0 ELSE point)])
    IN  number

PowersOfTen(n) == LET power[k \in 0..n] == IF k = 0 THEN 1 ELSE 10 * power[k - 1] IN power

\* What is taken for a number is that number, up to the last digit after the point
\* that MAXINT allows; one whose digits before the point do not fit is refused, and
\* so is a sign or a point alone; an overflow needs a scale that does not fit.
ScannedAs(field, spaces, sign, whole, point, fraction) ==
    LET number   == Numbers(field, spaces + sign, whole, point, fraction)
        kept     == Max({-1} \cup {k \in 0..fraction : number[whole + k] <= MAXINT})
        power    == PowersOfTen(fraction)[kept]
        negative == sign = 1 /\ field[spaces + 1] = "-"
        got      == minmea_scan_f(field)
    IN  IF whole + fraction = 0
        THEN got = NoNumber(IF sign + point = 0 THEN "ok" ELSE "error")
        ELSE IF kept = -1 THEN got = NoNumber("error")
        ELSE IF power > MAXINT THEN got = NoNumber("undefined")
        ELSE got = [result |-> "ok", scale |-> power,
                    value |-> IF negative THEN -number[whole + kept] ELSE number[whole + kept]]

ScanIsExact(field) ==
    \A spaces, whole \in 0..Len(field), sign, point \in 0..1 :
        LET fraction == Len(field) - spaces - sign - whole - point
        IN  fraction >= 0 /\ Shape(field, spaces, sign, whole, point, fraction) =>
                ScannedAs(field, spaces, sign, whole, point, fraction)
=============================================================================
