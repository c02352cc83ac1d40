---------------------------- MODULE Configuration ---------------------------
(***************************************************************************)
(* The configuration manager's ini file: the tokens that                   *)
(* config_manager_implementation_init_cb cuts it into, character by        *)
(* character, and the look-up of an option.  A file is a sequence of       *)
(* characters, NL being the end of a line; names and values are short.     *)
(* Offsets count from 0 as in the code.                                    *)
(***************************************************************************)
EXTENDS Integers, Sequences, SequencesExt

CONSTANT Letters  \* the characters that mean nothing to the parser

NL == "nl"

Signs == {NL, "#", "[", "]", "="}

ASSUME ConfigurationAssumption == {"a", "1"} \subseteq Letters /\ Letters \cap Signs = {}

\* What a file's lines may be.
Comment     == <<"#", "a", "=", "1", NL>>
Group(g)    == <<"[">> \o g \o <<"]", NL>>
Option(o,v) == o \o <<"=">> \o v \o <<NL>>

FileOf(lines) ==
    LET file[i \in 0..Len(lines)] == IF i = 0 THEN <<>> ELSE file[i - 1] \o lines[i]
    IN  file[Len(lines)]

\* What the parser is made for: names are not empty and none is the beginning of
\* another; a value is whatever can stand in a line.
NamesOK(names)   == /\ names \subseteq Seq(Letters) \ {<<>>}
                    /\ \A n, m \in names : IsPrefix(n, m) => n = m
ValuesOK(values) == values \subseteq Seq(Letters \cup (Signs \ {NL}))

-----------------------------------------------------------------------------
(* config_manager_implementation_init_cb *)

\* config_manager_token_t.
NoToken == [start |-> 0, end |-> 0, size |-> 0, eq_sign_idx |-> 0, level |-> "none"]

\* The variables of the loop.  Tokens are added as lines begin: token and group
\* are the indexes of this_token and group_token, count that of the tokens that
\* are complete.
Start == [pos |-> 0, value_started |-> FALSE, new_line |-> TRUE, comment_line |-> FALSE,
          token |-> 1, group |-> 1, count |-> 0, tokens |-> <<NoToken>>]

\* The first character of a line that is not a comment.
LineStart(s, c) ==
    LET isGroup == c = "["
        at == IF isGroup THEN s.pos + 1 ELSE s.pos
        t  == [start |-> at, end |-> at, size |-> IF isGroup THEN 0 ELSE 1,
               eq_sign_idx |-> IF isGroup THEN s.tokens[s.token].eq_sign_idx ELSE at,
               level |-> IF isGroup THEN "group" ELSE "option"]
        counted == IF isGroup THEN s.tokens
                   ELSE [s.tokens EXCEPT ![s.group].size = @ + 1]
    IN  [s EXCEPT !.group = IF isGroup THEN s.token ELSE @,
                  !.tokens = [counted EXCEPT ![s.token] = t],
                  !.new_line = FALSE]

\* A newline ends the token; a group's ends before the bracket.
LineEnd(s) ==
    IF s.comment_line THEN [s EXCEPT !.value_started = FALSE, !.comment_line = FALSE,
                                     !.new_line = TRUE]
    ELSE [s EXCEPT !.value_started = FALSE, !.new_line = TRUE,
                   !.tokens = Append([@ EXCEPT ![s.token].end =
                                         IF s.token = s.group THEN s.pos - 1 ELSE s.pos], NoToken),
                   !.count = @ + 1, !.token = @ + 1]

Character(s, c) ==
    LET r == CASE s.new_line /\ c = "#" -> [s EXCEPT !.comment_line = TRUE, !.new_line = FALSE]
               [] s.new_line /\ c # "#" -> LineStart(s, c)
               [] ~s.new_line /\ c = "=" /\ ~s.value_started ->
                    [s EXCEPT !.value_started = TRUE, !.tokens[s.token].eq_sign_idx = s.pos]
               [] ~s.new_line /\ c = NL -> LineEnd(s)
               [] OTHER -> s
    IN  [r EXCEPT !.pos = @ + 1]

\* (The file is read in chunks of 16 bytes, at whose borders nothing happens.)
Parse(file) ==
    LET s[i \in 0..Len(file)] == IF i = 0 THEN Start ELSE Character(s[i - 1], file[i])
    IN  s[Len(file)]

-----------------------------------------------------------------------------
(* config_manager_implementation_get_string_cb *)

\* The characters [from, to) of the file.
Text(file, from, to) == SubSeq(file, from + 1, to)

\* strncmp over the length of the token: the token's text is a prefix of name.
Named(file, name, from, to) ==
    to - from <= Len(name) /\ Text(file, from, to) = SubSeq(name, 1, to - from)

\* No value: values have no line end.
NotFound == <<NL>>

\* Mutant: options are searched up to the end of the file.
OptionsToEnd(p, g) == g + 1 .. p.count

\* The options of group g.
OptionsOf(p, g) == g + 1 .. g + p.tokens[g].size

\* The value of an option, for a buffer of size bytes: snprintf writes at most
\* copy_len - 1 characters and a 0; a second 0 goes to copy_len + 1.
GetString(file, module, option, size) ==
    LET p == Parse(file)
        groups == {i \in 1..p.count : /\ p.tokens[i].level = "group"
                                      /\ Named(file, module, p.tokens[i].start, p.tokens[i].end)}
        g == CHOOSE i \in groups : \A j \in groups : i <= j
        opts == {i \in OptionsOf(p, g) :
                    Named(file, option, p.tokens[i].start, p.tokens[i].eq_sign_idx)}
        t == p.tokens[CHOOSE i \in opts : \A j \in opts : i <= j]
        copy_len == IF t.end - t.eq_sign_idx < size THEN t.end - t.eq_sign_idx ELSE size
    IN  IF groups = {} \/ opts = {} THEN [value |-> NotFound, last |-> 0]
        ELSE [value |-> Text(file, t.eq_sign_idx + 1, t.eq_sign_idx + copy_len),
              last  |-> copy_len + 1]

-----------------------------------------------------------------------------
(* Properties *)

\* What an ini file means: the first line "option=value" between the first line
\* of the group and the next group.
Lookup(lines, g, o) ==
    LET at == {i \in DOMAIN lines : lines[i] = Group(g)}
        first == CHOOSE i \in at : \A j \in at : i <= j
        isGroup(l) == l[1] = "["
        hits == {i \in DOMAIN lines :
                    /\ i > first
                    /\ \A j \in first + 1 .. i : ~isGroup(lines[j])
                    /\ IsPrefix(o \o <<"=">>, lines[i])}
        hit == lines[CHOOSE i \in hits : \A j \in hits : i <= j]
    IN  IF at = {} \/ hits = {} THEN NotFound
        ELSE SubSeq(hit, Len(o) + 2, Len(hit) - 1)
=============================================================================
