------------------------------ MODULE LogFormat ------------------------------
(***************************************************************************)
(* The patterns of log lines, LogFormatter of src/src/log.cpp: a pattern   *)
(* from the configuration is cut into plain text and directives ("%m",     *)
(* "%d{format}"), each a pair of a letter and a text, and each line of the *)
(* log is what the directives stand for, in turn.  Characters are strings  *)
(* of length one.                                                          *)
(***************************************************************************)
EXTENDS Integers, SequencesExt

CONSTANTS
    PatternChars,   \* characters patterns are made of
    MaxPattern      \* bound: their length

VARIABLE m_pattern

FormatInit == m_pattern = <<>>
Longer == \E c \in PatternChars : Len(m_pattern) < MaxPattern /\ m_pattern' = Append(m_pattern, c)
FormatNext == Longer

Letters == {"n", "T", "d", "t", "F", "p", "m", "r", "c", "f", "l", "N"}
Alphabetic == Letters \cup {"x", "Y"}
Plain == " "
Item(first, second) == <<first, second>>
Wrong(s) == Item("", s)

-----------------------------------------------------------------------------
(***************************************************************************)
(* init                                                                    *)
(***************************************************************************)
Flushed(vec, str) == IF str = <<>> THEN vec ELSE Append(vec, Item(Plain, str))

(* Mutant: braces that are not closed go to the end of the pattern.        *)
ClosedOrEnd(p, i) == SelectInSeq(SubSeq(p, i, Len(p)) \o <<"}">>, LAMBDA c : c = "}") + i - 1

(* Where the braces are closed that are open at i, or 0.                   *)
ClosedAt(p, i) ==
    LET n == SelectInSeq(SubSeq(p, i, Len(p)), LAMBDA c : c = "}")
    IN IF n = 0 THEN 0 ELSE n + i - 1

(* The directive whose letter is at i: its item, and where it ends.        *)
Braced(p, i) == i < Len(p) /\ p[i + 1] = "{"
Directive(p, i) ==
    CASE p[i] \notin Alphabetic -> [item |-> Wrong(SubSeq(p, i - 1, i)), end |-> i]
      [] p[i] \in Alphabetic /\ ~ Braced(p, i) -> [item |-> Item(p[i], <<>>), end |-> i]
      [] p[i] \in Alphabetic /\ Braced(p, i) /\ ClosedAt(p, i + 1) # 0 ->
            [item |-> Item(p[i], SubSeq(p, i + 2, ClosedAt(p, i + 1) - 1)), end |-> ClosedAt(p, i + 1)]
      [] OTHER -> [item |-> Wrong(SubSeq(p, i - 1, Len(p))), end |-> Len(p)]

RECURSIVE Scan(_, _, _, _)
Scan(p, i, vec, str) ==
    CASE i > Len(p) -> Flushed(vec, str)
      [] i <= Len(p) /\ p[i] # "%" -> Scan(p, i + 1, vec, Append(str, p[i]))
      [] i = Len(p) /\ p[i] = "%" -> Flushed(vec, str)
      [] i < Len(p) /\ p[i] = "%" /\ p[i + 1] = "%" -> Scan(p, i + 2, vec, Append(str, "%"))
      [] OTHER -> LET d == Directive(p, i + 1)
                  IN Scan(p, d.end + 1, Append(Flushed(vec, str), d.item), <<>>)

Matches(item) == item[1] \in Letters \cup {Plain}
Vec(p) == Scan(p, 1, <<>>, <<>>)
m_items(p) == SelectSeq(Vec(p), Matches)
isError(p) == \E k \in DOMAIN Vec(p) : ~ Matches(Vec(p)[k])

(* The default, which the configuration leaves when the pattern is wrong.  *)
DefaultItems == <<Item("d", <<>>), Item("m", <<>>)>>
Formatter(p) == IF isError(p) THEN DefaultItems ELSE m_items(p)

-----------------------------------------------------------------------------
(* format(): a field stands for what the event has; the time is written as *)
(* the text in its braces says, if there is one.                           *)
DefaultTime == <<"%Y-%m-%d %H:%M:%S">>
Field(item) ==
    CASE item[1] = "d" -> <<"time", IF item[2] = <<>> THEN DefaultTime ELSE item[2]>>
      [] item[1] = Plain -> <<"text", item[2]>>
      [] OTHER -> <<"field", item[1]>>
format(items) == [k \in DOMAIN items |-> Field(items[k])]

-----------------------------------------------------------------------------
(***************************************************************************)
(* What a pattern means, one character after the other: the mode it is in, *)
(* the fields so far, the text that is being read.                         *)
(***************************************************************************)
Text_(m) == IF m.str = <<>> THEN m.out ELSE Append(m.out, <<"text", m.str>>)
Meant(letter, str) ==
    IF letter = "d" THEN <<"time", IF str = <<>> THEN DefaultTime ELSE str>> ELSE <<"field", letter>>
Put_(m) == [m EXCEPT !.out = Append(@, Meant(m.letter, m.str)), !.str = <<>>, !.mode = "text",
                     !.wrong = @ \/ m.letter \notin Letters]
InText(m, c) == IF c = "%" THEN [m EXCEPT !.mode = "percent"] ELSE [m EXCEPT !.str = Append(@, c)]
Meets(m, c) ==
    CASE m.mode = "text" -> InText(m, c)
      [] m.mode = "percent" /\ c = "%" -> [m EXCEPT !.mode = "text", !.str = Append(@, c)]
      [] m.mode = "percent" /\ c \in Alphabetic ->
            [m EXCEPT !.mode = "letter", !.letter = c, !.out = Text_(m), !.str = <<>>]
      [] m.mode = "percent" /\ c \notin Alphabetic \cup {"%"} -> [m EXCEPT !.wrong = TRUE, !.mode = "text"]
      [] m.mode = "letter" /\ c = "{" -> [m EXCEPT !.mode = "braces"]
      [] m.mode = "letter" /\ c # "{" -> InText(Put_(m), c)
      [] m.mode = "braces" /\ c = "}" -> Put_(m)
      [] m.mode = "braces" /\ c # "}" -> [m EXCEPT !.str = Append(@, c)]
Start_ == [mode |-> "text", out |-> <<>>, str |-> <<>>, letter |-> "", wrong |-> FALSE]
Closed_(m) == CASE m.mode = "letter" -> Put_(m)
                [] m.mode = "braces" -> [m EXCEPT !.wrong = TRUE]
                [] OTHER -> [m EXCEPT !.out = Text_(m)]
Meaning(p) == Closed_(FoldLeft(Meets, Start_, p))

(* A pattern is refused exactly when it has no meaning, and a line of the  *)
(* log is what the pattern means, in its order.                            *)
FormatRight ==
    LET m == Meaning(m_pattern)
    IN  /\ isError(m_pattern) <=> m.wrong
        /\ format(Formatter(m_pattern)) = IF m.wrong THEN format(DefaultItems) ELSE m.out
=============================================================================
