------------------------------ MODULE Bencode ------------------------------
(***************************************************************************)
(* Values of the B encoding and their text (bencode.cpp): a list or a      *)
(* dictionary is built with the operations of Value, written by encode()   *)
(* and read by decode().                                                   *)
(*                                                                         *)
(* A character is a string of length one.  Lists and dictionaries are both *)
(* a map m_map; the key of a list's item is the text of its index.         *)
(***************************************************************************)
EXTENDS Integers, SequencesExt

CONSTANTS
    Members,    \* keys of dictionaries
    Leaves,     \* numbers and strings (values without parts)
    MaxItems    \* bound: the items of the root

VARIABLE root

bencodeVars == <<root>>

-----------------------------------------------------------------------------
Digit == <<"0", "1", "2", "3", "4", "5", "6", "7", "8", "9">>
DigitSet == ToSet(Digit)

RECURSIVE Text(_)
Text(n) == IF n < 0 THEN <<"-">> \o Text(-n)
           ELSE IF n < 10 THEN <<Digit[n + 1]>>
           ELSE Append(Text(n \div 10), Digit[(n % 10) + 1])

(* atol: what comes before the first character that is not a digit.        *)
Unsigned(t) ==
    LET i == SelectInSeq(t, LAMBDA c : c \notin DigitSet)
        ds == IF i = 0 THEN t ELSE SubSeq(t, 1, i - 1)
    IN FoldLeft(LAMBDA n, c : 10 * n + IndexFirstSubSeq(<<c>>, Digit) - 1, 0, ds)
Number(t) == IF t # <<>> /\ Head(t) = "-" THEN - Unsigned(Tail(t)) ELSE Unsigned(t)

Node(type, n, str, map) == [type |-> type, m_int |-> n, m_string |-> str, m_map |-> map]
NoMap == [k \in {} |-> {}]
Int_(n) == Node("i", n, <<>>, NoMap)
Str(s)  == Node("b", 0, s, NoMap)
List    == Node("l", 0, <<>>, NoMap)
Dict    == Node("d", 0, <<>>, NoMap)

With(map, k, x) == [j \in DOMAIN map \cup {k} |-> IF j = k THEN x ELSE map[j]]
Without(map, k) == [j \in DOMAIN map \ {k} |-> map[j]]

(* size(): of a list, one more than the last index.                        *)
size(x) ==
    IF x.type = "d" THEN Cardinality(DOMAIN x.m_map)
    ELSE FoldSet(LAMBDA k, n : IF Number(k) >= n THEN Number(k) + 1 ELSE n, 0, DOMAIN x.m_map)

(* operator[]: an empty string where there is nothing.                     *)
At(x, k) == IF k \in DOMAIN x.m_map THEN x.m_map[k] ELSE Str(<<>>)
Put(x, k, y) == [x EXCEPT !.m_map = With(@, k, y)]
append(x, y) ==
    LET k == Text(size(x)) IN IF k \in DOMAIN x.m_map THEN x ELSE Put(x, k, y)

-----------------------------------------------------------------------------
RECURSIVE encode(_)
encode(x) ==
    CASE x.type = "i" -> <<"i">> \o Text(x.m_int) \o <<"e">>
      [] x.type = "b" -> Text(Len(x.m_string)) \o <<":">> \o x.m_string
      [] x.type = "l" ->
            FoldLeft(LAMBDA t, i : t \o encode(At(x, Text(i - 1))), <<"l">>,
                     [i \in 1 .. size(x) |-> i]) \o <<"e">>
      [] x.type = "d" ->
            FoldLeft(LAMBDA t, k : t \o Text(Len(k)) \o <<":">> \o k \o encode(x.m_map[k]), <<"d">>,
                     SetToSeq(DOMAIN x.m_map)) \o <<"e">>

(* The text of a number or of a string that starts at b, and the place     *)
(* after it; `at` is 0 if it is refused.                                   *)
Refused == [at |-> 0, val |-> Str(<<>>)]
Span(t, b, its) ==
    LET i == SelectInSubSeq(t, b, Len(t), LAMBDA c : c \notin its) IN IF i = 0 THEN Len(t) + 1 ELSE i

(* Mutant: no sign.                                                        *)
NumberCharsUnsigned == DigitSet

NumberChars == DigitSet \cup {"-"}

ReadInt(t, b) ==
    LET i == Span(t, b + 1, NumberChars)
    IN IF i > Len(t) \/ t[i] # "e" THEN Refused
       ELSE [at |-> i + 1, val |-> Int_(Number(SubSeq(t, b + 1, i - 1)))]

ReadStr(t, b) ==
    LET i == Span(t, b, DigitSet)
        len == Unsigned(SubSeq(t, b, i - 1))
    IN IF i > Len(t) \/ t[i] # ":" \/ len <= 0 \/ i + len >= Len(t) THEN Refused
       ELSE [at |-> i + len + 1, val |-> Str(SubSeq(t, i + 1, i + len))]

(* decode(): root->setType() and the loop, from b on.  In a dictionary     *)
(* each value comes after a name.                                          *)
RECURSIVE decode(_, _), DecodeItems(_, _, _), ReadValue(_, _)
ReadValue(t, b) ==
    CASE t[b] = "i" -> ReadInt(t, b)
      [] t[b] \in {"l", "d"} -> decode(t, b)
      [] OTHER -> ReadStr(t, b)

TakeItem(t, x, item) ==
    IF item.at = 0 THEN Refused ELSE DecodeItems(t, item.at, append(x, item.val))
TakeMember(t, x, name, member) ==
    IF member.at = 0 THEN Refused ELSE DecodeItems(t, member.at, Put(x, name, member.val))
TakeName(t, x, name) ==
    IF name.at = 0 THEN Refused ELSE TakeMember(t, x, name.val.m_string, ReadValue(t, name.at))

DecodeItems(t, b, x) ==
    IF b > Len(t) THEN Refused
    ELSE IF t[b] = "e" THEN [at |-> b + 1, val |-> x]
    ELSE IF x.type = "l" THEN TakeItem(t, x, ReadValue(t, b))
    ELSE IF t[b] \in {"i", "l", "d"} THEN Refused
    ELSE TakeName(t, x, ReadStr(t, b))

decode(t, b) ==
    IF b > Len(t) THEN Refused
    ELSE CASE t[b] = "l" -> DecodeItems(t, b + 1, List)
           [] t[b] = "d" -> DecodeItems(t, b + 1, Dict)
           [] OTHER -> Refused

-----------------------------------------------------------------------------
(* What is put in a list or dictionary: a leaf, or one in another.         *)
Nested == {List, Dict} \cup {append(List, y) : y \in Leaves} \cup {Put(Dict, k, y) : k \in Members, y \in Leaves}
Parts == Leaves \cup Nested

BencodeInit == root \in {List, Dict}

AppendItem == \E y \in Parts : root.type = "l" /\ size(root) < MaxItems /\ root' = append(root, y)

(* insert(): the items from `index` on are moved up one by one.            *)
InsertItem ==
    \E index \in 0 .. size(root), y \in Leaves :
        /\ root.type = "l" /\ size(root) < MaxItems
        /\ root' = LET moved == FoldLeft(LAMBDA x, j : Put(x, Text(size(root) - j + 1), At(x, Text(size(root) - j))),
                                         root, [j \in 1 .. size(root) - index |-> j])
                   IN Put(moved, Text(index), y)

(* resize(), which makes the last item only.                               *)
Resize ==
    \E n \in 0 .. MaxItems :
        /\ root.type = "l"
        /\ root' = IF n = 0 THEN List
                   ELSE IF n > size(root) THEN Put(root, Text(n - 1), At(root, Text(n - 1)))
                   ELSE [root EXCEPT !.m_map = [k \in {j \in DOMAIN @ : Number(j) < n} |-> @[k]]]

SetMember ==
    \E k \in Members, y \in Parts :
        /\ root.type = "d" /\ (k \in DOMAIN root.m_map \/ size(root) < MaxItems)
        /\ root' = Put(root, k, y)

RemoveMember ==
    \E k \in DOMAIN root.m_map : root.type = "d" /\ root' = [root EXCEPT !.m_map = Without(@, k)]

BencodeNext == AppendItem \/ InsertItem \/ Resize \/ SetMember \/ RemoveMember

-----------------------------------------------------------------------------
(* What encode() writes decode() reads back, unless a string in it is      *)
(* empty (which decode refuses): also one that resize() has left room for. *)
(* No text that was cut off is taken.                                      *)
RECURSIVE HasEmpty(_)
HasEmpty(x) ==
    \/ x.type = "b" /\ x.m_string = <<>>
    \/ x.type = "l" /\ \E i \in 1 .. size(x) : HasEmpty(At(x, Text(i - 1)))
    \/ x.type = "d" /\ \E k \in DOMAIN x.m_map : HasEmpty(x.m_map[k])

ReadsAs(t) ==
    \A n \in 0 .. Len(t) :
        decode(SubSeq(t, 1, n), 1) =
            IF n < Len(t) \/ HasEmpty(root) THEN Refused ELSE [at |-> n + 1, val |-> root]
RoundTrip == ReadsAs(encode(root))
=============================================================================
