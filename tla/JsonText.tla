----------------------------- MODULE JsonText -----------------------------
(***************************************************************************)
(* Json::Value with its operations on arrays and objects (json_value.cpp), *)
(* the text that StreamWriterBuilder's writer makes of it                  *)
(* (json_writer.cpp) and what CharReaderBuilder's reader makes of a text   *)
(* (json_reader.cpp), both with the settings of JsonUtil.  Characters are  *)
(* bytes.  Integers are of Width bits; a double has one decimal place and  *)
(* is small.  Comments and the writer's layout are left out.               *)
(***************************************************************************)
EXTENDS Integers, SequencesExt, Functions

CONSTANTS
    Width,          \* of an integer: 64
    JsonKeys,       \* names of members: sequences of bytes
    JsonLeaves,     \* values an application puts in
    JsonTexts,      \* texts that are read, over a few characters
    MaxJsonItems,   \* bound: items of an array
    stackLimit

VARIABLES
    doc,    \* a value, an array or an object to start with
    items   \* history: the items of the array, as a sequence

jsonVars == <<doc, items>>

maxInt  == 2 ^ (Width - 1) - 1
maxUInt == 2 ^ Width - 1

Nothing == [x \in {} |-> x]
Value_(type, n, s, map) == [type |-> type, number |-> n, string |-> s, map |-> map]
JNull     == Value_("null", 0, <<>>, Nothing)
JBool(b)  == Value_("boolean", IF b THEN 1 ELSE 0, <<>>, Nothing)
JInt(n)   == Value_("int", n, <<>>, Nothing)
JUInt(n)  == Value_("uint", n, <<>>, Nothing)
JReal(n)  == Value_("real", n, <<>>, Nothing)    \* n tenths
JString(s) == Value_("string", 0, s, Nothing)
JArray    == Value_("array", 0, <<>>, Nothing)
JObject   == Value_("object", 0, <<>>, Nothing)

(* The size of an array is its highest index and one: what is between may  *)
(* not exist, and is null for a reader of the value.                       *)
Greatest(S) == CHOOSE x \in S : \A y \in S : y <= x
JSize(v) == IF DOMAIN v.map = {} THEN 0 ELSE Greatest(DOMAIN v.map) + 1
JAt(v, i) == IF i \in DOMAIN v.map THEN v.map[i] ELSE JNull
JPut(v, k, x) == [v EXCEPT !.map = [j \in DOMAIN v.map \cup {k} |-> IF j = k THEN x ELSE v.map[j]]]
JErased(v, K) == [v EXCEPT !.map = Restrict(v.map, DOMAIN v.map \ K)]

-----------------------------------------------------------------------------
(* UTF-8, as the writer reads it: the code point at i and where it ends.   *)
Replacement == 65533
Point(s, i) ==
    LET left == Len(s) - i + 1
        bits(j) == s[i + j] % 64
        from(n, lead, least) ==
            LET cp == (CASE n = 1 -> ((s[i] % lead) * 64) + bits(1)
                         [] n = 2 -> (((s[i] % lead) * 64) + bits(1)) * 64 + bits(2)
                         [] n = 3 -> ((((s[i] % lead) * 64) + bits(1)) * 64 + bits(2)) * 64 + bits(3))
            IN <<IF cp < least \/ cp \in 55296 .. 57343 THEN Replacement ELSE cp, i + n>>
    IN CASE s[i] < 128 -> <<s[i], i>>
         [] s[i] \in 128 .. 223 -> IF left < 2 THEN <<Replacement, i>> ELSE from(1, 32, 128)
         [] s[i] \in 224 .. 239 -> IF left < 3 THEN <<Replacement, i>> ELSE from(2, 16, 2048)
         [] s[i] \in 240 .. 247 -> IF left < 4 THEN <<Replacement, i>> ELSE from(3, 8, 65536)
         [] OTHER -> <<Replacement, i>>

codePointToUTF8(cp) ==
    CASE cp < 128 -> <<cp>>
      [] cp \in 128 .. 2047 -> <<192 + (cp \div 64), 128 + (cp % 64)>>
      [] cp \in 2048 .. 65535 -> <<224 + (cp \div 4096), 128 + ((cp \div 64) % 64), 128 + (cp % 64)>>
      [] cp \in 65536 .. 1114111 ->
           <<240 + (cp \div 262144), 128 + ((cp \div 4096) % 64), 128 + ((cp \div 64) % 64), 128 + (cp % 64)>>
      [] OTHER -> <<>>

Hex(x) == LET digit(d) == IF d < 10 THEN 48 + d ELSE 87 + d
          IN <<92, 117, digit((x \div 4096) % 16), digit((x \div 256) % 16), digit((x \div 16) % 16), digit(x % 16)>>

(* Mutant: the two halves of a point beyond the first plane are cut from   *)
(* the point itself.                                                       *)
EscapedWhole(cp) ==
    IF cp < 65536 THEN Hex(cp) ELSE Hex(55296 + ((cp \div 1024) % 1024)) \o Hex(56320 + (cp % 1024))

Escaped(cp) ==
    IF cp < 65536 THEN Hex(cp)
    ELSE Hex(55296 + (((cp - 65536) \div 1024) % 1024)) \o Hex(56320 + (cp % 1024))

Short_ == (34 :> 34) @@ (92 :> 92) @@ (8 :> 98) @@ (12 :> 102) @@ (10 :> 110) @@ (13 :> 114) @@ (9 :> 116)

RECURSIVE Quoted(_, _)
Quoted(s, i) ==
    IF i > Len(s) THEN <<>>
    ELSE IF s[i] \in DOMAIN Short_ THEN <<92, Short_[s[i]]>> \o Quoted(s, i + 1)
    ELSE LET p == Point(s, i)
         IN (IF p[1] \in 32 .. 127 THEN <<p[1]>> ELSE Escaped(p[1])) \o Quoted(s, p[2] + 1)
valueToQuotedString(s) == <<34>> \o Quoted(s, 1) \o <<34>>

RECURSIVE Digits_(_)
Digits_(n) == IF n < 10 THEN <<48 + n>> ELSE Append(Digits_(n \div 10), 48 + (n % 10))
Signed(n, text) == IF n < 0 THEN <<45>> \o text ELSE text
Magnitude(n) == IF n < 0 THEN -n ELSE n

True_ == <<116, 114, 117, 101>>    False_ == <<102, 97, 108, 115, 101>>    Null_ == <<110, 117, 108, 108>>

(* BuiltStyledStreamWriter::writeValue.                                    *)
RECURSIVE writeValue(_)
writeValue(v) ==
    CASE v.type = "null" -> Null_
      [] v.type = "boolean" -> IF v.number = 1 THEN True_ ELSE False_
      [] v.type \in {"int", "uint"} -> Signed(v.number, Digits_(Magnitude(v.number)))
      [] v.type = "real" -> Signed(v.number, Digits_(Magnitude(v.number) \div 10)
                                             \o <<46, 48 + (Magnitude(v.number) % 10)>>)
      [] v.type = "string" -> valueToQuotedString(v.string)
      [] v.type = "array" ->
           <<91>> \o FoldLeft(LAMBDA t, i : (IF i = 1 THEN t ELSE Append(t, 44)) \o writeValue(JAt(v, i - 1)),
                              <<>>, [i \in 1 .. JSize(v) |-> i]) \o <<93>>
      [] v.type = "object" ->
           <<123>> \o FoldLeft(LAMBDA t, k : (IF t = <<>> THEN t ELSE Append(t, 44))
                                             \o valueToQuotedString(k) \o <<32, 58, 32>> \o writeValue(v.map[k]),
                               <<>>, SetToSeq(DOMAIN v.map)) \o <<125>>

-----------------------------------------------------------------------------
(* The reader: where it stands after a value, and the value.               *)
Refuse == [at |-> 0, value |-> JNull]
ReadTo(at, value) == [at |-> at, value |-> value]
Char(t, i) == IF i > Len(t) THEN 0 ELSE t[i]
IsDigit_(c) == c \in 48 .. 57

RECURSIVE SkipAll(_, _, _)
SkipAll(t, i, C) == IF Char(t, i) \in C THEN SkipAll(t, i + 1, C) ELSE i
skipSpaces(t, i) == SkipAll(t, i, {32, 9, 13, 10})

(* readNumber is generous: a sign or a point may stand alone.              *)
NumberEnd(t, i) ==
    LET whole == SkipAll(t, i, 48 .. 57)
        fraction == IF Char(t, whole) = 46 THEN SkipAll(t, whole + 1, 48 .. 57) ELSE whole
        sign == IF Char(t, fraction + 1) \in {43, 45} THEN fraction + 2 ELSE fraction + 1
    IN IF Char(t, fraction) \in {69, 101} THEN SkipAll(t, sign, 48 .. 57) ELSE fraction

Natural(d) == FoldLeft(LAMBDA n, c : n * 10 + (c - 48), 0, d)

(* With one decimal place and no exponent.                                 *)
decodeDouble(t) ==
    LET body_ == IF t[1] \in {43, 45} THEN Tail(t) ELSE t
        point == SelectInSeq(body_, LAMBDA c : c = 46)
        whole == IF point = 0 THEN body_ ELSE SubSeq(body_, 1, point - 1)
        tenth == IF point \in {0, Len(body_)} THEN 0 ELSE body_[point + 1] - 48
        n == Natural(whole) * 10 + tenth
    IN IF body_ \in {<<>>, <<46>>} THEN Refuse ELSE ReadTo(1, JReal(IF t[1] = 45 THEN -n ELSE n))

(* Digit by digit: the first that does not fit makes it a double.  A sign  *)
(* alone is 0.                                                             *)
decodeNumber(t) ==
    LET negative == t[1] = 45
        d == IF negative THEN Tail(t) ELSE t
        largest == IF negative THEN maxInt + 1 ELSE maxUInt
        fits(i) == LET value == Natural(SubSeq(d, 1, i - 1))
                   IN \/ value < largest \div 10
                      \/ value = largest \div 10 /\ i = Len(d) /\ d[i] - 48 <= largest % 10
        n == Natural(d)
    IN IF \E i \in DOMAIN d : ~ IsDigit_(d[i]) \/ ~ fits(i) THEN decodeDouble(t)
       ELSE ReadTo(1, IF negative THEN JInt(-n) ELSE IF n <= maxInt THEN JInt(n) ELSE JUInt(n))

(* Past the quote that ends a string which begins at i; 0 if there is none.*)
RECURSIVE StringEnd(_, _)
StringEnd(t, i) ==
    CASE i > Len(t) -> 0
      [] i <= Len(t) /\ t[i] = 92 -> StringEnd(t, i + 2)
      [] i <= Len(t) /\ t[i] = 34 -> i + 1
      [] OTHER -> StringEnd(t, i + 1)

HexDigit(c) == CASE c \in 48 .. 57 -> c - 48 [] c \in 97 .. 102 -> c - 87 [] c \in 65 .. 70 -> c - 55 [] OTHER -> -1
Unit(s, i) ==
    IF i + 3 > Len(s) \/ \E j \in i .. i + 3 : HexDigit(s[j]) < 0 THEN -1
    ELSE FoldLeft(LAMBDA n, j : n * 16 + HexDigit(s[j]), 0, [j \in 1 .. 4 |-> i + j - 1])
(* decodeUnicodeCodePoint, at the digits: the point and its last place.    *)
UnicodePoint(s, i) ==
    LET high == Unit(s, i)  low == Unit(s, i + 6)
    IN CASE high < 0 -> <<-1, 0>>
         [] high \in 55296 .. 56319 ->
              IF Char(s, i + 4) # 92 \/ Char(s, i + 5) # 117 \/ low < 0 THEN <<-1, 0>>
              ELSE <<65536 + ((high % 1024) * 1024) + (low % 1024), i + 9>>
         [] OTHER -> <<high, i + 3>>

Long == (34 :> 34) @@ (47 :> 47) @@ (92 :> 92) @@ (98 :> 8) @@ (102 :> 12) @@ (110 :> 10) @@ (114 :> 13) @@ (116 :> 9)
Bad == <<-1>>
RECURSIVE decodeString(_, _)
decodeString(s, i) ==
    LET then(head, j) == LET rest == decodeString(s, j) IN IF rest = Bad THEN Bad ELSE head \o rest
        p == UnicodePoint(s, i + 2)
    IN CASE i > Len(s) -> <<>>
         [] i <= Len(s) /\ s[i] # 92 -> then(<<s[i]>>, i + 1)
         [] i <= Len(s) /\ s[i] = 92 ->
              CASE Char(s, i + 1) \in DOMAIN Long -> then(<<Long[s[i + 1]]>>, i + 2)
                [] Char(s, i + 1) = 117 -> IF p[1] < 0 THEN Bad ELSE then(codePointToUTF8(p[1]), p[2] + 1)
                [] OTHER -> Bad
StringAt(t, i) ==
    LET end == StringEnd(t, i)  s == IF end = 0 THEN Bad ELSE decodeString(SubSeq(t, i, end - 2), 1)
    IN IF s = Bad THEN Refuse ELSE ReadTo(end, JString(s))

Literal(t, i, word, v) == IF SubSeq(t, i, i + Len(word) - 1) = word THEN ReadTo(i + Len(word), v) ELSE Refuse

(* readValue, readArray and readObject.  After an error the reader skips   *)
(* to an end, and fails all the same.                                      *)
RECURSIVE readValue(_, _, _), readArray(_, _, _, _), readObject(_, _, _, _)
readValue(t, from, depth) ==
    LET i == skipSpaces(t, from)  c == Char(t, i)  end == NumberEnd(t, i + 1)
    IN CASE depth > stackLimit -> Refuse
         [] c = 123 -> readObject(t, i + 1, depth, JObject)
         [] c = 91  -> readArray(t, i + 1, depth, JArray)
         [] c = 34  -> StringAt(t, i + 1)
         [] IsDigit_(c) \/ (c \in {43, 45} /\ Char(t, i + 1) # 73) ->
              LET n == decodeNumber(SubSeq(t, i, end - 1)) IN IF n = Refuse THEN Refuse ELSE ReadTo(end, n.value)
         [] c = 116 -> Literal(t, i, True_, JBool(TRUE))
         [] c = 102 -> Literal(t, i, False_, JBool(FALSE))
         [] c = 110 -> Literal(t, i, Null_, JNull)
         [] OTHER -> Refuse

(* The item x has been read, the member x of a name, the name.             *)
AfterItem(t, depth, v, x) ==
    LET next == skipSpaces(t, x.at)  got == JPut(v, JSize(v), x.value)
    IN CASE x = Refuse -> Refuse
         [] x # Refuse /\ Char(t, next) = 44 -> readArray(t, next + 1, depth, got)
         [] x # Refuse /\ Char(t, next) = 93 -> ReadTo(next + 1, got)
         [] OTHER -> Refuse
AfterMember(t, depth, v, name, x) ==
    LET next == skipSpaces(t, x.at)  got == JPut(v, name, x.value)
    IN CASE x = Refuse -> Refuse
         [] x # Refuse /\ Char(t, next) = 44 -> readObject(t, next + 1, depth, got)
         [] x # Refuse /\ Char(t, next) = 125 -> ReadTo(next + 1, got)
         [] OTHER -> Refuse
AfterName(t, depth, v, name) ==
    LET colon == skipSpaces(t, name.at)
    IN IF name = Refuse \/ Char(t, colon) # 58 THEN Refuse
       ELSE AfterMember(t, depth, v, name.value.string, readValue(t, colon + 1, depth + 1))

readArray(t, from, depth, v) ==
    LET i == skipSpaces(t, from)
    IN IF Char(t, i) = 93 THEN ReadTo(i + 1, v) ELSE AfterItem(t, depth, v, readValue(t, i, depth + 1))
readObject(t, from, depth, v) ==
    LET i == skipSpaces(t, from)
    IN CASE Char(t, i) = 125 -> ReadTo(i + 1, v)
         [] Char(t, i) = 34  -> AfterName(t, depth, v, StringAt(t, i + 1))
         [] OTHER -> Refuse

(* What comes after the value is not looked at.                            *)
parse(t) == readValue(t, 1, 1)

-----------------------------------------------------------------------------
JsonInit == doc \in {JArray, JObject} /\ items = <<>>
IsArray == doc.type = "array"

(* operator[](index), for writing: holes may come up.                      *)
SetIndex ==
    \E i \in 0 .. MaxJsonItems - 1, x \in JsonLeaves :
        /\ IsArray /\ doc' = JPut(doc, i, x)
        /\ items' = [j \in 1 .. JSize(doc') |-> IF j = i + 1 THEN x ELSE IF j <= Len(items) THEN items[j] ELSE JNull]

AppendValue ==
    \E x \in JsonLeaves :
        /\ IsArray /\ JSize(doc) < MaxJsonItems
        /\ doc' = JPut(doc, JSize(doc), x)
        /\ items' = Append(items, x)

(* Each item from the end on is moved by one.                              *)
InsertValue ==
    \E x \in JsonLeaves, index \in 0 .. MaxJsonItems - 1 :
        /\ IsArray /\ JSize(doc) < MaxJsonItems /\ index <= JSize(doc)
        /\ doc' = LET moved == FoldLeft(LAMBDA v, i : JPut(JPut(v, i, JAt(v, i - 1)), i - 1, JAt(v, i)),
                                        doc, Reverse([n \in 1 .. JSize(doc) - index |-> index + n]))
                  IN JPut(moved, index, x)
        /\ items' = InsertAt(items, index + 1, x)

(* Of a hole nothing is removed.                                           *)
RemoveIndex ==
    \E index \in DOMAIN doc.map :
        /\ IsArray
        /\ doc' = LET moved == FoldLeft(LAMBDA v, i : JPut(JPut(v, i + 1, JAt(v, i + 1)), i, JAt(v, i + 1)),
                                        doc, [n \in 1 .. JSize(doc) - 1 - index |-> index + n - 1])
                  IN JErased(moved, {JSize(doc) - 1})
        /\ items' = SubSeq(RemoveAt(items, index + 1), 1, JSize(doc'))

(* If there are holes before newSize the size comes out smaller, and its   *)
(* assertion throws.                                                       *)
ResizeArray ==
    \E newSize \in 0 .. MaxJsonItems :
        /\ IsArray
        /\ doc' = IF newSize > JSize(doc) THEN JPut(doc, newSize - 1, JNull)
                  ELSE JErased(doc, newSize .. JSize(doc))
        /\ items' = [j \in 1 .. JSize(doc') |-> IF j <= Len(items) THEN items[j] ELSE JNull]

SetKey ==
    \E k \in JsonKeys, x \in JsonLeaves :
        /\ doc.type = "object" /\ doc' = JPut(doc, k, x) /\ UNCHANGED items

RemoveKey ==
    \E k \in JsonKeys :
        /\ doc.type = "object" /\ k \in DOMAIN doc.map
        /\ doc' = JErased(doc, {k}) /\ UNCHANGED items

Take(outcome) ==
    /\ outcome # Refuse /\ doc' = outcome.value
    /\ items' = IF IsArray' THEN [j \in 1 .. JSize(doc') |-> JAt(doc', j - 1)] ELSE <<>>
Parse == \E t \in JsonTexts : doc = JArray /\ Take(parse(t))

JsonNext ==
    SetIndex \/ AppendValue \/ InsertValue \/ RemoveIndex \/ ResizeArray \/ SetKey \/ RemoveKey \/ Parse

-----------------------------------------------------------------------------
(* What a text cannot tell apart: a hole and null, and whether a number    *)
(* that fits was unsigned.                                                 *)
RECURSIVE Normal(_)
Normal(v) ==
    CASE v.type = "uint" -> IF v.number <= maxInt THEN JInt(v.number) ELSE v
      [] v.type = "array" -> [v EXCEPT !.map = [i \in 0 .. JSize(v) - 1 |-> Normal(JAt(v, i))]]
      [] v.type = "object" -> [v EXCEPT !.map = [k \in DOMAIN v.map |-> Normal(v.map[k])]]
      [] OTHER -> v

(* A value that is written and read again is the same, with every escape,  *)
(* code point and number at the edge of its type, and whatever it was read *)
(* from; and an array is a sequence although its map may have holes.       *)
ReadAs(outcome) == outcome # Refuse /\ outcome.value = Normal(doc)
JsonReads == ReadAs(parse(writeValue(doc)))
ArrayIsSequence == IsArray => items = [j \in 1 .. JSize(doc) |-> JAt(doc, j - 1)]
=============================================================================
