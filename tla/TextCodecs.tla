---------------------------- MODULE TextCodecs ----------------------------
(***************************************************************************)
(* The encodings of util.cpp that are undone elsewhere: base64 (the        *)
(* handshake of a WebSocket, basic authorization), hexadecimal, the        *)
(* escapes of URLs, and text that is split at a character.  Characters     *)
(* are bytes.  Texts these functions were not meant for (base64 with       *)
(* another character, an odd number of digits) are left out.               *)
(***************************************************************************)
EXTENDS Integers, FiniteSets, SequencesExt

CONSTANTS
    TextBytes,  \* bytes a text is made of
    MaxText     \* bound: its length

VARIABLE text

CodecInit == text = <<>>
Extend == \E b \in TextBytes : Len(text) < MaxText /\ text' = Append(text, b)
CodecNext == Extend

CharAt(s, i) == IF i > Len(s) THEN 0 ELSE s[i]
Chop(s, n) == SubSeq(s, n + 1, Len(s))

-----------------------------------------------------------------------------
(* base64_encode and base64_decode, three bytes and four digits at a time; *)
(* Pad is '='.                                                             *)
Pad == 64
Digits64(a, b, c) == <<a \div 4, (a % 4) * 16 + b \div 16, (b % 16) * 4 + c \div 64, c % 64>>
Group(s) ==
    LET d == Digits64(s[1], CharAt(s, 2), CharAt(s, 3))
    IN CASE Len(s) = 1 -> <<d[1], d[2], Pad, Pad>>
         [] Len(s) = 2 -> <<d[1], d[2], d[3], Pad>>
         [] OTHER -> d
Cut(s, n) == [i \in 1 .. (Len(s) + n - 1) \div n |->
                 SubSeq(s, (i - 1) * n + 1, IF i * n > Len(s) THEN Len(s) ELSE i * n)]
base64_encode(s) == FlattenSeq([i \in DOMAIN Cut(s, 3) |-> Group(Cut(s, 3)[i])])

Ungroup(d) ==
    LET a == d[1] * 4 + d[2] \div 16
        b == (d[2] % 16) * 16 + d[3] \div 4
        c == (d[3] % 4) * 64 + d[4]
    IN CASE d[3] = Pad -> <<a>>
         [] d[3] # Pad /\ d[4] = Pad -> <<a, b>>
         [] OTHER -> <<a, b, c>>
base64_decode(t) == FlattenSeq([i \in DOMAIN Cut(t, 4) |-> Ungroup(Cut(t, 4)[i])])

-----------------------------------------------------------------------------
(* toHexString and toBinString.                                            *)
HexChar(d, ten) == IF d < 10 THEN 48 + d ELSE ten + d - 10
Pair(b, ten) == <<HexChar(b \div 16, ten), HexChar(b % 16, ten)>>
HexValue(c) ==
    CASE c \in 48 .. 57 -> c - 48
      [] c \in 65 .. 70 -> c - 55
      [] c \in 97 .. 102 -> c - 87
      [] OTHER -> -1
toHexString(s, upper) == FlattenSeq([i \in DOMAIN s |-> Pair(s[i], IF upper THEN 65 ELSE 97)])
toBinString(t) == [i \in 1 .. Len(t) \div 2 |-> 16 * HexValue(t[2 * i - 1]) + HexValue(t[2 * i])]

-----------------------------------------------------------------------------
(* urlEncode, of a path or of a component, and urlDecode.                  *)
Alnum == 48 .. 57 \cup 65 .. 90 \cup 97 .. 122
Escapes(is_path) ==
    IF is_path THEN 0 .. 31 \cup {32, 35, 37, 63} \cup 127 .. 255
    ELSE 0 .. 255 \ (Alnum \cup {45, 46, 95, 126})
urlEncode(s, is_path) ==
    FlattenSeq([i \in DOMAIN s |-> IF s[i] \in Escapes(is_path) THEN <<37>> \o Pair(s[i], 65) ELSE <<s[i]>>])

(* Mutant: an escape that ends the text is taken for text.                 *)
EscapeBefore(s, i) == s[i] = 37 /\ i + 2 < Len(s) /\ HexValue(s[i + 1]) >= 0 /\ HexValue(s[i + 2]) >= 0

EscapeAt(s, i) == s[i] = 37 /\ i + 2 <= Len(s) /\ HexValue(s[i + 1]) >= 0 /\ HexValue(s[i + 2]) >= 0

(* The bytes so far, and how many characters are used up by an escape.     *)
urlDecode(s, is_path) ==
    FoldLeft(LAMBDA r, i :
                CASE r.skip > 0 -> [r EXCEPT !.skip = @ - 1]
                  [] r.skip = 0 /\ EscapeAt(s, i) ->
                       [text |-> Append(r.text, 16 * HexValue(s[i + 1]) + HexValue(s[i + 2])), skip |-> 2]
                  [] OTHER -> [r EXCEPT !.text = Append(@, IF s[i] = 43 /\ ~ is_path THEN 32 ELSE s[i])],
             [text |-> <<>>, skip |-> 0], [i \in DOMAIN s |-> i]).text

-----------------------------------------------------------------------------
(* split, at most max pieces; a max of 1 is passed by and sets no limit.   *)
Split(s, delim, max) ==
    LET seps == {i \in DOMAIN s : s[i] = delim}
        used == {i \in seps : max < 2 \/ Cardinality({j \in seps : j < i}) < max - 1}
        ends == SetToSortSeq(used, <) \o <<Len(s) + 1>>
    IN IF s = <<>> THEN <<>>
       ELSE [n \in DOMAIN ends |-> SubSeq(s, IF n = 1 THEN 1 ELSE ends[n - 1] + 1, ends[n] - 1)]
Rejoined(pieces, delim) ==
    FoldLeft(LAMBDA s, n : (IF n = 1 THEN s ELSE Append(s, delim)) \o pieces[n], <<>>, [n \in DOMAIN pieces |-> n])

(* What one side of a connection encodes the other decodes, to the byte,   *)
(* and no encoded byte is one that means something where it is put.        *)
CodecsInvert ==
    /\ base64_decode(base64_encode(text)) = text
    /\ \A upper \in BOOLEAN : toBinString(toHexString(text, upper)) = text
    /\ \A is_path \in BOOLEAN :
          /\ urlDecode(urlEncode(text, is_path), is_path) = text
          /\ ToSet(urlEncode(text, is_path)) \cap (Escapes(is_path) \ {37}) = {}
    /\ \A delim \in ToSet(text), max \in 2 .. 4 :
          Rejoined(Split(text, delim, max), delim) = text /\ Len(Split(text, delim, max)) <= max
=============================================================================
