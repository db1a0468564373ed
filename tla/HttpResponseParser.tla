------------------------ MODULE HttpResponseParser ------------------------
(***************************************************************************)
(* HttpResponseParser: the machine generated from http_client_parse.rl and *)
(* the callbacks of http_parse.cpp, which put the parts of the head of a   *)
(* response into an HttpResponse, and read the head of a chunk.  The       *)
(* grammar has four forms of a field, which are followed at once: a state  *)
(* of the machine is a set of places, one in each form that still fits.    *)
(***************************************************************************)
EXTENDS HttpRequestParser

CONSTANTS
    ResponseStarts,     \* texts to begin with
    ResponseChars,      \* the characters that may follow
    MaxResponseMore,    \* bound: how many
    IntBits             \* 32 in the code: the bits of an int, half those of a long

VARIABLES
    response_parser,    \* the machine and what it has found
    response_more       \* characters read since the start

responseVars == <<response_parser, response_more>>

NoHttpResponse == [version |-> 0, status |-> 0, reason |-> <<>>, headers |-> {}]

Space == 9 .. 13 \cup {32}
CTL == 0 .. 31 \cup {127}
token == (0 .. 127) \ (CTL \cup HTTP_separator)

(* The names and values that have a form of their own.                     *)
ContentLength == <<99, 111, 110, 116, 101, 110, 116, 45, 108, 101, 110, 103, 116, 104>>
TransferEncoding ==
    <<116, 114, 97, 110, 115, 102, 101, 114, 45, 101, 110, 99, 111, 100, 105, 110, 103>>
ChunkedValue == <<99, 104, 117, 110, 107, 101, 100>>

-----------------------------------------------------------------------------
(* The actions, in the order in which they run on a character.             *)
Actions == <<"mark", "close", "chunk_size", "version", "status", "reason", "start_field", "write_field",
             "start_value", "content_len", "write_value", "trans_chunked">>

AsInt(n) ==         \* strtol, and the conversion of its result
    LET long == IF n < 2 ^ (2 * IntBits - 1) THEN n ELSE 2 ^ (2 * IntBits - 1) - 1
        low == long % 2 ^ IntBits
    IN IF low < 2 ^ (IntBits - 1) THEN low ELSE low - 2 ^ IntBits
Hexadecimal(s) == FoldLeft(LAMBDA n, c : IF c \in HexDigits THEN 16 * n + HexValue(c) ELSE n, 0, s)
Numeral(s) == LET end == NextOf(s, 1, (0 .. 255) \ UriDigit) IN atoi(SubSeq(s, 1, end - 1))

(* Any other version is an error of the HttpResponseParser.                *)
on_response_version(m) ==
    LET v == TextFrom(m, m.mark) IN
    CASE v = Append(HttpVersion, 49) -> [m EXCEPT !.response.version = 17]
      [] v = Append(HttpVersion, 48) -> [m EXCEPT !.response.version = 16]
      [] OTHER -> [m EXCEPT !.wrong = TRUE]

(* A name is as long as the last one that ended.  When the value of a form *)
(* is taken for the beginning of another field, field_start has moved: the *)
(* name then reaches into bytes that have not been read.                   *)
Unread == <<0>>
FieldName(m) ==
    IF m.field_start + m.field_len > m.pos THEN Unread
    ELSE ToLower(SubSeq(m.chars, m.field_start, m.field_start + m.field_len - 1))
on_response_http_field(m) ==
    LET name == FieldName(m) IN
    [m EXCEPT !.response.headers = {h \in @ : h[1] # name} \cup {<<name, TextFrom(m, m.mark)>>}]
on_chunk_size(m) ==
    LET n == AsInt(Hexadecimal(TextFrom(m, m.mark)))
    IN [m EXCEPT !.chunked = TRUE, !.content_len = n, !.chunks_done = (n <= 0)]

ResponseAct(m, a) ==
    CASE a \in {"mark", "start_value"} -> [m EXCEPT !.mark = m.pos]
      [] a = "start_field" -> [m EXCEPT !.field_start = m.pos]
      [] a = "write_field" -> [m EXCEPT !.field_len = m.pos - m.field_start]
      [] a = "close" -> [m EXCEPT !.close = TRUE]
      [] a = "trans_chunked" -> [m EXCEPT !.chunked = TRUE]
      [] a = "chunk_size" -> on_chunk_size(m)
      [] a = "content_len" -> [m EXCEPT !.content_len = AsInt(Numeral(TextFrom(m, m.mark)))]
      [] a = "version" -> on_response_version(m)
      [] a = "status" -> [m EXCEPT !.response.status = AsInt(Numeral(TextFrom(m, m.mark)))]
      [] a = "reason" -> [m EXCEPT !.response.reason = TextFrom(m, m.mark)]
      [] a = "write_value" -> on_response_http_field(m)

-----------------------------------------------------------------------------
(* A place is <<form, part, characters matched>>; a move from it is the    *)
(* set of actions and the next place.                                      *)
HeadAt(part) == <<"head", part, 0>>
Move(as, to) == <<as, to>>
If(cond, as, to) == IF cond THEN {Move(as, to)} ELSE {}

(* The head of a chunk: a size, extensions with or without a value.        *)
ChunkEnd(c, as) ==
    If(c = 10, as, HeadAt("done")) \cup If(c = 13, as, HeadAt("cr")) \cup If(c = 59, as, HeadAt("extension"))
ChunkSize(c) == If(c \in HexDigits, {}, HeadAt("size")) \cup ChunkEnd(c, {"chunk_size"})
Extension(c) == If(c \in token, {"start_field"}, HeadAt("ext_name"))
ExtensionName(c) ==
    If(c \in token, {}, HeadAt("ext_name")) \cup If(c = 61, {"write_field", "start_value"}, HeadAt("ext_equals"))
        \cup ChunkEnd(c, {"write_field", "start_value", "write_value"})
ExtensionEquals(c) == If(c \in token, {"start_value"}, HeadAt("ext_value"))
ExtensionValue(c) == If(c \in token, {}, HeadAt("ext_value")) \cup ChunkEnd(c, {"write_value"})

(* The status line.                                                        *)
Protocol(c, i) == If(c = HttpVersion[i + 1], {}, IF i = 4 THEN HeadAt("major0") ELSE <<"head", "http", i + 1>>)
Major(c, some) == If(c \in UriDigit, {}, HeadAt("major")) \cup If(some /\ c = 46, {}, HeadAt("minor0"))
Minor(c, some) == If(c \in UriDigit, {}, HeadAt("minor")) \cup If(some /\ c = 32, {"version"}, HeadAt("status0"))
Status0(c) == If(c \in UriDigit, {"mark"}, HeadAt("status"))
StatusCode(c) == If(c \in UriDigit, {}, HeadAt("status")) \cup If(c = 32, {"status"}, HeadAt("reason0"))
Reason0(c) == If(c # 10, {"mark"}, HeadAt("reason"))
(* Mutant: the reason goes on after the first half of the line end.        *)
ReasonOn(c) == If(c # 10, {}, HeadAt("reason")) \cup If(c = 10, {"reason"}, HeadAt("line"))

Reason(c) ==
    If(c \notin {10, 13}, {}, HeadAt("reason")) \cup If(c = 10, {"reason"}, HeadAt("line"))
        \cup If(c = 13, {"reason"}, HeadAt("lf"))

(* A field begins in all forms; any other form than "fields" has a name.   *)
NameOf(form) ==
    CASE form = "connection" -> ConnectionName
      [] form = "transfer_encoding_chunked" -> TransferEncoding
      [] form = "content_length" -> ContentLength
Named_ == {"connection", "transfer_encoding_chunked", "content_length"}
Line(c) ==
    If(c = 10, {}, HeadAt("done")) \cup If(c = 13, {}, HeadAt("cr"))
        \cup If(c \in token, {"start_field"}, <<"fields", "name", 1>>)
        \cup UNION {If(ToLower(<<c>>)[1] = NameOf(form)[1], {}, <<form, "name", 1>>) : form \in Named_}

(* fields: any name, spaces, any value.  The value may begin with the      *)
(* spaces, so each of them starts it anew until there is another character.*)
fields(part, c) ==
    CASE part = "name" -> If(c \in token, {}, <<"fields", "name", 1>>)
                             \cup If(c = 58, {"write_field"}, <<"fields", "spaces", 0>>)
      [] part = "spaces" -> If(c \notin {10, 13}, {"start_value"}, <<"fields", IF c \in Space THEN "spaces" ELSE "value", 0>>)
                               \cup If(c = 10, {"start_value", "write_value"}, HeadAt("line"))
                               \cup If(c = 13, {"start_value", "write_value"}, HeadAt("lf"))
      [] part = "value" -> If(c \notin {10, 13}, {}, <<"fields", "value", 0>>)
                              \cup If(c = 10, {"write_value"}, HeadAt("line")) \cup If(c = 13, {"write_value"}, HeadAt("lf"))

(* The name of one of the other forms, and the spaces before its value,    *)
(* which may be line ends.                                                 *)
NamedName(form, i, c) ==
    If(i < Len(NameOf(form)) /\ ToLower(<<c>>)[1] = NameOf(form)[IF i < Len(NameOf(form)) THEN i + 1 ELSE 1], {}, <<form, "name", i + 1>>)
        \cup If(i = Len(NameOf(form)) /\ c = 58, {}, <<form, "spaces", 0>>)
NamedSpaces(form, c) == If(c \in Space, {}, <<form, "spaces", 0>>)

(* A keyword, and the line end after it.                                   *)
Keyword(form, word, i, c, first) ==
    IF i < Len(word) THEN If(ToLower(<<c>>)[1] = word[i + 1], IF i = 0 THEN first ELSE {}, <<form, "value", i + 1>>) ELSE {}

connection(part, i, c) ==
    CASE part = "name" -> NamedName("connection", i, c)
      [] part = "spaces" -> NamedSpaces("connection", c) \cup Keyword("connection", CloseValue, 0, c, {})
      [] part = "value" -> Keyword("connection", CloseValue, i, c, {})
                              \cup If(i = Len(CloseValue) /\ c = 10, {}, <<"connection", "closed", 0>>)
                              \cup If(i = Len(CloseValue) /\ c = 13, {}, <<"connection", "cr", 0>>)
      [] part = "cr" -> If(c = 10, {}, <<"connection", "closed", 0>>)
      [] part = "closed" -> {Move(move[1] \cup {"close"}, move[2]) : move \in Line(c)}

transfer_encoding_chunked(part, i, c) ==
    LET form == "transfer_encoding_chunked" IN
    CASE part = "name" -> NamedName(form, i, c)
      [] part = "spaces" -> NamedSpaces(form, c) \cup Keyword(form, ChunkedValue, 0, c, {"start_value"})
      [] part = "value" -> Keyword(form, ChunkedValue, i, c, {})
                              \cup If(i = Len(ChunkedValue) /\ c = 10, {"write_value", "trans_chunked"}, HeadAt("line"))
                              \cup If(i = Len(ChunkedValue) /\ c = 13, {"write_value"}, <<form, "cr", 0>>)
      [] part = "cr" -> If(c = 10, {"trans_chunked"}, HeadAt("line"))

content_length(part, i, c) ==
    CASE part = "name" -> NamedName("content_length", i, c)
      [] part = "spaces" -> NamedSpaces("content_length", c)
                               \cup If(c \in UriDigit, {"start_value"}, <<"content_length", "value", 0>>)
      [] part = "value" -> If(c \in UriDigit, {}, <<"content_length", "value", 0>>)
                              \cup If(c = 10, {"content_len", "write_value"}, HeadAt("line"))
                              \cup If(c = 13, {"content_len", "write_value"}, HeadAt("lf"))

HeadMoves(part, i, c) ==
    CASE part = "start" -> If(c \in HexDigits, {"mark"}, HeadAt("size")) \cup If(c = 72, {"mark"}, <<"head", "http", 1>>)
      [] part = "size" -> ChunkSize(c)
      [] part = "extension" -> Extension(c)
      [] part = "ext_name" -> ExtensionName(c)
      [] part = "ext_equals" -> ExtensionEquals(c)
      [] part = "ext_value" -> ExtensionValue(c)
      [] part = "http" -> Protocol(c, i)
      [] part \in {"major0", "major"} -> Major(c, part = "major")
      [] part \in {"minor0", "minor"} -> Minor(c, part = "minor")
      [] part = "status0" -> Status0(c)
      [] part = "status" -> StatusCode(c)
      [] part = "reason0" -> Reason0(c)
      [] part = "reason" -> Reason(c)
      [] part = "line" -> Line(c)
      [] part = "cr" -> If(c = 10, {}, HeadAt("done"))
      [] part = "lf" -> If(c = 10, {}, HeadAt("line"))
      [] part = "done" -> {}

MovesFrom(place, c) ==
    CASE place[1] = "head" -> HeadMoves(place[2], place[3], c)
      [] place[1] = "fields" -> fields(place[2], c)
      [] place[1] = "connection" -> connection(place[2], place[3], c)
      [] place[1] = "transfer_encoding_chunked" -> transfer_encoding_chunked(place[2], place[3], c)
      [] place[1] = "content_length" -> content_length(place[2], place[3], c)

(* The actions of all moves, each once.  execute stops when a head may end *)
(* here; is_finished asks for the state in which nothing else may follow.  *)
ResponseActs(m, as) == FoldLeft(LAMBDA n, a : ResponseAct(n, a), m, SelectSeq(Actions, LAMBDA a : a \in as))
ResponseMove(m, c, moves) ==
    [ResponseActs(m, UNION {move[1] : move \in moves}) EXCEPT
        !.places = {move[2] : move \in moves}, !.pos = @ + 1, !.chars = Append(@, c)]
ResponseStep(m, c) ==
    IF m.places = {} THEN m ELSE ResponseMove(m, c, UNION {MovesFrom(place, c) : place \in m.places})

ResponseParser0 ==
    [places |-> {HeadAt("start")}, mark |-> 0, field_start |-> 0, field_len |-> 0, pos |-> 1, chars |-> <<>>,
     content_len |-> -1, chunked |-> FALSE, chunks_done |-> FALSE, close |-> FALSE, wrong |-> FALSE,
     response |-> NoHttpResponse]
ResponseRun(s) == FoldLeft(LAMBDA m, c : ResponseStep(m, c), ResponseParser0, s)
is_finished(m) == m.places = {HeadAt("done")}
has_error(m) == m.places = {} \/ m.wrong

-----------------------------------------------------------------------------
ResponseInit == response_more = 0 /\ response_parser \in {ResponseRun(s) : s \in ResponseStarts}
ReadResponseChar(c) ==
    /\ response_more < MaxResponseMore /\ ~ has_error(response_parser) /\ ~ is_finished(response_parser)
    /\ response_parser' = ResponseStep(response_parser, c)
    /\ response_more' = response_more + 1
ResponseNext == \E c \in ResponseChars : ReadResponseChar(c)

(* HttpResponse::toString, for a head without cookies: of a file.          *)
responseToString(q) ==
    HttpVersion \o <<IF q.version = 17 THEN 49 ELSE 48, 32>> \o Decimal(q.status) \o <<32>> \o q.reason \o CrLf
        \o Fields(q.headers) \o CrLf

-----------------------------------------------------------------------------
(* The value of a field of a name that has a form of its own.              *)
Trim(s) == SubSeq(s, NextOf(s, 1, 0 .. 255 \ Space), Len(s))
ValuesOf(fs, name) == {Trim(f[2]) : f \in {g \in fs : g[1] = name}}
AllDigits(s) == s # <<>> /\ ToSet(s) \subseteq UriDigit

(* The client is told what the server has written, and decides from the    *)
(* same fields where the content ends: the head is finished at the first   *)
(* empty line, the fields are what is between separators, and close,       *)
(* chunked and content_len are those of the fields.  What a server writes  *)
(* reads again.  An exception is a field of the three names without a      *)
(* value: the line end counts as a space before it, and a head that ends   *)
(* there is never finished.  Of an empty reason the line end is read.      *)
ResponseReadsAgain(m, q, again) ==
    /\ again.response = [q EXCEPT !.headers = {h \in @ : h[1] # ConnectionName} \cup {ConnectionField(@)}]
    /\ is_finished(again) /\ <<again.chunked, again.content_len>> = <<m.chunked, m.content_len>>
HeadRead ==
    LET m == response_parser
        q == m.response
        lines == LinesOf(m.chars)
        at == NextOf(m.chars, 1, {32})
        first == SubSeq(lines[1], at + 1, Len(lines[1]))
        reason == SubSeq(first, NextOf(first, 1, {32}) + 1, Len(first))
        fs == FieldsOf(SubSeq(lines, 2, Len(lines) - 1))
        trimmed == {<<f[1], Trim(f[2])>> : f \in fs}
        valued == \A i \in 2 .. Len(lines) :
                     FieldOf(lines[i])[1] \in {NameOf(form) : form \in Named_} => Trim(FieldOf(lines[i])[2]) # <<>>
    IN m.chars # <<>> /\ m.chars[1] = 72 /\ ~ has_error(m) /\ valued =>
        /\ is_finished(m) \/ \A i \in 2 .. Len(lines) : lines[i] # <<>>
        /\ is_finished(m) =>
              /\ Last(lines) = <<>>
              /\ q.status = AsInt(Numeral(first)) /\ q.reason = (IF reason = <<>> THEN <<13>> ELSE reason)
              /\ q.headers = trimmed
              /\ ResponseReadsAgain(m, q, ResponseRun(responseToString(q)))
              /\ \A v \in ValuesOf(fs, ConnectionName) : ToLower(v) = CloseValue => m.close
              /\ \A v \in ValuesOf(fs, TransferEncoding) : ToLower(v) = ChunkedValue => m.chunked
              /\ \A v \in ValuesOf(fs, ContentLength) : AllDigits(v) => m.content_len = AsInt(Numeral(v))

(* The head of a chunk gives its size, whatever extensions it has, and the *)
(* chunk without content is the last one, if the size fits an int.         *)
ChunkRead ==
    LET m == response_parser
        size == Hexadecimal(SubSeq(m.chars, 1, NextOf(m.chars, 1, 0 .. 255 \ HexDigits) - 1))
    IN is_finished(m) /\ m.chars[1] # 72 =>
        m.chunked /\ (size < 2 ^ (IntBits - 1) => m.content_len = size /\ m.chunks_done = (size = 0))

ResponseRead == HeadRead /\ ChunkRead
=============================================================================
