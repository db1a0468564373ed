------------------------- MODULE HttpRequestParser -------------------------
(***************************************************************************)
(* HttpRequestParser: the machine generated from http_server_parse.rl and  *)
(* the callbacks of http_parse.cpp, which put the parts of the head of a   *)
(* request into an HttpRequest.  A state of the machine is a place in the  *)
(* grammar, as in UriParser.  Offsets (mark, field_start, query_start) are *)
(* from 1 and stay valid from one execute to the next, so how the text is  *)
(* cut into reads does not matter.  A request line may name a URI; of this *)
(* scheme and authority are checked, and the latter is part of the path.   *)
(* uri_relaxed is set nowhere: it is what the memory held.                 *)
(***************************************************************************)
EXTENDS UriParser

CONSTANTS
    Methods,        \* the names of HTTP_METHOD_MAP
    RequestStarts,  \* texts to begin with
    RequestChars,   \* the characters that may follow
    MaxRequestMore  \* bound: how many

VARIABLES
    request_parser, \* the machine and what it has found
    uri_relaxed,
    request_more    \* characters read since the start

requestVars == <<request_parser, uri_relaxed, request_more>>

Upper == 65 .. 90
Alpha == Upper \cup UriLetter
HexDigits == XDigit \cup 65 .. 70
Unreserved(r) == RegChar \cup Upper \cup (IF r THEN {94, 123, 125} ELSE {})
pchar(r) == Unreserved(r) \cup {58, 64} \cup 128 .. 255
QueryOrPath(r) == pchar(r) \cup {47, 63}
HTTP_CTL == {0, 127}                \* (0 - 31) | 127 of the grammar
HTTP_separator == {9, 32, 34, 40, 41, 44, 47, 58, 59, 60, 61, 62, 63, 64, 91, 92, 93, 123, 125}
Token == (0 .. 127) \ (HTTP_CTL \cup HTTP_separator)
ValueChar == (0 .. 255) \ (HTTP_CTL \cup {10, 13})
Blank == {9, 32}
HttpVersion == <<72, 84, 84, 80, 47, 49, 46>>

NoHttpRequest == [method |-> <<>>, version |-> 0, path |-> <<>>, query |-> <<>>, fragment |-> <<>>, headers |-> {}]

-----------------------------------------------------------------------------
(* The actions, at the position m.pos: the callbacks set the request.      *)
TextFrom(m, from) == SubSeq(m.chars, from, m.pos - 1)

on_request_method(m) ==
    LET found == {k \in Methods : IsPrefix(k, TextFrom(m, m.mark))}     \* CharsToHttpMethod
    IN IF found = {} THEN [m EXCEPT !.at = "error"] ELSE [m EXCEPT !.request.method = CHOOSE k \in found : TRUE]
on_request_version(m) == [m EXCEPT !.request.version = IF Last(TextFrom(m, m.mark)) = 49 THEN 17 ELSE 16]
(* Mutant: one more character is taken for the name.                       *)
FieldLonger(m) ==
    LET name == ToLower(SubSeq(m.chars, m.field_start, m.field_start + m.field_len)) IN
    [m EXCEPT !.request.headers = {h \in @ : h[1] # name} \cup {<<name, TextFrom(m, m.mark)>>}]

on_request_http_field(m) ==
    LET name == ToLower(SubSeq(m.chars, m.field_start, m.field_start + m.field_len - 1)) IN
    [m EXCEPT !.request.headers = {h \in @ : h[1] # name} \cup {<<name, TextFrom(m, m.mark)>>}]

RequestAct(m, a) ==
    CASE a \in {"mark", "start_value"} -> [m EXCEPT !.mark = m.pos]
      [] a = "start_field" -> [m EXCEPT !.field_start = m.pos]
      [] a = "write_field" -> [m EXCEPT !.field_len = m.pos - m.field_start]
      [] a = "start_query" -> [m EXCEPT !.query_start = m.pos]
      [] a = "query" -> [m EXCEPT !.request.query = TextFrom(m, m.query_start)]
      [] a \in {"path", "fragment"} -> [m EXCEPT !.request[a] = TextFrom(m, m.mark)]
      [] a = "method" -> on_request_method(m)
      [] a = "version" -> on_request_version(m)
      [] a = "write_value" -> on_request_http_field(m)
RequestActs(m, as) == FoldLeft(LAMBDA k, a : IF k.at = "error" THEN k ELSE RequestAct(k, a), m, as)

-----------------------------------------------------------------------------
(* An IP_literal in this grammar, where "6( h16 ":" )" is a byte of value  *)
(* 6 and one group, ("0"-"4") is "0", and ("1"-"9") is "1".                *)
RequestOctets ==
    {<<d>> : d \in UriDigit} \cup {<<49, d>> : d \in UriDigit} \cup {<<49, d, e>> : d \in UriDigit, e \in UriDigit}
        \cup {<<50, 48, d>> : d \in UriDigit} \cup {<<50, 53, 48>>}
OctetBegins(s) == \E o \in RequestOctets : IsPrefix(s, o)

RequestLiteral0 ==
    [kind |-> "start", before |-> 0, gap |-> FALSE, counted |-> FALSE, after |-> 0, run |-> <<>>, octets |-> 0]

(* How many groups, of which an IPv4address replaces two, may be after     *)
(* "::"; and the bytes that may stand there for a number of groups.        *)
Missing(v) == IF v.before = 0 THEN 7 ELSE v.before
GroupTotals(v) == IF v.counted THEN {3} ELSE {t \in 0 .. 3 : Missing(v) >= 7 - t}
CountBytes(v) ==
    CASE v.before = 0 -> 2 .. 5
      [] v.before = 1 -> {4}
      [] v.before = 2 -> {3}
      [] OTHER -> {2, 3}

GroupDigit(v, c) ==
    /\ v.kind \in {"start", "group"} /\ v.octets = 0 /\ Len(v.run) < 4 /\ c \in HexDigits
    /\ v.gap => \E t \in GroupTotals(v) : v.after < t
OctetDigit(v, c) == v.kind = "group" /\ v.octets > 0 /\ OctetBegins(Append(v.run, c))
CountByte(v, c) ==
    \/ v.kind = "start" /\ c = 6
    \/ v.kind = "group" /\ v.gap /\ ~ v.counted /\ v.after + Len(v.run) + v.octets = 0 /\ c \in CountBytes(v)
OctetEnds(v) ==
    v.kind = "group" /\ v.gap /\ v.after + 2 \in GroupTotals(v) /\ v.octets < 3 /\ v.run \in RequestOctets
GroupEnds(v) ==
    /\ v.kind = "group" /\ v.octets = 0 /\ v.run # <<>>
    /\ v.gap => \E t \in GroupTotals(v) : v.after + 1 < t
GapHere(v) == v.kind = "colon" \/ (v.kind = "group" /\ ~ v.gap /\ v.run = <<>>)

RequestLiteralStep(r, v, c) ==
    CASE GroupDigit(v, c) \/ OctetDigit(v, c) -> [v EXCEPT !.kind = "group", !.run = Append(@, c)]
      [] CountByte(v, c) -> [v EXCEPT !.kind = "group", !.gap = TRUE, !.counted = TRUE]
      [] c = 46 /\ OctetEnds(v) -> [v EXCEPT !.run = <<>>, !.octets = @ + 1]
      [] c = 58 /\ GroupEnds(v) ->
           IF v.gap THEN [v EXCEPT !.run = <<>>, !.after = @ + 1]
           ELSE [v EXCEPT !.run = <<>>, !.before = IF @ < 7 THEN @ + 1 ELSE @]
      [] c = 58 /\ v.kind = "start" -> [v EXCEPT !.kind = "colon"]
      [] c = 58 /\ GapHere(v) -> [v EXCEPT !.kind = "group", !.gap = TRUE]
      [] v.kind = "start" /\ c = 118 -> [v EXCEPT !.kind = "version"]
      [] v.kind = "version" /\ (c \in HexDigits \/ (c = 46 /\ v.run # <<>>)) ->
           IF c = 46 THEN [v EXCEPT !.kind = "future", !.run = <<>>] ELSE [v EXCEPT !.run = <<c>>]
      [] v.kind = "future" /\ c \in Unreserved(r) \cup {58} -> [v EXCEPT !.run = <<c>>]
      [] OTHER -> [v EXCEPT !.kind = "wrong"]
RequestLiteral(r, s) == FoldLeft(LAMBDA v, c : RequestLiteralStep(r, v, c), RequestLiteral0, s)

RequestLiteralEnd(v) ==
    CASE v.kind = "future" -> v.run # <<>>
      [] v.kind = "group" /\ v.octets > 0 -> v.octets = 3 /\ v.run \in RequestOctets
      [] v.kind = "group" /\ v.octets = 0 ->
           v.gap /\ (IF v.run = <<>> THEN v.after = 0 ELSE TRUE)
                 /\ v.after + (IF v.run = <<>> THEN 0 ELSE 1) \in GroupTotals(v)
      [] OTHER -> FALSE

-----------------------------------------------------------------------------
(* The edges of the states of a relative_part, of which there are two      *)
(* copies: a URI is followed by its query, its fragment or the version,    *)
(* the path of a JSON request by a space.                                  *)
ToUri == {<<{32}, <<"path">>, "space">>, <<{35}, <<"path">>, "anchor">>, <<{63}, <<"path">>, "question">>}
ToJson == {<<{32}, <<"path">>, "brace">>}

SegmentEdges(r) == {<<Unreserved(r) \cup {64, Percent}, <<>>, "segment">>, <<{47}, <<>>, "path">>}
AbsoluteEdges(r) == {<<pchar(r) \cup {Percent}, <<>>, "path">>, <<{47}, <<>>, "authority">>}
AbemptyEdges(r) == {<<pchar(r) \cup {47, Percent}, <<>>, "path">>}
UserOrHostEdges(r) ==
    {<<Unreserved(r) \cup {Percent}, <<>>, "reg">>, <<{58}, <<>>, "colon">>, <<{64}, <<>>, "host0">>, <<{47}, <<>>, "path">>}
ServerEdges(r) == UserOrHostEdges(r) \cup {<<{91}, <<>>, "literal">>}
UserOrPortEdges(r) ==
    {<<UriDigit, <<>>, "colon">>, <<(Unreserved(r) \cup {58, Percent}) \ UriDigit, <<>>, "info">>,
     <<{64}, <<>>, "host0">>, <<{47}, <<>>, "path">>}
UserEdges(r) == {<<Unreserved(r) \cup {58, Percent}, <<>>, "info">>, <<{64}, <<>>, "host0">>}
RegNameEdges(r) == {<<Unreserved(r) \cup {Percent}, <<>>, "host">>, <<{58}, <<>>, "port">>, <<{47}, <<>>, "path">>}
AfterAtEdges(r) == RegNameEdges(r) \cup {<<{91}, <<>>, "literal">>}
DigitsEdges == {<<UriDigit, <<>>, "port">>, <<{47}, <<>>, "path">>}
AfterLiteralEdges == {<<{58}, <<>>, "port">>, <<{47}, <<>>, "path">>}

RelativePart(r, out) ==
    [segment |-> SegmentEdges(r) \cup out, slash |-> AbsoluteEdges(r) \cup out, path |-> AbemptyEdges(r) \cup out,
     authority |-> ServerEdges(r) \cup out, reg |-> UserOrHostEdges(r) \cup out,
     colon |-> UserOrPortEdges(r) \cup out, info |-> UserEdges(r),
     host0 |-> AfterAtEdges(r) \cup out, host |-> RegNameEdges(r) \cup out, port |-> DigitsEdges \cup out,
     literal |-> {<<(0 .. 255) \ {93}, <<>>, "literal">>, <<{93}, <<>>, "bracket">>},
     bracket |-> AfterLiteralEdges \cup out]

(* The edges of the other states of the request line.                      *)
BeginEdges == {<<Upper \cup UriDigit, <<"mark">>, "method">>, <<{60}, <<"mark">>, "tag0">>, <<{64}, <<"mark">>, "json">>}
MethodEdges == {<<Upper \cup UriDigit, <<>>, "method">>, <<{32}, <<"method">>, "target">>}
Marked(edges) == {<<e[1], <<"mark">> \o e[2], e[3]>> : e \in edges}
TargetEdges(r) ==
    Marked(ToUri \cup {<<{47}, <<>>, "slash">>, <<Alpha, <<>>, "scheme">>,
                       <<(Unreserved(r) \cup {64, Percent}) \ Alpha, <<>>, "segment">>})
SchemeEdges(r) ==
    {<<Alpha \cup UriDigit \cup {43, 45, 46}, <<>>, "scheme">>, <<{58}, <<>>, "hier_part">>, <<{47}, <<>>, "path">>,
     <<(Unreserved(r) \cup {64, Percent}) \ (Alpha \cup UriDigit \cup {43, 45, 46}), <<>>, "segment">>} \cup ToUri
HierPartEdges(r) == Marked(ToUri \cup {<<{47}, <<>>, "slash">>, <<pchar(r) \cup {Percent}, <<>>, "path">>})
QuestionEdges(r) ==
    {<<QueryOrPath(r) \cup {Percent}, <<"start_query">>, "query">>,
     <<{32}, <<"start_query", "query">>, "space">>, <<{35}, <<"start_query", "query">>, "anchor">>}
QueryPartEdges(r) ==
    {<<QueryOrPath(r) \cup {Percent}, <<>>, "query">>, <<{32}, <<"query">>, "space">>, <<{35}, <<"query">>, "anchor">>}
AnchorEdges(r) == {<<QueryOrPath(r) \cup {Percent}, <<"mark">>, "fragment">>, <<{32}, <<"mark", "fragment">>, "space">>}
FragmentPartEdges(r) == {<<QueryOrPath(r) \cup {Percent}, <<>>, "fragment">>, <<{32}, <<"fragment">>, "space">>}
SpaceEdges == {<<{72}, <<"mark">>, "version">>}
VersionEdges ==
    {<<{84, 80, 47, 46} \cup UriDigit, <<>>, "version">>,
     <<{13}, <<"version">>, "lf">>, <<{10}, <<"version">>, "line">>}

(* The fields of the head, and its end.                                    *)
LineEdges ==
    {<<Token \ {10, 13}, <<"start_field">>, "field">>, <<{10}, <<"start_field">>, "done">>, <<{13}, <<"start_field">>, "cr">>}
FieldEdges == {<<Token, <<>>, "field">>, <<{58}, <<"write_field">>, "colons">>}
CrEdges == {<<Token \ {10}, <<>>, "field">>, <<{10}, <<>>, "done">>, <<{58}, <<"write_field">>, "colons">>}
ColonsEdges ==
    {<<ValueChar \ Blank, <<"start_value">>, "value">>, <<Blank, <<"start_value">>, "colons">>,
     <<{10}, <<"start_value", "write_value">>, "line">>, <<{13}, <<"start_value", "write_value">>, "lf">>}
ValueEdges == {<<ValueChar, <<>>, "value">>, <<{10}, <<"write_value">>, "line">>, <<{13}, <<"write_value">>, "lf">>}
LfEdges == {<<{10}, <<>>, "line">>}

(* A request over a plain socket: XML "<name ... >" or JSON "@path {...}", *)
(* and then a byte 0.                                                      *)
XmlEdges ==
    [tag0 |-> {<<Alpha \cup UriDigit \cup {45, 46}, <<>>, "tag">>},
     tag |-> {<<Alpha \cup UriDigit \cup {45, 46}, <<>>, "tag">>, <<9 .. 13 \cup {32, 47, 62}, <<"path">>, "xml">>},
     xml |-> {<<(0 .. 255) \ {62}, <<>>, "xml">>, <<{62}, <<>>, "xml_end">>},
     xml_end |-> {<<{0}, <<>>, "done">>, <<{62}, <<>>, "xml_end">>, <<1 .. 255 \ {62}, <<>>, "xml">>}]
JsonEdges(r) ==
    [json |-> {<<(Unreserved(r) \cup {64, Percent}), <<>>, "segment">>, <<{47}, <<>>, "slash">>} \cup ToJson,
     brace |-> {<<{123}, <<"mark">>, "data">>},
     data |-> {<<(0 .. 255) \ {125}, <<>>, "data">>, <<{125}, <<>>, "data_end">>},
     data_end |-> {<<{0}, <<>>, "done">>, <<{125}, <<>>, "data_end">>, <<1 .. 255 \ {125}, <<>>, "data">>}]

Escaping == DOMAIN RelativePart(TRUE, ToUri) \cup
    {"json", "target", "scheme", "hier_part", "question", "query", "anchor", "fragment"}
RequestTable ==
    [r \in BOOLEAN |->
        RelativePart(r, ToUri) @@ XmlEdges @@ JsonEdges(r)
            @@ [begin |-> BeginEdges, method |-> MethodEdges, target |-> TargetEdges(r),
                scheme |-> SchemeEdges(r), hier_part |-> HierPartEdges(r),
                question |-> QuestionEdges(r), query |-> QueryPartEdges(r),
                anchor |-> AnchorEdges(r), fragment |-> FragmentPartEdges(r),
                space |-> SpaceEdges, version |-> VersionEdges,
                line |-> LineEdges, field |-> FieldEdges, cr |-> CrEdges, colons |-> ColonsEdges,
                value |-> ValueEdges, lf |-> LfEdges]]
JsonTable == [r \in BOOLEAN |-> RelativePart(r, ToJson) @@ JsonEdges(r)]

(* What is bounded or spelt: a method has up to 20 characters.             *)
VersionSoFar(s) == \E d \in {48, 49}, e \in {10, 13} : IsPrefix(s, HttpVersion \o <<d, e>>)
RequestAllowed(r, m, c) ==
    CASE m.at = "method" -> c = 32 \/ m.pos - m.mark < 20
      [] m.at = "version" -> VersionSoFar(Append(TextFrom(m, m.mark), c))
      [] m.at = "literal" ->
           LET v == RequestLiteral(r, TextFrom(m, m.opened)) IN
           IF c = 93 THEN RequestLiteralEnd(v) ELSE RequestLiteralStep(r, v, c).kind # "wrong"
      [] OTHER -> TRUE

RequestAlong(m, n, c, edge) ==
    LET k == RequestActs(m, edge[2])
    IN [n EXCEPT !.mark = k.mark, !.field_start = k.field_start, !.field_len = k.field_len,
                 !.query_start = k.query_start, !.request = k.request,
                 !.opened = IF c = 91 THEN n.pos ELSE @,
                 !.json = @ \/ edge[3] = "json",
                 !.pct = IF c = Percent /\ m.at \in Escaping THEN 2 ELSE 0,
                 !.at = IF k.at = "error" THEN "error" ELSE edge[3]]
RequestMove(r, m, n, c, edges) ==
    IF edges = {} \/ ~ RequestAllowed(r, m, c) THEN [n EXCEPT !.at = "error"]
    ELSE RequestAlong(m, n, c, CHOOSE e \in edges : TRUE)

RequestStep(r, m, c) ==
    LET n == [m EXCEPT !.pos = @ + 1, !.chars = Append(@, c)]
    IN CASE m.at \in {"error", "done"} -> m
         [] m.at \notin {"error", "done"} /\ m.pct > 0 ->
              IF c \in HexDigits THEN [n EXCEPT !.pct = @ - 1] ELSE [n EXCEPT !.at = "error"]
         [] OTHER ->
              RequestMove(r, m, n, c, {e \in (IF m.json THEN JsonTable ELSE RequestTable)[r][m.at] : c \in e[1]})

RequestParser0 ==
    [at |-> "begin", pct |-> 0, mark |-> 0, field_start |-> 0, field_len |-> 0, query_start |-> 0, opened |-> 0,
     json |-> FALSE, pos |-> 1, chars |-> <<>>, request |-> NoHttpRequest]
RequestRun(r, s) == FoldLeft(LAMBDA m, c : RequestStep(r, m, c), RequestParser0, s)

-----------------------------------------------------------------------------
RequestInit ==
    /\ request_more = 0 /\ uri_relaxed \in BOOLEAN
    /\ request_parser \in {RequestRun(uri_relaxed, s) : s \in RequestStarts}
ReadRequestChar(c) ==
    /\ request_more < MaxRequestMore /\ request_parser.at \notin {"error", "done"}
    /\ request_parser' = RequestStep(uri_relaxed, request_parser, c)
    /\ request_more' = request_more + 1 /\ UNCHANGED uri_relaxed
RequestNext == \E c \in RequestChars : ReadRequestChar(c)

(* HttpRequest::toString, for a head without cookies and content.          *)
CrLf == <<13, 10>>
ConnectionName == <<99, 111, 110, 110, 101, 99, 116, 105, 111, 110>>
CloseValue == <<99, 108, 111, 115, 101>>
KeepAliveValue == <<107, 101, 101, 112, 45, 97, 108, 105, 118, 101>>
initClose(headers) ==       \* m_close, which is TRUE at first
    LET conn == {h[2] : h \in {g \in headers : g[1] = ConnectionName /\ g[2] # <<>>}}
    IN \A v \in conn : ToLower(v) = CloseValue
ConnectionField(headers) == <<ConnectionName, IF initClose(headers) THEN CloseValue ELSE KeepAliveValue>>
Fields(headers) ==
    LET others == {h \in headers : h[1] # ConnectionName} IN
    FoldLeft(LAMBDA s, h : s \o h[1] \o <<58, 32>> \o h[2] \o CrLf, <<>>,
             <<ConnectionField(headers)>> \o SetToSeq(others))
requestToString(q) ==
    q.method \o <<32>> \o q.path \o Unless(q.query = <<>>, <<63>> \o q.query)
        \o Unless(q.fragment = <<>>, <<35>> \o q.fragment)
        \o <<32>> \o HttpVersion \o <<IF q.version = 17 THEN 49 ELSE 48>> \o CrLf
        \o Fields(q.headers) \o CrLf

-----------------------------------------------------------------------------
(* The head of a request by RFC 7230: lines, of which the first one names  *)
(* method, target and version, and each other one a field, up to an empty  *)
(* one; the value of a field is without the blanks before it.              *)
LinesOf(t) ==
    LET ends == SetToSortSeq({i \in DOMAIN t : t[i] = 10}, <)
        line(i) == SubSeq(t, IF i = 1 THEN 1 ELSE ends[i - 1] + 1, ends[i] - 1)
    IN [i \in DOMAIN ends |-> IF line(i) # <<>> /\ Last(line(i)) = 13 THEN Front(line(i)) ELSE line(i)]
FieldOf(line) ==
    LET colon == NextOf(line, 1, {58})
        from == NextOf(line, colon + 1, 0 .. 255 \ Blank)
    IN <<ToLower(SubSeq(line, 1, colon - 1)), SubSeq(line, from, Len(line))>>
FieldsOf(lines) == FoldLeft(LAMBDA fs, l : {f \in fs : f[1] # FieldOf(l)[1]} \cup {FieldOf(l)}, {}, lines)
TargetOf(t) ==
    LET colon == NextOf(t, 1, {58, 47, 63, 35})
        query == NextOf(t, 1, {63, 35})
        fragment == NextOf(t, 1, {35})
    IN [path |-> SubSeq(t, IF colon <= Len(t) /\ t[colon] = 58 THEN colon + 1 ELSE 1, query - 1),
        query |-> SubSeq(t, query + 1, fragment - 1), fragment |-> SubSeq(t, fragment + 1, Len(t))]
HasColon(line) == line # <<>> /\ line[1] # 58 /\ 58 \in ToSet(line)

(* The server is given the parts the client has written: the parser is     *)
(* done at the first empty line and no earlier, the path (with an          *)
(* authority before it), the query, the fragment and the fields are what   *)
(* is between their separators, whatever characters they are of, and what  *)
(* a client writes of them reads again.  An exception is a line without a  *)
(* colon: the line ends count as part of the name, and so an empty line    *)
(* after it is missed.  A method that is not known is refused or read as a *)
(* known one it begins with.                                               *)
RequestReadsAgain(q, again) ==
    again.at = "done" /\ again.request = [q EXCEPT !.headers =
        {h \in @ : h[1] # ConnectionName} \cup {ConnectionField(@)}]
RequestRead ==
    LET m == request_parser
        q == m.request
        lines == LinesOf(m.chars)
        first == Split(lines[1], 32, 0)
        fields == SubSeq(lines, 2, Len(lines) - 1)
        wellFormed == \A i \in DOMAIN fields : HasColon(fields[i])
    IN m.chars # <<>> /\ m.chars[1] \notin {60, 64} =>
        /\ m.at \in {"line", "field", "cr", "colons", "value", "lf"} =>
              \A i \in 2 .. Len(lines) : lines[i] = <<>> => \E j \in 2 .. i - 1 : ~ HasColon(lines[j])
        /\ m.at = "done" =>
              /\ Last(lines) = <<>> /\ Len(first) = 3
              /\ IsPrefix(q.method, first[1]) /\ (first[1] \in Methods => q.method = first[1])
              /\ [path |-> q.path, query |-> q.query, fragment |-> q.fragment] = TargetOf(first[2])
              /\ q.version = 16 + Last(first[3]) - 48
              /\ wellFormed => q.headers = FieldsOf(fields)
              /\ q.path = <<>> \/ q.path[1] = 47 =>
                    RequestReadsAgain(q, RequestRun(uri_relaxed, requestToString(q)))
=============================================================================
