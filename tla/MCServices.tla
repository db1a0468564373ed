----------------------------- MODULE MCServices -----------------------------
(***************************************************************************)
(* The parts of the server that keep no fiber or process of their own, on  *)
(* small instances.  They share no state, so one run takes one of them at  *)
(* a time: the others stay as they are.                                    *)
(***************************************************************************)
EXTENDS WebDav, ChatRoom, ConnPool, HttpStream, HttpParams, HttpResponseParser,
        Buffer, Bencode, JsonText, Addresses, LogFormat,
        WsMessages, HttpAnswer, Servlets, Authorization, ConfigVar

CONSTANTS t1, t2, t3

VARIABLE part

Workers == {{t1}, {t2, t3}}

(* WebDAV: a directory, a file and a directory in it; one thread gets all  *)
(* requests, or two share LOCK and UNLOCK of the two inside.               *)
DavPaths == {<<"d">>, <<"d", "f">>, <<"d", "e">>}
DavDirs == {"d", "e"}
DavSends ==
    (t1 :> {"LOCK", "UNLOCK", "PUT", "MKCOL", "DELETE", "COPY", "MOVE"} \X DavPaths)
        @@ (t2 :> {"LOCK", "UNLOCK"} \X {<<"d", "f">>})
        @@ (t3 :> {"LOCK"} \X {<<"d", "f">>, <<"d", "e">>})

(* HTTP: three requests; contents with a length and in chunks, of which    *)
(* one has a size of two digits.                                           *)
HttpRequests == <<2, 0, 3>>
HttpResponses == {<<0>>, <<2>>, <<2, 0>>, <<1, 3, 0>>}

(* Bencode: names and strings that look like the text around them, and one *)
(* whose length has two digits.                                            *)
BencodeNames == {<<"e">>, <<"1", ":">>}
BencodeLeaves == {Int_(0), Int_(-12), Str(<<"i">>), Str([i_ \in 1 .. 11 |-> "e"]), Str(<<>>)}

(* Parameters: names that differ in case only, that are empty or made of   *)
(* separators; values that look like an escape, a space, a separator.      *)
QueryNames == {<<97>>, <<65>>, <<>>, <<38, 61>>}
QueryValues == {<<43, 32>>, <<37, 52, 49>>, <<38, 61>>, <<>>}
FormNames == {<<97>>, <<98, 37>>}
FormValues == {<<>>, <<43>>}
UrlPaths == {<<47, 37, 50, 63>>, <<47, 43, 32>>}

(* URIs: at the start, after a scheme, in a host, in an address.           *)
Scheme_ == <<104, 58>>
Authority_ == <<104, 116, 116, 112, 58, 47, 47>>
Address_ == <<47, 47, 91>>
SixGroups == <<49, 58, 49, 58, 49, 58, 49, 58, 49, 58, 49, 58>>
UriBegins ==
    {<<>>, Scheme_, <<47, 47>>, Authority_, <<47, 47, 97, 58>>, <<47, 47, 97, 64>>, <<47, 47, 49, 46, 50, 46>>,
     Address_, Address_ \o <<58, 58>>, Address_ \o SixGroups, Address_ \o <<97, 58, 58, 49, 58, 49, 58, 49, 58, 49, 58>>}

(* Heads of requests: in each part of the request line and of a field, and *)
(* a request over a plain socket.                                          *)
GetMethod == <<71, 69, 84>>
Get_ == GetMethod \o <<32>>
Version_ == <<32, 72, 84, 84, 80, 47, 49, 46>>
HttpMethods == {GetMethod, <<80, 85, 84>>}
RequestBegins ==
    {<<>>, GetMethod, Get_, Get_ \o <<47>>, Get_ \o <<97, 58>>, Get_ \o <<47, 47, 91>>, Get_ \o <<47, 47, 91, 58, 58>>,
     Get_ \o <<47, 47, 91, 49, 58, 49, 58, 49, 58, 49, 58, 49, 58, 58>>, Get_ \o <<47, 47, 97, 58>>, Get_ \o <<47, 63>>,
     Get_ \o <<47>> \o Version_, Get_ \o <<47>> \o Version_ \o <<49, 13, 10>>,
     Get_ \o <<47>> \o Version_ \o <<49, 10, 97, 58, 98, 10, 97, 58>>,
     Get_ \o <<97, 58, 98, 63, 97, 35, 99>> \o Version_ \o <<48, 10, 97, 58, 32, 98, 13, 10>>,
     <<60>>, <<64>>, <<64, 47, 32, 123, 125>>, <<60, 97, 62>>}

(* Heads of responses: in the status line, in a field of each form, at the *)
(* end of one, and in the head of a chunk.                                 *)
StatusLine == Tail(Version_) \o <<49, 32, 50, 32, 79, 10>>
ResponseBegins ==
    {<<>>, Tail(Version_), Tail(Version_) \o <<48, 32>>, StatusLine, StatusLine \o <<97, 58, 98, 13, 10>>,
     StatusLine \o ConnectionName \o <<58>>, StatusLine \o ConnectionName \o <<58>> \o CloseValue,
     StatusLine \o ConnectionName \o <<58, 97, 10>> \o ConnectionName \o <<58>> \o CloseValue,
     StatusLine \o TransferEncoding \o <<58>> \o ChunkedValue, StatusLine \o TransferEncoding \o <<58, 10>> \o ChunkedValue,
     StatusLine \o ContentLength \o <<58>>, StatusLine \o ContentLength \o <<58, 49>>, StatusLine \o ContentLength \o <<58, 10>>,
     StatusLine \o <<97, 58, 98, 13, 10, 97, 58>>, <<49, 53>>, <<49, 59, 97, 61>>, <<48, 59, 97>>}

(* JSON: texts over the characters that matter, numbers at the edge of an  *)
(* integer, characters of one to four bytes and those that are escaped.    *)
JsonInputs ==
    UNION {[1 .. n -> {91, 93, 44, 34, 49, 45, 46, 50}] : n \in 1 .. 4}
        \cup {<<123>> \o s \o <<125>> : s \in UNION {[1 .. n -> {34, 44, 58, 49}] : n \in 0 .. 5}}
        \cup {<<34, 92, 117>> \o s \o <<34>> : s \in [1 .. 4 -> {48, 55, 56, 102}]}
JsonValues ==
    {JInt(-128), JInt(127), JUInt(255), JUInt(5), JReal(-15), JReal(2560), JBool(TRUE), JNull,
     JString(<<34, 92, 10, 1, 127>>), JString(<<195, 169>>), JString(<<226, 130, 172>>),
     JString(<<240, 159, 152, 128>>), JString(<<>>),
     JPut(JArray, 1, JString(<<98>>)), JPut(JPut(JObject, <<97>>, JArray), <<>>, JNull)}
JsonNames == {<<>>, <<34>>}

(* WebSocket: messages of one and several bytes, so that the length takes  *)
(* each of its three forms, and a key that differs from its shift.         *)
WsPayloads == {<<>>, <<1>>, <<0, 1>>, <<1, 0, 1>>}
WsMasks == {<<1, 0>>}

(* A file: from an offset, the last units, in and beyond the file, wrong.  *)
AnswerRanges == {<<1, None>>, <<None, 1>>, <<2, 5>>, <<2, 1>>}

(* Servlets: two patterns, of which one matches another path as well.      *)
ServletGlobs == [g1 |-> {"p", "q"}, g2 |-> {"p"}]

(* Bound: callbacks are told only as long as one parameter has been made   *)
(* under a name; of two, neither has any.                                  *)
OneIsTold == Len(m_val) <= 1 \/ \A o \in Objects : m_cbs[o] = <<>>

Choose(which, var, any) == var \in any /\ (part # which => var = CHOOSE x \in any : TRUE)

ServicesInit ==
    /\ part \in {"webdav", "chat", "pool", "http", "params", "codecs", "uri", "request", "response", "buffer",
                 "bencode", "json", "addresses", "format",
                 "websocket", "answer", "servlets", "authorization", "config"}
    /\ Choose("webdav", workers, Workers) /\ DavInit
    /\ Choose("chat", oneThread, BOOLEAN) /\ Choose("chat", roomy, BOOLEAN) /\ ChatInit
    /\ Choose("pool", redis, BOOLEAN) /\ PoolInit
    /\ Choose("http", side, {"client", "server"}) /\ Choose("http", response, Responses)
    /\ Choose("http", waits, BOOLEAN) /\ Choose("http", returns, BOOLEAN)
    /\ side = "server" => response = <<0>> /\ returns
    /\ HttpInit
    /\ ParamInit /\ CodecInit
    /\ IF part = "uri" THEN UriInit ELSE more = 0 /\ machine = UriMachine0
    /\ Choose("request", uri_relaxed, BOOLEAN)
    /\ IF part = "request" THEN RequestInit ELSE request_more = 0 /\ request_parser = RequestParser0
    /\ IF part = "response" THEN ResponseInit ELSE response_more = 0 /\ response_parser = ResponseParser0
    /\ BufferInit
    /\ Choose("bencode", root, {List, Dict}) /\ BencodeInit
    /\ JsonInit /\ (part # "json" => IsArray)
    /\ AddressInit /\ FormatInit
    /\ Choose("websocket", masks, BOOLEAN) /\ WsInit
    /\ Choose("answer", m_rate, {0, 1}) /\ AnswerInit
    /\ part # "answer" => file.size = 0
    /\ ServletInit
    /\ AuthInit /\ (part # "authorization" => wrote = CHOOSE w \in [People -> Passwords] : TRUE)
    /\ ConfigInit

(* The part that is taken goes on, the others stay.                        *)
In(p, next) == part = p /\ next
Stays(p, its) == IF part = p THEN TRUE ELSE UNCHANGED its

ServicesNext ==
    /\ UNCHANGED part
    /\ \/ In("webdav", DavNext)
       \/ In("chat", ChatNext)
       \/ In("pool", PoolNext)
       \/ In("http", HttpNext)
       \/ In("params", ParamNext)
       \/ In("codecs", CodecNext)
       \/ In("uri", UriNext)
       \/ In("request", RequestNext)
       \/ In("response", ResponseNext)
       \/ In("buffer", BufferNext)
       \/ In("bencode", BencodeNext)
       \/ In("json", JsonNext)
       \/ In("addresses", AddressNext)
       \/ In("format", FormatNext)
       \/ In("websocket", WsNext)
       \/ In("answer", AnswerNext)
       \/ In("servlets", ServletNext)
       \/ In("authorization", AuthNext)
       \/ In("config", ConfigNext /\ OneIsTold')
    /\ Stays("webdav", davVars)
    /\ Stays("chat", chatVars)
    /\ Stays("pool", poolVars)
    /\ Stays("http", httpVars)
    /\ Stays("params", paramVars)
    /\ Stays("codecs", text)
    /\ Stays("uri", uriVars)
    /\ Stays("request", requestVars)
    /\ Stays("response", responseVars)
    /\ Stays("buffer", bufferVars)
    /\ Stays("bencode", bencodeVars)
    /\ Stays("json", jsonVars)
    /\ Stays("addresses", groups)
    /\ Stays("format", m_pattern)
    /\ Stays("websocket", wsVars)
    /\ Stays("answer", answerVars)
    /\ Stays("servlets", servletVars)
    /\ Stays("authorization", authVars)
    /\ Stays("config", configVars)

servicesVars == <<part, davVars, chatVars, poolVars, httpVars, paramVars, text,
                  uriVars, requestVars, responseVars,
                  bufferVars, bencodeVars, jsonVars, groups, m_pattern,
                  wsVars, answerVars, servletVars, authVars, configVars>>
ServicesSpec == ServicesInit /\ [][ServicesNext]_servicesVars

-----------------------------------------------------------------------------
(* What one function writes as text the other reads back: a value, an      *)
(* address, the parameters of a request. The parts of a URI are those      *)
(* between its separators, but for the cases UriReads names. The heads     *)
(* and contents of messages are read as they are meant however they are    *)
(* cut; a pattern is refused exactly when it has no meaning, and a line    *)
(* is what it means.                                                       *)
TextsReadBack ==
    /\ part = "http" => MessagesWhole
    /\ part = "params" => ParamsArrive
    /\ part = "request" => RequestRead
    /\ part = "response" => ResponseRead
    /\ part = "bencode" => RoundTrip
    /\ part = "json" => JsonReads /\ ArrayIsSequence
    /\ part = "codecs" => CodecsInvert
    /\ part = "addresses" => AddressesRight
    /\ part = "uri" => UriRight
    /\ part = "format" => FormatRight
=============================================================================
