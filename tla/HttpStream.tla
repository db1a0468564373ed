----------------------------- MODULE HttpStream -----------------------------
(***************************************************************************)
(* Reading HTTP messages from a socket that delivers them in pieces: the   *)
(* requests of a connection that is kept alive (HttpSession::recvRequest,  *)
(* HttpServer::handleClient) and one response, with a length or in chunks  *)
(* (HttpClient::recvResponse).  The parser stops after the last byte of a  *)
(* head and goes on at parse_offset when more has come.                    *)
(*                                                                         *)
(* A byte is what it is to the parser: part of a head, its end (with the   *)
(* "content-length", or -1 for "transfer-encoding: chunked"), a digit of a *)
(* chunk's size, CR, LF, or the v-th byte of the content.                  *)
(***************************************************************************)
EXTENDS Integers, SequencesExt

CONSTANTS
    HeadLen,    \* the bytes of a head
    Requests,   \* the content lengths of the requests of a connection
    Responses,  \* the responses: <<n>>, or the sizes of the chunks and 0
    Radix,      \* 16 in the code
    BufferSize  \* "http.request.buffer_size", "http.response.buffer_size"

ASSUME HttpAssumption == HeadLen > 0 /\ Radix > 1 /\ BufferSize > 1

VARIABLES
    side,           \* "server", or "client"
    response,       \* the response the client is sent
    waits,          \* the server's peer waits for an answer before it goes on
    returns,        \* the build: HttpResponseParser::isFinished, which has no
                    \* return statement, hands on the value of its call
    wire, sent,     \* the bytes on their way; the requests sent
    hung,           \* the peer has closed its side
    data,           \* the buffer: its first data_len bytes
    parse_offset, content,
    remaining,      \* bytes still to be read for this content or chunk
    phase,          \* what is being read, or the end
    split,          \* the head of a chunk came in two pieces
    early,          \* content came with the end of the head
    got             \* the contents the servlets have been given

httpVars == <<side, response, waits, returns, wire, sent, hung, data, parse_offset, content,
              remaining, phase, split, early, got>>

-----------------------------------------------------------------------------
Byte(k, v) == [k |-> k, v |-> v]
HeadBytes(v) == [i \in 1 .. HeadLen |-> IF i < HeadLen THEN Byte("head", 0) ELSE Byte("end", v)]
Content(from, n) == [i \in 1 .. n |-> Byte("content", from + i - 1)]
CRLF == <<Byte("cr", 0), Byte("lf", 0)>>

Digits[n \in Nat] == IF n < Radix THEN <<Byte("digit", n)>>
                     ELSE Append(Digits[n \div Radix], Byte("digit", n % Radix))
Value(ds) == FoldLeft(LAMBDA acc, d : Radix * acc + d.v, 0, ds)

Total(ns) == FoldLeft(LAMBDA a, b : a + b, 0, ns)
Chunk(ns, i) == Digits[ns[i]] \o CRLF \o Content(Total(SubSeq(ns, 1, i - 1)) + 1, ns[i]) \o CRLF
Chunked(ns) == Last(ns) = 0 /\ Len(ns) > 1
Message(ns) ==
    IF Chunked(ns) THEN FoldLeft(LAMBDA bs, i : bs \o Chunk(ns, i), HeadBytes(-1), [i \in DOMAIN ns |-> i])
    ELSE HeadBytes(ns[1]) \o Content(1, ns[1])

HttpInit ==
    /\ wire = IF side = "client" THEN Message(response) ELSE <<>>
    /\ sent = 0
    /\ hung = FALSE /\ split = FALSE /\ early = FALSE
    /\ data = <<>> /\ parse_offset = 0 /\ content = <<>> /\ remaining = 0
    /\ phase = "head"
    /\ got = <<>>

-----------------------------------------------------------------------------
SendRequest ==
    /\ side = "server" /\ ~ hung
    /\ sent < Len(Requests)
    /\ waits => sent = Len(got)
    /\ sent' = sent + 1
    /\ wire' = wire \o Message(<<Requests[sent + 1]>>)
    /\ UNCHANGED <<side, response, waits, returns, hung, data, parse_offset, content, remaining, phase, split, early, got>>

HangUpPeer ==
    /\ ~ hung /\ hung' = TRUE
    /\ \E n \in 0 .. Len(wire) : wire' = SubSeq(wire, 1, n)
    /\ UNCHANGED <<side, response, waits, returns, sent, data, parse_offset, content, remaining, phase, split, early, got>>

(* A read of at most n bytes; it fails when the peer has gone.             *)
Reads(n) == n \in 1 .. Len(wire) /\ wire' = SubSeq(wire, n + 1, Len(wire))
Input == <<side, response, waits, returns, sent, hung>>

ReadError ==
    /\ phase \in {"head", "content", "size", "chunk", "last"}
    /\ phase = "size" => data = <<>> \/ parse_offset > 0
    /\ wire = <<>> /\ hung
    /\ phase' = "closed"
    /\ UNCHANGED <<Input, wire, data, parse_offset, content, remaining, split, early, got>>

(* Mutant: the server copies as the client does.                           *)
AfterHeadFromStart(d, i, v) ==
    LET offset == Len(d) - i
        taken == IF side = "server" THEN SubSeq(d, 1, offset) ELSE SubSeq(d, 1, IF v < offset THEN v ELSE offset)
    IN /\ early' = (offset > 0)
       /\ IF v < 0 THEN data' = SubSeq(d, i + 1, Len(d)) /\ parse_offset' = 0 /\ content' = <<>>
                        /\ remaining' = 0 /\ phase' = "size"
          ELSE /\ data' = d /\ parse_offset' = i
               /\ content' = IF v = 0 THEN <<>> ELSE taken
               /\ remaining' = v - offset
               /\ phase' = IF side = "server" /\ 0 < v /\ v < offset THEN "undefined"
                           ELSE IF v > offset THEN "content" ELSE "complete"

(* What follows when the head has ended at i: of the content, the server   *)
(* takes what is in the buffer already, the client as many bytes from the  *)
(* start of the buffer.  The server copies all there is, also bytes that   *)
(* no longer belong to this content: what that does is undefined.          *)
AfterHead(d, i, v) ==
    LET offset == Len(d) - i
        taken == IF side = "server" THEN SubSeq(d, i + 1, Len(d)) ELSE SubSeq(d, 1, IF v < offset THEN v ELSE offset)
    IN /\ early' = (offset > 0)
       /\ IF v < 0 THEN data' = SubSeq(d, i + 1, Len(d)) /\ parse_offset' = 0 /\ content' = <<>>
                        /\ remaining' = 0 /\ phase' = "size"
          ELSE /\ data' = d /\ parse_offset' = i
               /\ content' = IF v = 0 THEN <<>> ELSE taken
               /\ remaining' = v - offset
               /\ phase' = IF side = "server" /\ 0 < v /\ v < offset THEN "undefined"
                           ELSE IF v > offset THEN "content" ELSE "complete"

ReadHead(n) ==
    LET d == data \o SubSeq(wire, 1, n)
        i == SelectInSubSeq(d, parse_offset + 1, Len(d), LAMBDA b : b.k = "end")
    IN
    /\ phase = "head" /\ n <= BufferSize - Len(data) /\ Reads(n)
    /\ UNCHANGED <<Input, split, got>>
    /\ \/ i # 0 /\ AfterHead(d, i, d[i].v)
       \/ /\ i = 0
          /\ data' = d /\ parse_offset' = Len(d)
          /\ phase' = IF Len(d) = BufferSize THEN "closed" ELSE "head"
          /\ UNCHANGED <<content, remaining, early>>
       \/ /\ side = "client" /\ ~ returns
          /\ phase' = "undefined"
          /\ UNCHANGED <<data, parse_offset, content, remaining, early>>

(* readFixSize of the rest.                                                *)
ReadContent(n) ==
    /\ phase = "content" /\ n <= remaining /\ Reads(n)
    /\ content' = content \o SubSeq(wire, 1, n)
    /\ remaining' = remaining - n
    /\ phase' = IF n = remaining THEN "complete" ELSE phase
    /\ UNCHANGED <<Input, data, parse_offset, split, early, got>>

-----------------------------------------------------------------------------
(* The head of a chunk, for which the parser starts anew with every        *)
(* execute; then the chunk and the CRLF after it, from the buffer.         *)
ExecuteSize(d) ==
    LET stop == SelectInSubSeq(d, parse_offset + 1, Len(d), LAMBDA b : b.k # "digit")
        i == IF stop = 0 THEN Len(d) + 1 ELSE stop
        size == Value(SubSeq(d, parse_offset + 1, i - 1))
        rest == SubSeq(d, i + 2, Len(d))
    IN
    IF i = parse_offset + 1 \/ (i <= Len(d) /\ d[i].k # "cr") THEN
        /\ phase' = "closed"
        /\ UNCHANGED <<data, parse_offset, content, remaining, split>>
    ELSE IF Len(d) <= i THEN                \* not finished
        /\ data' = d /\ parse_offset' = Len(d) /\ split' = TRUE
        /\ phase' = IF Len(d) = BufferSize THEN "closed" ELSE "size"
        /\ UNCHANGED <<content, remaining>>
    ELSE IF size + 2 <= Len(rest) THEN      \* all of it is here
        /\ content' = content \o SubSeq(rest, 1, size)
        /\ data' = SubSeq(rest, size + 3, Len(rest)) /\ parse_offset' = 0
        /\ phase' = IF size = 0 THEN "complete" ELSE "size"
        /\ UNCHANGED <<remaining, split>>
    ELSE
        /\ content' = content \o rest
        /\ data' = <<>> /\ parse_offset' = 0
        /\ remaining' = size - Len(rest) + 2
        /\ phase' = IF size = 0 THEN "last" ELSE "chunk"
        /\ UNCHANGED split

ReadSize(n) ==
    /\ phase = "size" /\ (data = <<>> \/ parse_offset > 0)
    /\ n <= BufferSize - Len(data) /\ Reads(n)
    /\ ExecuteSize(data \o SubSeq(wire, 1, n))
    /\ UNCHANGED <<Input, early, got>>

SizeInBuffer ==
    /\ phase = "size" /\ data # <<>> /\ parse_offset = 0
    /\ ExecuteSize(data)
    /\ UNCHANGED <<Input, wire, early, got>>

ReadChunk(n) ==
    LET c == content \o SubSeq(wire, 1, n) IN
    /\ phase \in {"chunk", "last"}
    /\ n <= BufferSize /\ n <= remaining /\ Reads(n)
    /\ remaining' = remaining - n
    /\ content' = IF n = remaining THEN SubSeq(c, 1, Len(c) - 2) ELSE c
    /\ phase' = IF n < remaining THEN phase ELSE IF phase = "last" THEN "complete" ELSE "size"
    /\ UNCHANGED <<Input, data, parse_offset, split, early, got>>

-----------------------------------------------------------------------------
(* The servlet gets the request, the answer is sent, and the connection is *)
(* kept or not; what is left in the buffer is dropped.                     *)
HandleRequest ==
    /\ side = "server" /\ phase = "complete"
    /\ got' = Append(got, content)
    /\ data' = <<>> /\ parse_offset' = 0 /\ content' = <<>> /\ remaining' = 0
    /\ phase' \in {"head", "done"}
    /\ UNCHANGED <<Input, wire, split, early>>

HttpNext ==
    \/ SendRequest \/ HangUpPeer \/ ReadError
    \/ \E n \in 1 .. Len(wire) : ReadHead(n) \/ ReadContent(n) \/ ReadSize(n) \/ ReadChunk(n)
    \/ SizeInBuffer \/ HandleRequest

-----------------------------------------------------------------------------
(* However the bytes are cut into reads, the servlets are given the        *)
(* contents that were sent, one after the other, if the peer waits for     *)
(* each answer.  (What is sent before that is dropped with the buffer.)    *)
RequestsWhole ==
    side = "server" /\ waits =>
        /\ phase # "undefined"
        /\ got = [i \in DOMAIN got |-> Content(1, Requests[i])]

(* The client returns the content that was sent, unless the head of a      *)
(* chunk came in two pieces (the parser starts anew in the middle of it)   *)
(* or the first bytes came with the head (the head is copied instead).     *)
ResponseWhole ==
    side = "client" /\ phase = "complete" /\ ~ split /\ (early => Chunked(response)) =>
        content = Content(1, Total(response))

(* A message is refused only if the peer went away in the middle of it,    *)
(* its head fills the buffer, or the head of a chunk was split.            *)
NotRefused == phase = "closed" /\ (side = "server" => waits) => hung \/ HeadLen > BufferSize \/ split

MessagesWhole == RequestsWhole /\ ResponseWhole /\ NotRefused
=============================================================================
