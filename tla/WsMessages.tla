---------------------------- MODULE WsMessages ----------------------------
(***************************************************************************)
(* One direction of a WebSocket (ws_session.cpp): WSSendMessage and WSPing *)
(* of one end, WSRecvMessage of the other, and the fragments, pings and    *)
(* lengths between them.  Both ends are this program's: WSClient masks,    *)
(* WSSession does not.  The connection may break anywhere.  A message is   *)
(* sent once: a client masks the data of the WSFrameMessage itself.        *)
(***************************************************************************)
EXTENDS Integers, FiniteSets, SequencesExt

CONSTANTS
    Payloads,       \* what an application sends: sequences over {0, 1}
    Types,          \* TEXT_FRAME, BIN_FRAME
    Masks,          \* the keys a client draws: sequences over {0, 1}
    Short, Medium,  \* 126 and 65536: from here on the length takes 16, 64 bits
    MaxMessage,     \* websocket.message.max_size
    MaxSends        \* bound: frames and pings the application sends

ASSUME WsAssumption ==
    /\ Short \in Nat \ {0} /\ Medium \in Nat /\ Medium > Short
    /\ Masks # {} /\ \A m \in Masks : m \in Seq({0, 1}) /\ m # <<>>
    /\ Payloads \subseteq Seq({0, 1}) /\ Types \subseteq {"TEXT_FRAME", "BIN_FRAME"}

VARIABLES
    masks,      \* the sender is the client: it masks, the receiver demands it
    asked,      \* history: the frames and pings that were asked for, with what they amount to
    stream,     \* what is on its way, in pieces of one read each
    ended,      \* no more comes: the sender or the network closed
    message,    \* opcode, data of WSRecvMessage
    received,   \* what it has returned
    pongs,      \* the PONGs it has sent
    closed      \* it has closed the stream

wsVars == <<masks, asked, stream, ended, message, received, pongs, closed>>

NoMessage == [opcode |-> "CONTINUE", data |-> <<>>]

WsInit ==
    /\ masks \in BOOLEAN
    /\ asked = <<>> /\ stream = <<>> /\ ended = FALSE
    /\ message = NoMessage /\ received = <<>> /\ pongs = 0 /\ closed = FALSE

(* data[i] ^= mask[i % 4]                                                  *)
Masked(d, key) == [i \in DOMAIN d |-> (d[i] + key[((i - 1) % Len(key)) + 1]) % 2]

(* The head has seven bits for the length, or says how many follow.        *)
Bits(n) == IF n < Short THEN 7 ELSE IF n < Medium THEN 16 ELSE 64
WSFrameHead(op, fin, mask, n) ==
    [fin |-> fin, opcode |-> op, mask |-> mask, bits |-> Bits(n), payload |-> IF n < Short THEN n ELSE 0]
Extended(n) ==
    CASE Bits(n) = 7  -> <<>>
      [] Bits(n) = 16 -> <<n % Medium>>
      [] Bits(n) = 64 -> <<n>>

-----------------------------------------------------------------------------
(* What had been asked for after k frames and pings: the messages that     *)
(* were complete, the one to which the last frame belongs, of which there  *)
(* was more to come if it was open, and the number of pings.               *)
NotYet == [opcode |-> "PING", data |-> <<>>, fin |-> TRUE, open |-> FALSE, message |-> NoMessage,
            messages |-> <<>>, pings |-> 0]
AskedBy(k) == IF k = 0 THEN NotYet ELSE asked[k]
Latest == AskedBy(Len(asked))

(* A message is the data of its frames put together and the type of the    *)
(* first of these.                                                         *)
Joined(before, op, d) ==
    IF before.open THEN [opcode |-> before.message.opcode, data |-> before.message.data \o d]
    ELSE [opcode |-> op, data |-> d]

(* The pieces of a frame.  A write of no bytes returns 0, which            *)
(* WSSendMessage takes for an error: it closes.                            *)
Keys_ == IF masks THEN Masks ELSE {<<0>>}
Wire(op, d, fin, key) ==
    <<WSFrameHead(op, fin, masks, Len(d))>> \o Extended(Len(d))
        \o (IF masks THEN <<key>> ELSE <<>>) \o (IF d = <<>> THEN <<>> ELSE <<Masked(d, key)>>)
PingWire == <<WSFrameHead("PING", TRUE, FALSE, 0)>>

Send(op, d, fin) ==
    LET whole == Joined(Latest, op, d) IN
    /\ ~ ended /\ Len(asked) < MaxSends
    /\ \E key \in Keys_ : stream' = stream \o Wire(op, d, fin, key)
    /\ ended' = (d = <<>>)
    /\ asked' = Append(asked, [opcode |-> op, data |-> d, fin |-> fin, open |-> ~ fin, message |-> whole,
                               messages |-> IF fin THEN Append(Latest.messages, whole) ELSE Latest.messages,
                               pings |-> Latest.pings])
    /\ UNCHANGED <<masks, message, received, pongs, closed>>

(* A message in one frame or several, of which the first has its type.     *)
SendMessage ==
    \E d \in Payloads, fin \in BOOLEAN, op \in Types \cup {IF Latest.open THEN "CONTINUE" ELSE "CLOSE"} :
        Send(op, d, fin)

WSPing ==
    /\ ~ ended /\ Len(asked) < MaxSends
    /\ stream' = stream \o PingWire
    /\ asked' = Append(asked, [opcode |-> "PING", data |-> <<>>, fin |-> TRUE, open |-> Latest.open,
                               message |-> Latest.message, messages |-> Latest.messages,
                               pings |-> Latest.pings + 1])
    /\ UNCHANGED <<masks, ended, message, received, pongs, closed>>

(* Of what is on its way only the beginning arrives.                       *)
Disconnect ==
    /\ ~ ended
    /\ \E n \in 0 .. Len(stream) : stream' = SubSeq(stream, 1, n)
    /\ ended' = TRUE
    /\ UNCHANGED <<masks, asked, message, received, pongs, closed>>

-----------------------------------------------------------------------------
(* WSRecvMessage, one turn of its loop at a time.                          *)
Comes(ops) == ~ closed /\ stream # <<>> /\ stream[1].opcode \in ops
DataFrames == {"CONTINUE", "TEXT_FRAME", "BIN_FRAME"}

RecvPing ==
    /\ Comes({"PING"})
    /\ stream' = Tail(stream)
    /\ pongs' = pongs + 1
    /\ UNCHANGED <<masks, asked, ended, message, received, closed>>

CloseStream == closed' = TRUE /\ stream' = <<>> /\ message' = NoMessage

(* Where the key and the data of the frame that comes first are.           *)
KeyAt  == IF stream[1].bits = 7 THEN 2 ELSE 3
DataAt == IF stream[1].mask THEN KeyAt + 1 ELSE KeyAt
length == IF stream[1].bits = 7 THEN stream[1].payload ELSE stream[2]
Exceeds == Len(message.data) + length >= MaxMessage

(* Mutant: the key goes on where the last frame of the message stopped.    *)
UnmaskedOn(d, key) == [i \in DOMAIN d |-> (d[i] + key[((i + Len(message.data) - 1) % Len(key)) + 1]) % 2]

Unmasked(d, key) == Masked(d, key)

RecvFrame ==
    /\ Comes(DataFrames)
    /\ stream[1].mask \/ ~ masks
    /\ Len(stream) >= DataAt /\ ~ Exceeds
    /\ LET data == message.data \o (IF stream[1].mask THEN Unmasked(stream[DataAt], stream[KeyAt])
                                    ELSE stream[DataAt])
           next == [opcode |-> IF message.opcode = "CONTINUE" THEN stream[1].opcode ELSE message.opcode,
                    data |-> data]
       IN IF stream[1].fin THEN received' = Append(received, next) /\ message' = NoMessage
          ELSE message' = next /\ UNCHANGED received
    /\ stream' = SubSeq(stream, DataAt + 1, Len(stream))
    /\ UNCHANGED <<masks, asked, ended, pongs, closed>>

(* The stream ends, the frame is not masked or too long, or it has no      *)
(* data: a read of no bytes is taken for an error.                         *)
RecvFails ==
    /\ \/ ~ closed /\ stream = <<>> /\ ended
       \/ /\ Comes(DataFrames)
          /\ \/ masks /\ ~ stream[1].mask
             \/ Len(stream) < DataAt /\ ended
             \/ Len(stream) >= KeyAt - 1 /\ Exceeds
             \/ Len(stream) >= DataAt - 1 /\ length = 0
    /\ CloseStream
    /\ UNCHANGED <<masks, asked, ended, received, pongs>>

(* The end of WSServer::handleClient.                                      *)
RecvClose ==
    /\ Comes({"CLOSE"})
    /\ CloseStream
    /\ UNCHANGED <<masks, asked, ended, received, pongs>>

WsNext == SendMessage \/ WSPing \/ Disconnect \/ RecvPing \/ RecvFrame \/ RecvFails \/ RecvClose

WsSpec == WsInit /\ [][WsNext]_wsVars

-----------------------------------------------------------------------------
(* What recvMessage returns is what was sent, whole and in order, however  *)
(* it was cut into frames and whatever pings came between these; once all  *)
(* has been read nothing is missing; and the receiver gives up only for a  *)
(* reason: the stream ended, a CLOSE came, or a message was too long.      *)
MessagesArrive ==
    /\ IsPrefix(received, Latest.messages)
    /\ stream = <<>> /\ ~ ended /\ ~ closed => received = Latest.messages /\ pongs = Latest.pings
    /\ closed => \/ ended
                 \/ \E i \in DOMAIN asked :
                        asked[i].opcode = "CLOSE" \/ Len(asked[i].message.data) >= MaxMessage
=============================================================================
