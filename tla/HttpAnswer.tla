---------------------------- MODULE HttpAnswer ----------------------------
(***************************************************************************)
(* A file as an answer: the handlers of the static modules (file_server,   *)
(* index_html, doxygen), the conditional and partial answers of            *)
(* HttpResponse (http_common.cpp) and the rate limited sending of          *)
(* HttpSession::sendResponse, while other processes change the file.  The  *)
(* client keeps what it got and asks again.  A unit of length stands for a *)
(* byte of a range, and for the 1024 bytes in which the rate is counted;   *)
(* the clock goes in parts of a second.                                    *)
(***************************************************************************)
EXTENDS Integers, FiniteSets

CONSTANTS
    Sizes,          \* of the file
    Ranges,         \* headers Range: <<start, end>>, each of it a number or None; -1 is None
    None,
    block_size,     \* 50
    HeadSize,       \* of the head of an answer, and of the page for 404
    rate_after,
    Ticks,          \* parts of a second
    MaxChanges,     \* bound: changes of the file
    MaxAsks,        \* bound: requests
    MaxNow          \* bound: the clock

ASSUME AnswerAssumption ==
    /\ Sizes \subseteq Nat /\ block_size \in Nat \ {0} /\ HeadSize \in Nat \ {0}
    /\ rate_after \in Nat /\ Ticks \in Nat \ {0} /\ None \notin Int
    /\ Ranges \subseteq (Nat \cup {None}) \X ((Int \ {-1}) \cup {None})

VARIABLES
    m_rate,     \* 0: no limit
    now,        \* the clock
    file,       \* version, inode, size, mtime; version 0: there is none
    changes,    \* versions of the file so far
    copy,       \* the client's copy: validators, and the versions its bytes are of
    ask,        \* what the request asks: cond (validators are body), range, ifRange, view
    rsp,        \* the response
    doing,       \* where the fiber of the session is
    ifs,        \* the file it has open
    body,       \* bytes of the body it has written, head not included
    count,      \* all that sendResponse has written
    start_time, wake,   \* when it began; until when it sleeps
    since,      \* history: versions of the file since the request
    lengths,    \* history: lengths of the file since its content was chosen
    parts,      \* history: versions the bytes body are of
    asks

fileVars == <<file, changes>>
sendVars == <<body, count, start_time, wake, parts>>
answerVars == <<m_rate, now, fileVars, copy, ask, rsp, doing, ifs, sendVars, since, lengths, asks>>

Gone == [version |-> 0, inode |-> 0, size |-> 0, mtime |-> 0]
Seconds(t) == t \div Ticks
NoRequest == [cond |-> FALSE, range |-> None, ifRange |-> FALSE, view |-> FALSE]
NoAnswer == [status |-> 200, lm |-> None, etag |-> None, gzip |-> FALSE, start |-> 0,
             length |-> 0, announced |-> 0, named |-> FALSE, of |-> 0]
NoCopy == [lm |-> None, etag |-> None, parts |-> {}]
Goes(next) == doing' = next

(* Between two requests the fiber keeps nothing.                           *)
Rest ==
    /\ ask' = NoRequest /\ rsp' = NoAnswer /\ ifs' = Gone /\ doing' = "idle"
    /\ body' = 0 /\ count' = 0 /\ start_time' = 0 /\ wake' = 0 /\ parts' = {} /\ since' = {} /\ lengths' = {}

AnswerInit ==
    /\ m_rate \in Nat
    /\ now = 0 /\ changes = 1
    /\ file \in [version : {1}, inode : {1}, size : Sizes, mtime : {0}]
    /\ copy = NoCopy /\ ask = NoRequest /\ rsp = NoAnswer /\ doing = "idle" /\ ifs = Gone
    /\ body = 0 /\ count = 0 /\ start_time = 0 /\ wake = 0 /\ since = {} /\ lengths = {}
    /\ parts = {} /\ asks = 0

-----------------------------------------------------------------------------
(* Others: the file is written again in place, replaced or removed, once a *)
(* second at the most; time passes; a client asks.                         *)
Changed(new, open) ==
    /\ changes < MaxChanges /\ (file.version = 0 \/ Seconds(now) > file.mtime)
    /\ changes' = changes + 1
    /\ file' = new /\ ifs' = open
    /\ since' = IF doing = "idle" THEN {} ELSE since \cup {new.version}
    /\ lengths' = IF rsp.named THEN lengths \cup {new.size} ELSE lengths
    /\ UNCHANGED <<m_rate, now, copy, ask, rsp, doing, sendVars, asks>>

Version(inode, size) == [version |-> changes + 1, inode |-> inode, size |-> size, mtime |-> Seconds(now)]
Rewrite ==
    \E size \in Sizes : file.version # 0 /\
        LET new == Version(file.inode, size)
        IN Changed(new, IF ifs.inode = file.inode THEN new ELSE ifs)
Replace == \E size \in Sizes : Changed(Version(changes + 1, size), ifs)
Unlink  == file.version # 0 /\ Changed(Gone, ifs)

TickAnswer ==
    /\ now < MaxNow /\ now' = now + 1
    /\ UNCHANGED <<m_rate, fileVars, copy, ask, rsp, doing, ifs, sendVars, since, lengths, asks>>

Ask ==
    /\ doing = "idle" /\ asks < MaxAsks /\ asks' = asks + 1
    /\ ask' \in [cond : IF copy.lm = None THEN {FALSE} ELSE BOOLEAN, range : Ranges \cup {None},
                 ifRange : IF copy.etag = None THEN {FALSE} ELSE BOOLEAN, view : BOOLEAN]
    /\ ask'.range = None => ~ ask'.ifRange
    /\ rsp' = [NoAnswer EXCEPT !.gzip = ask'.view]
    /\ since' = {file.version}
    /\ Goes("modified")
    /\ UNCHANGED <<m_rate, now, fileVars, copy, ifs, sendVars, lengths>>

-----------------------------------------------------------------------------
(* setLastModified, with the time of now for a file that is not there.     *)
LastModified ==
    /\ doing = "modified"
    /\ LET mtime == IF file.version = 0 THEN Seconds(now) ELSE file.mtime
           same == ask.cond /\ copy.lm = mtime
       IN /\ rsp' = [rsp EXCEPT !.lm = mtime, !.status = IF same THEN 304 ELSE @]
          /\ Goes(IF same THEN "head" ELSE "etag")
    /\ UNCHANGED <<m_rate, now, fileVars, copy, ask, ifs, sendVars, since, lengths, asks>>

(* setETag: mtime and size.                                                *)
ETag ==
    /\ doing = "etag"
    /\ LET etag == IF file.version = 0 THEN None ELSE <<file.mtime, file.size>>
           same == ask.cond /\ copy.etag # None /\ etag = copy.etag
       IN /\ rsp' = [rsp EXCEPT !.etag = etag, !.status = IF same THEN 304 ELSE @]
          /\ Goes(IF same THEN "head" ELSE "content")
    /\ UNCHANGED <<m_rate, now, fileVars, copy, ask, ifs, sendVars, since, lengths, asks>>

(* range_parse, and the range it stands for in a file of a size.           *)
Parsed(range) ==
    /\ range # <<None, None>>
    /\ range[1] = None \/ range[2] = None \/ range[1] <= range[2]
AtMost(i, last) == IF i > last THEN last ELSE i
Clipped(range, size) ==
    LET first == IF range[1] # None THEN range[1]
                 ELSE IF size - 1 - range[2] < 0 THEN 0 ELSE size - 1 - range[2]
        last  == IF range[1] = None \/ range[2] = None THEN size - 1 ELSE range[2]
    IN <<AtMost(first, size - 1), AtMost(last, size - 1)>>

(* The macro XX: from start to end of the file, by name.                   *)
Whole(size) == <<0, size - 1>>
Named(status, part) ==
    [rsp EXCEPT !.status = status, !.named = TRUE, !.start = part[1], !.length = part[2] - part[1] + 1,
                !.announced = part[2] - part[1] + 1, !.of = file.version]

(* Mutant: the length of a part is its distance.                           *)
NamedShort(status, part) ==
    [rsp EXCEPT !.status = status, !.named = TRUE, !.start = part[1], !.length = part[2] - part[1],
                !.announced = part[2] - part[1] + 1, !.of = file.version]

Part(status, part) == Named(status, part)

(* setContent.  What is to be compressed is read at once; compression is   *)
(* taken to keep the length, which is that of the content then.            *)
SetContent ==
    /\ doing = "content"
    /\ rsp' = CASE file.version = 0 -> [rsp EXCEPT !.status = 404, !.announced = HeadSize]
                [] file.version # 0 /\ rsp.gzip -> [rsp EXCEPT !.announced = file.size, !.of = file.version]
                [] OTHER ->
                     CASE ask.range = None \/ (ask.ifRange /\ copy.etag # rsp.etag) -> Part(200, Whole(file.size))
                       [] OTHER -> IF Parsed(ask.range) THEN Part(206, Clipped(ask.range, file.size))
                                   ELSE Part(416, Whole(file.size))
    /\ lengths' = IF rsp'.named THEN {file.size} ELSE {}
    /\ Goes("head")
    /\ UNCHANGED <<m_rate, now, fileVars, copy, ask, ifs, sendVars, since, asks>>

-----------------------------------------------------------------------------
(* sendResponse.  TextSize is the head and what is not body by name.           *)
SendResponse ==
    /\ doing = "head"
    /\ start_time' = Seconds(now)
    /\ Goes("text")
    /\ UNCHANGED <<m_rate, now, fileVars, copy, ask, rsp, ifs, body, count, wake, parts, since, lengths, asks>>

Least(a, b) == IF a < b THEN a ELSE b
TextSize == HeadSize + IF rsp.named THEN 0 ELSE rsp.announced
Left == IF doing = "text" THEN TextSize - count ELSE rsp.length - body

(* How much may be body, and how long to wait for what is too much.        *)
limit == m_rate * (Seconds(now) - start_time + 1) - (count - rate_after)
delay == (- limit * Ticks) \div m_rate + 1

Sleep ==
    /\ doing \in {"text", "body"} /\ Left > 0 /\ m_rate > 0 /\ wake = 0 /\ limit <= 0
    /\ wake' = now + delay
    /\ UNCHANGED <<m_rate, now, fileVars, copy, ask, rsp, doing, ifs, body, count, start_time, parts, since, lengths, asks>>

MaySend == IF m_rate > 0 /\ wake = 0 THEN limit > 0 ELSE now >= wake

SendText ==
    /\ doing = "text" /\ Left > 0 /\ MaySend
    /\ count' = count + Least(block_size, Left)
    /\ body' = IF rsp.named \/ count' < HeadSize THEN 0 ELSE count' - HeadSize
    /\ parts' = parts \cup IF body' > 0 THEN {rsp.of} ELSE {}
    /\ wake' = 0
    /\ UNCHANGED <<m_rate, now, fileVars, copy, ask, rsp, doing, ifs, start_time, since, lengths, asks>>

(* The stream stays on the inode it has opened.                            *)
OpenFile ==
    /\ doing = "text" /\ Left = 0
    /\ IF rsp.named THEN ifs' = file /\ Goes("body") ELSE UNCHANGED ifs /\ Goes("done")
    /\ UNCHANGED <<m_rate, now, fileVars, copy, ask, rsp, sendVars, since, lengths, asks>>

(* A read of a block.  One that comes to the end leaves the stream without *)
(* use; of nothing, or from before the file, nothing is written and        *)
(* sendResponse returns.                                                   *)
Got == IF rsp.start < 0 \/ ifs.size <= rsp.start + body THEN 0
       ELSE Least(Least(block_size, Left), ifs.size - (rsp.start + body))
SendBody ==
    /\ doing = "body" /\ Left > 0 /\ MaySend
    /\ body' = body + Got /\ count' = count + Got /\ wake' = 0
    /\ parts' = parts \cup IF Got > 0 THEN {ifs.version} ELSE {}
    /\ ifs' = IF Got < Least(block_size, Left) THEN Gone ELSE ifs
    /\ Goes(IF Got = 0 THEN "done" ELSE "body")
    /\ UNCHANGED <<m_rate, now, fileVars, copy, ask, rsp, start_time, since, lengths, asks>>

BodyEnds ==
    /\ doing = "body" /\ Left <= 0
    /\ Goes("done")
    /\ UNCHANGED <<m_rate, now, fileVars, copy, ask, rsp, ifs, sendVars, since, lengths, asks>>

(* The connection breaks.                                                  *)
SendFails ==
    /\ doing \in {"text", "body"} /\ Left > 0
    /\ Rest
    /\ UNCHANGED <<m_rate, now, fileVars, copy, asks>>

(* The client keeps a whole file, with the validators it came with.        *)
Receive ==
    /\ doing = "done"
    /\ copy' = IF rsp.status = 200 /\ body = rsp.announced
               THEN [lm |-> rsp.lm, etag |-> rsp.etag, parts |-> parts] ELSE copy
    /\ Rest
    /\ UNCHANGED <<m_rate, now, fileVars, asks>>

AnswerNext ==
    \/ Rewrite \/ Replace \/ Unlink \/ TickAnswer \/ Ask
    \/ LastModified \/ ETag \/ SetContent \/ SendResponse
    \/ Sleep \/ SendText \/ OpenFile \/ SendBody \/ BodyEnds \/ SendFails \/ Receive

AnswerSpec == AnswerInit /\ [][AnswerNext]_answerVars

-----------------------------------------------------------------------------
(* Content-Length is the length of what follows, whatever part is asked    *)
(* for: the client would take the next answer for the rest of this one.    *)
(* Never more comes than was announced, and less only if the file did not  *)
(* reach so far at some moment since its length was taken, or if it was    *)
(* empty when a part of it was asked for, which then begins before it.     *)
FileTooShort == rsp.start < 0 \/ \E n \in lengths : n < rsp.start + rsp.length
AnswerFramed ==
    doing = "done" =>
        \/ body = rsp.announced
        \/ rsp.named /\ body < rsp.announced /\ FileTooShort

(* "Not modified" is never said of a copy that is older than the request,  *)
(* though the validators are taken at one time and the content at another. *)
NotStale ==
    doing = "done" /\ rsp.status = 304 => \E v \in since : copy.parts \subseteq {v}

(* However the sleeps fall, no more is body than the rate allows and a     *)
(* block: rate_after at once, then m_rate in each second.                  *)
RateKept ==
    m_rate > 0 /\ doing \in {"text", "body"} =>
        count < rate_after + m_rate * (Seconds(now) - start_time + 2) + block_size

AnswersRight == AnswerFramed /\ NotStale /\ RateKept

(* "bytes=-500: the last 500 bytes" (http_common.cpp:688): not more.       *)
SuffixIsLast == rsp.status = 206 /\ ask.range[1] = None => rsp.length <= ask.range[2]
=============================================================================
