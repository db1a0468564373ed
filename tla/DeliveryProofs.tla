-------------------------- MODULE DeliveryProofs ---------------------------
(***************************************************************************)
(* What the HTTP server delivers: the messages of a WebSocket, the answers *)
(* about a file, the servlets of a request and the passwords that guard    *)
(* it, each with its inductive invariant.                                   *)
(***************************************************************************)
EXTENDS WsMessages, HttpAnswer, Servlets, Authorization,
        SequenceTheorems, WellFoundedInduction, TLAPS

(***************************************************************************)
(* Messages of a WebSocket                                                 *)
(***************************************************************************)
Codes == {"CONTINUE", "TEXT_FRAME", "BIN_FRAME", "CLOSE", "PING"}
Bytes == Seq({0, 1})
Texts == [opcode : Codes, data : Bytes]
Heads == [fin : BOOLEAN, opcode : Codes, mask : BOOLEAN, bits : {7, 16, 64}, payload : Nat]
Pieces == Heads \cup Nat \cup Bytes
Asks == [opcode : Codes, data : Bytes, fin : BOOLEAN, open : BOOLEAN, message : Texts,
         messages : Seq(Texts), pings : Nat]

WsTypes ==
    /\ masks \in BOOLEAN /\ ended \in BOOLEAN /\ closed \in BOOLEAN
    /\ asked \in Seq(Asks) /\ stream \in Seq(Pieces)

(* What was asked for counts up; only the last frame can be without data,  *)
(* as the sender has then closed.                                          *)
Counted(k) ==
    LET f == asked[k] before == AskedBy(k - 1) IN
    /\ f.opcode = "PING" =>
          /\ f.open = before.open /\ f.message = before.message /\ f.messages = before.messages
          /\ f.pings = before.pings + 1
    /\ f.opcode # "PING" =>
          /\ f.open = ~ f.fin /\ f.pings = before.pings /\ f.message = Joined(before, f.opcode, f.data)
          /\ f.messages = IF f.fin THEN Append(before.messages, f.message) ELSE before.messages
          /\ f.data = <<>> => ended /\ k = Len(asked)
    /\ f.open => f.message.opcode # "CONTINUE"
LedgerInv == \A k \in 1 .. Len(asked) : Counted(k)

(* No message that was complete is taken back.                             *)
Extends(t, s) == Len(s) <= Len(t) /\ \A p \in 1 .. Len(s) : t[p] = s[p]
OrderInv ==
    \A j, k \in 0 .. Len(asked) : j <= k => Extends(AskedBy(k).messages, AskedBy(j).messages)

(* What Keys_ and Wire are, by who sends; and the pieces of what was asked.*)
KeysOf(m) == IF m THEN Masks ELSE {<<0>>}
Encoded(m, op, d, fin, key) ==
    <<WSFrameHead(op, fin, m, Len(d))>> \o Extended(Len(d))
        \o (IF m THEN <<key>> ELSE <<>>) \o (IF d = <<>> THEN <<>> ELSE <<Masked(d, key)>>)
WireOf(m, f, key) == IF f.opcode = "PING" THEN PingWire ELSE Encoded(m, f.opcode, f.data, f.fin, key)

(* After the first i frames the pieces of the rest are on their way: those *)
(* of frame k end at cut[k], and the stream may break off before.          *)
Carried(from, w) == \A p \in 1 .. Len(w) : from + p <= Len(stream) => stream[from + p] = w[p]
Cuts(i, cut) ==
    /\ cut \in [i .. Len(asked) -> Nat] /\ cut[i] = 0
    /\ \A j, k \in i .. Len(asked) : j < k => cut[j] < cut[k]
    /\ \A k \in i + 1 .. Len(asked) : \E key \in KeysOf(masks) :
          /\ cut[k] = cut[k - 1] + Len(WireOf(masks, asked[k], key))
          /\ Carried(cut[k - 1], WireOf(masks, asked[k], key))
    /\ Len(stream) <= cut[Len(asked)] /\ (~ ended => Len(stream) = cut[Len(asked)])
Transit(i) == \E cut : Cuts(i, cut)

At(i) ==
    /\ received = AskedBy(i).messages
    /\ ~ closed => /\ pongs = AskedBy(i).pings
                   /\ message = IF AskedBy(i).open THEN AskedBy(i).message ELSE NoMessage
                   /\ Transit(i)
ReceiverInv == \E i \in 0 .. Len(asked) : At(i)

ReasonInv ==
    closed => \/ ended
              \/ \E i \in DOMAIN asked :
                     asked[i].opcode = "CLOSE" \/ Len(asked[i].message.data) >= MaxMessage

WsInv == WsTypes /\ LedgerInv /\ OrderInv /\ ReceiverInv /\ ReasonInv

-----------------------------------------------------------------------------
(* Masked twice with one key is not masked.                                *)
LEMMA MaskedTwice ==
    ASSUME NEW d \in Bytes, NEW key \in Bytes, key # <<>>
    PROVE  Masked(d, key) \in Bytes /\ Masked(Masked(d, key), key) = d
<1> DEFINE at(i) == ((i - 1) % Len(key)) + 1
<1>1. Len(key) \in Nat \ {0} /\ Len(d) \in Nat /\ DOMAIN d = 1 .. Len(d)
  BY EmptySeq, LenProperties DEF Bytes
<1>2. \A i \in 1 .. Len(d) : at(i) \in 1 .. Len(key)
  BY <1>1
<1>3. \A i \in 1 .. Len(d) : d[i] \in {0, 1} /\ key[at(i)] \in {0, 1}
  BY <1>2, ElementOfSeq DEF Bytes
<1> HIDE DEF at
<1>4. Masked(d, key) = [i \in 1 .. Len(d) |-> (d[i] + key[at(i)]) % 2]
  BY <1>1 DEF Masked, at
<1>5. \A i \in 1 .. Len(d) : (d[i] + key[at(i)]) % 2 \in {0, 1}
  BY <1>3
<1>6. Masked(d, key) \in [1 .. Len(d) -> {0, 1}]
  BY <1>4, <1>5
<1>7. Masked(d, key) \in Bytes
  BY <1>1, <1>6, SeqDef DEF Bytes
<1>8. Masked(Masked(d, key), key) = [i \in 1 .. Len(d) |-> (Masked(d, key)[i] + key[at(i)]) % 2]
  BY <1>6 DEF Masked, at
<1>9. \A i \in 1 .. Len(d) : (Masked(d, key)[i] + key[at(i)]) % 2 = d[i]
  <2> TAKE i \in 1 .. Len(d)
  <2>1. Masked(d, key)[i] = (d[i] + key[at(i)]) % 2
    BY <1>4
  <2> QED BY <1>3, <2>1
<1>10. d = [i \in 1 .. Len(d) |-> d[i]]
  BY <1>1, LenProperties DEF Bytes
<1> QED BY <1>7, <1>8, <1>9, <1>10

(* How many pieces say how long the data is, and what they are.            *)
HeadLength(n) == IF Bits(n) = 7 THEN 1 ELSE 2
KeyLength(m) == IF m THEN 1 ELSE 0

LEMMA ExtendedFacts ==
    ASSUME NEW n \in Nat
    PROVE  /\ Bits(n) \in {7, 16, 64}
           /\ Extended(n) \in Seq(Pieces) /\ Len(Extended(n)) = HeadLength(n) - 1
           /\ Bits(n) # 7 => Extended(n)[1] = n
           /\ Bits(n) = 7 <=> n < Short
<1>1. Short \in Nat /\ Medium \in Nat /\ Short < Medium
  BY WsAssumption
<1>2. CASE n < Short
  <2>1. Bits(n) = 7 BY <1>2 DEF Bits
  <2>2. Extended(n) = <<>> BY <2>1 DEF Extended
  <2> QED BY <1>2, <2>1, <2>2, EmptySeq DEF HeadLength
<1>3. CASE n >= Short
  <2>1. Bits(n) \in {16, 64} /\ (Bits(n) = 16 => n < Medium) BY <1>1, <1>3 DEF Bits
  <2>2. Bits(n) = 16 => n % Medium = n BY <1>1, <2>1
  <2>3. Extended(n) = <<n>> BY <2>1, <2>2 DEF Extended
  <2>4. n \in Pieces BY DEF Pieces
  <2>5. <<n>> \in Seq(Pieces) /\ Len(<<n>>) = 1 /\ <<n>>[1] = n BY <2>4
  <2> QED BY <1>1, <1>3, <2>1, <2>3, <2>5 DEF HeadLength
<1> QED BY <1>1, <1>2, <1>3

LEMMA One ==
    ASSUME NEW x \in Pieces
    PROVE  <<x>> \in Seq(Pieces) /\ Len(<<x>>) = 1 /\ <<x>>[1] = x
BY DEF Pieces

LEMMA KeyFacts ==
    ASSUME NEW m \in BOOLEAN, NEW key \in KeysOf(m)
    PROVE  key \in Bytes /\ key # <<>> /\ key \in Pieces
<1>1. <<0>> \in Bytes /\ <<0>> # <<>>
  BY DEF Bytes
<1>2. key \in Bytes /\ key # <<>>
  BY <1>1, WsAssumption DEF KeysOf, Bytes
<1> QED BY <1>2 DEF Pieces

LEMMA KeyExists == \A m \in BOOLEAN : KeysOf(m) # {}
BY WsAssumption DEF KeysOf

LEMMA Joint ==
    ASSUME NEW a \in Seq(Pieces), NEW b \in Seq(Pieces)
    PROVE  /\ a \o b \in Seq(Pieces) /\ Len(a \o b) = Len(a) + Len(b)
           /\ \A i \in 1 .. Len(a) : (a \o b)[i] = a[i]
           /\ \A i \in 1 .. Len(b) : (a \o b)[Len(a) + i] = b[i]
<1> DEFINE r == a \o b
<1>1. Len(a) \in Nat /\ Len(b) \in Nat
  BY LenProperties
<1>2. /\ r \in Seq(Pieces) /\ Len(r) = Len(a) + Len(b)
      /\ \A i \in 1 .. Len(a) + Len(b) : r[i] = IF i <= Len(a) THEN a[i] ELSE b[i - Len(a)]
  BY ConcatProperties
<1> HIDE DEF r
<1>3. \A i \in 1 .. Len(a) : r[i] = a[i]
  BY <1>1, <1>2
<1>4. ASSUME NEW i \in 1 .. Len(b) PROVE r[Len(a) + i] = b[i]
  <2>1. Len(a) + i \in 1 .. Len(a) + Len(b) /\ ~ (Len(a) + i <= Len(a)) /\ (Len(a) + i) - Len(a) = i
    BY <1>1
  <2>2. r[Len(a) + i] = b[(Len(a) + i) - Len(a)]
    BY <1>2, <2>1
  <2> QED BY <2>1, <2>2
<1> QED BY <1>2, <1>3, <1>4 DEF r

(* The pieces of a frame: its head, its length, its key, its data.         *)
LEMMA WireFacts ==
    ASSUME NEW m \in BOOLEAN, NEW op \in Codes, NEW d \in Bytes, NEW fin \in BOOLEAN, NEW key \in KeysOf(m),
           NEW w, w = Encoded(m, op, d, fin, key), NEW h, h = HeadLength(Len(d))
    PROVE  /\ w \in Seq(Pieces) /\ h \in {1, 2} /\ KeyLength(m) \in {0, 1}
           /\ Len(w) = h + KeyLength(m) + (IF d = <<>> THEN 0 ELSE 1)
           /\ w[1] = WSFrameHead(op, fin, m, Len(d))
           /\ h = 2 => w[2] = Len(d)
           /\ m => w[h + 1] = key
           /\ d # <<>> => w[h + KeyLength(m) + 1] = Masked(d, key)
<1>1. Len(d) \in Nat
  BY LenProperties DEF Bytes
<1>2. h \in {1, 2} /\ KeyLength(m) \in {0, 1}
  BY DEF HeadLength, KeyLength
<1> DEFINE head == WSFrameHead(op, fin, m, Len(d))
           a == <<head>>
           b == Extended(Len(d))
           c == IF m THEN <<key>> ELSE <<>>
           e == IF d = <<>> THEN <<>> ELSE <<Masked(d, key)>>
<1>3. head \in Pieces
  <2>1. Bits(Len(d)) \in {7, 16, 64} /\ (IF Len(d) < Short THEN Len(d) ELSE 0) \in Nat
    BY <1>1, ExtendedFacts
  <2> QED BY <2>1 DEF WSFrameHead, Heads, Pieces
<1>4. a \in Seq(Pieces) /\ Len(a) = 1 /\ a[1] = head
  <2> HIDE DEF head
  <2> QED BY <1>3, One
<1>5. b \in Seq(Pieces) /\ Len(b) = h - 1 /\ (h = 2 => b[1] = Len(d))
  <2>1. /\ b \in Seq(Pieces) /\ Len(b) = HeadLength(Len(d)) - 1
        /\ Bits(Len(d)) # 7 => b[1] = Len(d)
    BY <1>1, ExtendedFacts
  <2>2. h = 2 => Bits(Len(d)) # 7
    BY DEF HeadLength
  <2> HIDE DEF b
  <2> QED BY <2>1, <2>2
<1>6. c \in Seq(Pieces) /\ Len(c) = KeyLength(m) /\ (m => c[1] = key)
  <2>1. <<key>> \in Seq(Pieces) /\ Len(<<key>>) = 1 /\ <<key>>[1] = key
    BY KeyFacts, One
  <2>2. <<>> \in Seq(Pieces) /\ Len(<<>>) = 0
    BY EmptySeq
  <2> QED BY <2>1, <2>2 DEF KeyLength
<1>7. e \in Seq(Pieces) /\ Len(e) = (IF d = <<>> THEN 0 ELSE 1) /\ (d # <<>> => e[1] = Masked(d, key))
  <2>1. Masked(d, key) \in Pieces
    BY KeyFacts, MaskedTwice DEF Pieces
  <2>2. <<Masked(d, key)>> \in Seq(Pieces) /\ Len(<<Masked(d, key)>>) = 1
        /\ <<Masked(d, key)>>[1] = Masked(d, key)
    BY <2>1, One
  <2>3. <<>> \in Seq(Pieces) /\ Len(<<>>) = 0
    BY EmptySeq
  <2> QED BY <2>2, <2>3
<1>8. w = ((a \o b) \o c) \o e
  BY DEF Encoded
<1> HIDE DEF head, a, b, c, e
<1>9. /\ a \o b \in Seq(Pieces) /\ Len(a \o b) = h
      /\ (a \o b)[1] = head /\ (h = 2 => (a \o b)[2] = Len(d))
  <2>1. /\ a \o b \in Seq(Pieces) /\ Len(a \o b) = Len(a) + Len(b)
        /\ \A i \in 1 .. Len(a) : (a \o b)[i] = a[i]
        /\ \A i \in 1 .. Len(b) : (a \o b)[Len(a) + i] = b[i]
    BY <1>4, <1>5, Joint
  <2>3. (a \o b)[1] = head
    BY <1>4, <2>1
  <2>4. ASSUME h = 2 PROVE (a \o b)[2] = Len(d)
    <3>1. 1 \in 1 .. Len(b) /\ Len(a) + 1 = 2 /\ b[1] = Len(d)
      BY <1>4, <1>5, <2>4
    <3>2. (a \o b)[Len(a) + 1] = b[1]
      BY <2>1, <3>1
    <3> QED BY <3>1, <3>2
  <2>5. Len(a \o b) = h
    BY <1>2, <1>4, <1>5, <2>1
  <2> QED BY <2>1, <2>3, <2>4, <2>5
<1> DEFINE ab == a \o b
           abc == ab \o c
<1> HIDE DEF ab
<1>10. /\ abc \in Seq(Pieces) /\ Len(abc) = h + KeyLength(m)
       /\ abc[1] = head /\ (h = 2 => abc[2] = Len(d))
       /\ m => abc[h + 1] = key
  <2>0. ab \in Seq(Pieces) /\ Len(ab) = h /\ ab[1] = head /\ (h = 2 => ab[2] = Len(d))
    BY <1>9 DEF ab
  <2>1. /\ abc \in Seq(Pieces) /\ Len(abc) = Len(ab) + Len(c)
        /\ \A i \in 1 .. Len(ab) : abc[i] = ab[i]
        /\ \A i \in 1 .. Len(c) : abc[Len(ab) + i] = c[i]
    BY <1>6, <2>0, Joint
  <2>2. m => KeyLength(m) = 1
    BY DEF KeyLength
  <2> HIDE DEF abc
  <2> QED BY <1>2, <1>6, <2>0, <2>1, <2>2
<1> HIDE DEF abc
<1>11. /\ w \in Seq(Pieces) /\ Len(w) = h + KeyLength(m) + (IF d = <<>> THEN 0 ELSE 1)
       /\ w[1] = head /\ (h = 2 => w[2] = Len(d)) /\ (m => w[h + 1] = key)
       /\ (d # <<>> => w[h + KeyLength(m) + 1] = Masked(d, key))
  <2>1. w = abc \o e
    BY <1>8 DEF abc, ab
  <2>2. /\ abc \o e \in Seq(Pieces) /\ Len(abc \o e) = Len(abc) + Len(e)
        /\ \A i \in 1 .. Len(abc) : (abc \o e)[i] = abc[i]
        /\ \A i \in 1 .. Len(e) : (abc \o e)[Len(abc) + i] = e[i]
    BY <1>10, <1>7, Joint
  <2>3. m => KeyLength(m) = 1
    BY DEF KeyLength
  <2>4. /\ w \in Seq(Pieces) /\ Len(w) = h + KeyLength(m) + (IF d = <<>> THEN 0 ELSE 1)
        /\ w[1] = head /\ (h = 2 => w[2] = Len(d)) /\ (m => w[h + 1] = key)
    BY <1>2, <1>7, <1>10, <2>1, <2>2, <2>3
  <2>5. d # <<>> => w[h + KeyLength(m) + 1] = Masked(d, key)
    BY <1>2, <1>7, <1>10, <2>1, <2>2
  <2> QED BY <2>4, <2>5
<1> QED BY <1>2, <1>11 DEF head

LEMMA PingFacts ==
    /\ PingWire \in Seq(Pieces) /\ Len(PingWire) = 1
    /\ PingWire[1].opcode = "PING"
<1>1. WSFrameHead("PING", TRUE, FALSE, 0) \in Pieces
  <2>1. Bits(0) \in {7, 16, 64} /\ (IF 0 < Short THEN 0 ELSE 0) \in Nat
    BY ExtendedFacts
  <2> QED BY <2>1 DEF WSFrameHead, Heads, Pieces, Codes
<1> DEFINE head == WSFrameHead("PING", TRUE, FALSE, 0)
<1>2. head.opcode = "PING"
  BY DEF WSFrameHead
<1> HIDE DEF head
<1>3. <<head>> \in Seq(Pieces) /\ Len(<<head>>) = 1 /\ <<head>>[1] = head
  BY <1>1, One DEF head
<1> QED BY <1>2, <1>3 DEF PingWire, head

(* Whatever the key, the pieces of a frame are at least one.               *)
LEMMA Encodes ==
    ASSUME NEW m \in BOOLEAN, NEW f \in Asks, NEW key \in KeysOf(m)
    PROVE  WireOf(m, f, key) \in Seq(Pieces) /\ Len(WireOf(m, f, key)) \in Nat \ {0}
<1>1. f.opcode \in Codes /\ f.data \in Bytes /\ f.fin \in BOOLEAN
  BY DEF Asks
<1>2. CASE f.opcode = "PING"
  BY <1>2, PingFacts DEF WireOf
<1>3. CASE f.opcode # "PING"
  <2> DEFINE w == Encoded(m, f.opcode, f.data, f.fin, key)
             h == HeadLength(Len(f.data))
  <2>1. /\ w \in Seq(Pieces) /\ h \in {1, 2} /\ KeyLength(m) \in {0, 1}
        /\ Len(w) = h + KeyLength(m) + (IF f.data = <<>> THEN 0 ELSE 1)
    BY <1>1, WireFacts
  <2>2. WireOf(m, f, key) = w
    BY <1>3 DEF WireOf
  <2>3. (IF f.data = <<>> THEN 0 ELSE 1) \in {0, 1}
    OBVIOUS
  <2> HIDE DEF w, h
  <2>4. w \in Seq(Pieces) /\ Len(w) \in Nat \ {0}
    BY <2>1, <2>3
  <2> QED BY <2>2, <2>4
<1> QED BY <1>2, <1>3

LEMMA Sender ==
    /\ KeysOf(masks) = Keys_
    /\ \A op, d, fin, key : Encoded(masks, op, d, fin, key) = Wire(op, d, fin, key)
BY DEF KeysOf, Keys_, Encoded, Wire

(* The cuts when there is a frame more, and when the first has been read.  *)
Increasing(i, n, cut) ==
    cut \in [i .. n -> Nat] /\ cut[i] = 0 /\ \A j, k \in i .. n : j < k => cut[j] < cut[k]
Grow(i, n, cut, l) == [k \in i .. n + 1 |-> IF k = n + 1 THEN cut[n] + l ELSE cut[k]]
Shift(i, n, cut) == [k \in i + 1 .. n |-> cut[k] - cut[i + 1]]

LEMMA CutsGrow ==
    ASSUME NEW n \in Nat, NEW i \in 0 .. n, NEW cut, Increasing(i, n, cut), NEW l \in Nat \ {0}
    PROVE  /\ Increasing(i, n + 1, Grow(i, n, cut, l)) /\ Grow(i, n, cut, l)[n + 1] = cut[n] + l
           /\ \A k \in i .. n : Grow(i, n, cut, l)[k] = cut[k] /\ cut[k] <= cut[n] /\ cut[k] \in Nat
<1> DEFINE c == Grow(i, n, cut, l)
<1>0. cut \in [i .. n -> Nat] /\ cut[i] = 0 /\ \A j, k \in i .. n : j < k => cut[j] < cut[k]
  BY DEF Increasing
<1>1. n \in i .. n /\ i \in i .. n /\ cut[n] \in Nat
  BY <1>0
<1>2. ASSUME NEW k \in i .. n PROVE cut[k] <= cut[n] /\ cut[k] \in Nat
  <2>1. cut[k] \in Nat
    BY <1>0
  <2>2. k < n \/ k = n
    OBVIOUS
  <2> QED BY <1>0, <1>1, <2>1, <2>2
<1>3. \A k \in i .. n + 1 : c[k] = IF k = n + 1 THEN cut[n] + l ELSE cut[k]
  BY DEF Grow
<1>4. c[n + 1] = cut[n] + l
  BY <1>3
<1>5. ASSUME NEW k \in i .. n PROVE c[k] = cut[k]
  <2>1. k \in i .. n + 1 /\ k # n + 1
    OBVIOUS
  <2> QED BY <1>3, <2>1
<1>6. \A k \in i .. n + 1 : k = n + 1 \/ k \in i .. n
  OBVIOUS
<1>7. ASSUME NEW k \in i .. n + 1 PROVE (IF k = n + 1 THEN cut[n] + l ELSE cut[k]) \in Nat
  BY <1>1, <1>2, <1>6
<1>8. c \in [i .. n + 1 -> Nat]
  BY <1>7 DEF Grow
<1>9. ASSUME NEW j \in i .. n + 1, NEW k \in i .. n + 1, j < k PROVE c[j] < c[k]
  <2>1. j \in i .. n /\ c[j] = cut[j]
    BY <1>5, <1>9
  <2>2. CASE k \in i .. n
    BY <1>0, <1>5, <1>9, <2>1, <2>2
  <2>3. CASE k = n + 1
    BY <1>1, <1>2, <1>4, <2>1, <2>3
  <2> QED BY <1>6, <2>2, <2>3
<1>10. c[i] = 0
  BY <1>0, <1>1, <1>5
<1>11. Increasing(i, n + 1, c)
  BY <1>8, <1>9, <1>10 DEF Increasing
<1> QED BY <1>2, <1>4, <1>5, <1>11

LEMMA CutsShift ==
    ASSUME NEW n \in Nat, NEW i \in 0 .. n - 1, NEW cut, Increasing(i, n, cut)
    PROVE  /\ Increasing(i + 1, n, Shift(i, n, cut)) /\ cut[i + 1] \in Nat
           /\ \A k \in i + 1 .. n :
                 Shift(i, n, cut)[k] = cut[k] - cut[i + 1] /\ cut[k] \in Nat /\ cut[i + 1] <= cut[k]
<1> DEFINE c == Shift(i, n, cut)
<1>0. cut \in [i .. n -> Nat] /\ cut[i] = 0 /\ \A j, k \in i .. n : j < k => cut[j] < cut[k]
  BY DEF Increasing
<1>1. i + 1 \in i .. n /\ cut[i + 1] \in Nat
  BY <1>0
<1>2. ASSUME NEW k \in i + 1 .. n PROVE cut[i + 1] <= cut[k] /\ cut[k] \in Nat
  <2>1. k \in i .. n
    OBVIOUS
  <2>2. cut[k] \in Nat
    BY <1>0, <2>1
  <2>3. k = i + 1 \/ i + 1 < k
    OBVIOUS
  <2> QED BY <1>0, <1>1, <2>1, <2>2, <2>3
<1>3. \A k \in i + 1 .. n : c[k] = cut[k] - cut[i + 1]
  BY DEF Shift
<1>4. \A k \in i + 1 .. n : cut[k] - cut[i + 1] \in Nat
  BY <1>1, <1>2
<1>5. c \in [i + 1 .. n -> Nat]
  BY <1>4 DEF Shift
<1>6. c[i + 1] = 0
  BY <1>1, <1>3
<1>7. ASSUME NEW j \in i + 1 .. n, NEW k \in i + 1 .. n, j < k PROVE c[j] < c[k]
  <2>1. j \in i .. n /\ k \in i .. n
    OBVIOUS
  <2>2. cut[j] < cut[k]
    BY <1>0, <1>7, <2>1
  <2> QED BY <1>1, <1>2, <1>3, <2>2
<1>8. Increasing(i + 1, n, c)
  BY <1>5, <1>6, <1>7 DEF Increasing
<1> QED BY <1>1, <1>2, <1>3, <1>8

(* A frame more is on its way after those that were.                       *)
LEMMA Appended ==
    ASSUME WsTypes, ~ ended, NEW i \in 0 .. Len(asked), NEW cut, Cuts(i, cut),
           NEW f \in Asks, asked' = Append(asked, f), NEW key \in KeysOf(masks),
           stream' = stream \o WireOf(masks, f, key), masks' = masks
    PROVE  Transit(i)'
<1> DEFINE n == Len(asked)
           w == WireOf(masks, f, key)
<1>1. n \in Nat /\ Len(asked') = n + 1 /\ asked'[n + 1] = f /\ \A k \in 1 .. n : asked'[k] = asked[k]
  BY LenProperties, AppendProperties DEF WsTypes
<1>2. w \in Seq(Pieces) /\ Len(w) \in Nat \ {0}
  BY Encodes DEF WsTypes
<1>3. /\ cut \in [i .. n -> Nat] /\ cut[i] = 0 /\ \A j, k \in i .. n : j < k => cut[j] < cut[k]
      /\ Len(stream) = cut[n] /\ Len(stream) \in Nat
  BY LenProperties DEF Cuts, WsTypes
<1>4. /\ Len(stream') = cut[n] + Len(w)
      /\ \A p \in 1 .. Len(stream) : stream'[p] = stream[p]
      /\ \A p \in 1 .. Len(w) : stream'[cut[n] + p] = w[p]
  <2> HIDE DEF w
  <2>1. stream' = stream \o w /\ stream \in Seq(Pieces)
    BY DEF w, WsTypes
  <2>2. /\ Len(stream \o w) = Len(stream) + Len(w)
        /\ \A p \in 1 .. Len(stream) : (stream \o w)[p] = stream[p]
        /\ \A p \in 1 .. Len(w) : (stream \o w)[Len(stream) + p] = w[p]
    BY <1>2, <2>1, Joint
  <2> QED BY <1>3, <2>1, <2>2
<1> HIDE DEF w
<1>0. PICK c : c = Grow(i, n, cut, Len(w))
  OBVIOUS
<1>5. /\ c \in [i .. n + 1 -> Nat] /\ c[i] = 0 /\ c[n + 1] = cut[n] + Len(w)
      /\ \A k \in i .. n : c[k] = cut[k] /\ cut[k] <= cut[n] /\ cut[k] \in Nat
      /\ \A j, k \in i .. n + 1 : j < k => c[j] < c[k]
  <2>1. n \in Nat /\ i \in 0 .. n
    BY <1>1
  <2>2. Increasing(i, n, cut)
    BY <1>3 DEF Increasing
  <2>3. /\ Increasing(i, n + 1, c) /\ c[n + 1] = cut[n] + Len(w)
        /\ \A k \in i .. n : c[k] = cut[k] /\ cut[k] <= cut[n] /\ cut[k] \in Nat
    <3>1. /\ Increasing(i, n + 1, Grow(i, n, cut, Len(w))) /\ Grow(i, n, cut, Len(w))[n + 1] = cut[n] + Len(w)
          /\ \A k \in i .. n : Grow(i, n, cut, Len(w))[k] = cut[k] /\ cut[k] <= cut[n] /\ cut[k] \in Nat
      <4> HIDE DEF n
      <4> QED BY <1>2, <2>1, <2>2, CutsGrow
    <3> QED BY <1>0, <3>1
  <2> QED BY <2>3 DEF Increasing
<1>6. i \in Nat /\ i <= n
  BY <1>1
<1>9. ASSUME NEW k \in i + 1 .. n + 1
      PROVE  \E x \in KeysOf(masks) :
                /\ c[k] = c[k - 1] + Len(WireOf(masks, asked'[k], x))
                /\ \A p \in 1 .. Len(WireOf(masks, asked'[k], x)) :
                       c[k - 1] + p <= Len(stream') =>
                          stream'[c[k - 1] + p] = WireOf(masks, asked'[k], x)[p]
  <2>1. CASE k = n + 1
    <3>1. WireOf(masks, asked'[k], key) = w
      BY <1>1, <2>1 DEF w
    <3>2. k - 1 = n /\ n \in i .. n
      BY <1>1, <1>6, <2>1
    <3>3. c[k - 1] = cut[n] /\ c[k] = cut[n] + Len(w)
      BY <1>5, <2>1, <3>2
    <3>4. \A p \in 1 .. Len(w) : stream'[c[k - 1] + p] = w[p]
      BY <1>4, <3>3
    <3> QED BY <3>1, <3>3, <3>4
  <2>2. CASE k <= n
    <3>1. k \in i + 1 .. n /\ k - 1 \in i .. n /\ k \in i .. n /\ k \in 1 .. n
      BY <1>1, <2>2
    <3>2. PICK x \in KeysOf(masks) :
             /\ cut[k] = cut[k - 1] + Len(WireOf(masks, asked[k], x))
             /\ \A p \in 1 .. Len(WireOf(masks, asked[k], x)) :
                    cut[k - 1] + p <= Len(stream) => stream[cut[k - 1] + p] = WireOf(masks, asked[k], x)[p]
      BY <3>1 DEF Cuts, Carried
    <3> DEFINE v == WireOf(masks, asked[k], x)
    <3>3. asked[k] \in Asks
      BY <3>1, ElementOfSeq DEF WsTypes
    <3>4. Len(v) \in Nat /\ WireOf(masks, asked'[k], x) = v
      BY <1>1, <3>1, <3>3, Encodes DEF WsTypes
    <3>5. c[k] = cut[k] /\ c[k - 1] = cut[k - 1] /\ cut[k] \in Nat /\ cut[k - 1] \in Nat /\ cut[k] <= cut[n]
      BY <1>5, <3>1
    <3> HIDE DEF v
    <3>6. cut[k] = cut[k - 1] + Len(v)
          /\ \A p \in 1 .. Len(v) : cut[k - 1] + p <= Len(stream) => stream[cut[k - 1] + p] = v[p]
      BY <3>2 DEF v
    <3>7. ASSUME NEW p \in 1 .. Len(v) PROVE stream'[cut[k - 1] + p] = v[p]
      <4>1. cut[k - 1] + p \in 1 .. Len(stream)
        BY <1>3, <3>4, <3>5, <3>6
      <4> QED BY <1>4, <3>6, <4>1
    <3>8. /\ c[k] = c[k - 1] + Len(v)
          /\ \A p \in 1 .. Len(v) : c[k - 1] + p <= Len(stream') => stream'[c[k - 1] + p] = v[p]
      BY <3>5, <3>6, <3>7
    <3> QED BY <3>4, <3>8
  <2>3. k = n + 1 \/ k <= n
    BY <1>1, <1>6
  <2> QED BY <2>1, <2>2, <2>3
<1>10. Cuts(i, c)'
  <2>1. Len(stream') = c[Len(asked')]
    BY <1>1, <1>4, <1>5
  <2>2. Len(stream') \in Nat
    BY <1>2, <1>3, <1>4
  <2>3. \A k \in i + 1 .. Len(asked') : \E x \in KeysOf(masks') :
           /\ c[k] = c[k - 1] + Len(WireOf(masks', asked'[k], x))
           /\ \A p \in 1 .. Len(WireOf(masks', asked'[k], x)) :
                  c[k - 1] + p <= Len(stream') =>
                     stream'[c[k - 1] + p] = WireOf(masks', asked'[k], x)[p]
    <3>1. masks' = masks /\ Len(asked') = n + 1
      BY <1>1
    <3> TAKE k \in i + 1 .. Len(asked')
    <3>2. k \in i + 1 .. n + 1
      BY <3>1
    <3>3. PICK x \in KeysOf(masks) :
             /\ c[k] = c[k - 1] + Len(WireOf(masks, asked'[k], x))
             /\ \A p \in 1 .. Len(WireOf(masks, asked'[k], x)) :
                    c[k - 1] + p <= Len(stream') =>
                       stream'[c[k - 1] + p] = WireOf(masks, asked'[k], x)[p]
      BY <1>9, <3>2
    <3>4. /\ x \in KeysOf(masks')
          /\ WireOf(masks', asked'[k], x) = WireOf(masks, asked'[k], x)
      BY <3>1
    <3> HIDE <3>1, <3>2
    <3> QED BY <3>3, <3>4
  <2>4. /\ c \in [i .. Len(asked') -> Nat] /\ c[i] = 0
        /\ \A j, k \in i .. Len(asked') : j < k => c[j] < c[k]
    BY <1>1, <1>5
  <2>5. Len(stream') <= c[Len(asked')]
    BY <2>1, <2>2
  <2> QED BY <2>1, <2>3, <2>4, <2>5 DEF Cuts, Carried
<1> QED BY <1>10 DEF Transit

(* What comes first on the stream is the frame after those read.           *)
LEMMA First ==
    ASSUME WsTypes, NEW i \in 0 .. Len(asked), NEW cut, Cuts(i, cut), stream # <<>>
    PROVE  /\ i + 1 \in 1 .. Len(asked) /\ asked[i + 1] \in Asks /\ Increasing(i, Len(asked), cut)
           /\ i + 1 = Len(asked) => Len(stream) <= cut[i + 1]
           /\ \E key \in KeysOf(masks) :
                 /\ cut[i + 1] = Len(WireOf(masks, asked[i + 1], key))
                 /\ \A p \in 1 .. Len(WireOf(masks, asked[i + 1], key)) :
                        p <= Len(stream) => stream[p] = WireOf(masks, asked[i + 1], key)[p]
<1> DEFINE n == Len(asked)
<1>1. n \in Nat /\ Len(stream) \in Nat \ {0}
  BY LenProperties, EmptySeq DEF WsTypes
<1>2. /\ cut \in [i .. n -> Nat] /\ cut[i] = 0
      /\ \A j, k \in i .. n : j < k => cut[j] < cut[k]
      /\ Len(stream) <= cut[n]
  BY DEF Cuts
<1>3. i # n
  BY <1>1, <1>2
<1>4. i + 1 \in 1 .. n /\ i + 1 \in i + 1 .. n /\ (i + 1) - 1 = i /\ i \in Nat
  BY <1>1, <1>3
<1>5. asked[i + 1] \in Asks
  BY <1>4, ElementOfSeq DEF WsTypes
<1>6. PICK key \in KeysOf(masks) :
         /\ cut[i + 1] = cut[(i + 1) - 1] + Len(WireOf(masks, asked[i + 1], key))
         /\ Carried(cut[(i + 1) - 1], WireOf(masks, asked[i + 1], key))
  BY <1>4 DEF Cuts
<1> DEFINE w == WireOf(masks, asked[i + 1], key)
<1>7. w \in Seq(Pieces) /\ Len(w) \in Nat
  BY <1>5, Encodes DEF WsTypes
<1> HIDE DEF w
<1>8. cut[i + 1] = Len(w) /\ Carried(0, w)
  <2>1. cut[i + 1] = cut[(i + 1) - 1] + Len(w) /\ Carried(cut[(i + 1) - 1], w)
    BY <1>6 DEF w
  <2>2. cut[(i + 1) - 1] = 0
    BY <1>2, <1>4
  <2> QED BY <1>7, <2>1, <2>2
<1>9. ASSUME NEW p \in 1 .. Len(w), p <= Len(stream) PROVE stream[p] = w[p]
  <2>1. 0 + p = p
    BY <1>7
  <2> QED BY <1>8, <1>9, <2>1 DEF Carried
<1>10. Increasing(i, n, cut)
  BY <1>2 DEF Increasing
<1>11. i + 1 = n => Len(stream) <= cut[i + 1]
  BY <1>2
<1>12. /\ cut[i + 1] = Len(w)
       /\ \A p \in 1 .. Len(w) : p <= Len(stream) => stream[p] = w[p]
  BY <1>8, <1>9
<1> QED BY <1>4, <1>5, <1>10, <1>11, <1>12 DEF w

LEMMA NotMasked ==
    ASSUME NEW d \in Bytes
    PROVE  Masked(d, <<0>>) = d
<1>1. Len(d) \in Nat /\ DOMAIN d = 1 .. Len(d) /\ d = [i \in 1 .. Len(d) |-> d[i]]
  BY LenProperties DEF Bytes
<1>2. ASSUME NEW i \in 1 .. Len(d) PROVE (d[i] + <<0>>[((i - 1) % Len(<<0>>)) + 1]) % 2 = d[i]
  <2>1. Len(<<0>>) = 1 /\ <<0>>[1] = 0
    OBVIOUS
  <2>2. ((i - 1) % 1) + 1 = 1
    BY <1>1
  <2>3. d[i] \in {0, 1}
    BY <1>1, ElementOfSeq DEF Bytes
  <2>4. (d[i] + 0) % 2 = d[i]
    BY <2>3
  <2> QED BY <2>1, <2>2, <2>4
<1> QED BY <1>1, <1>2 DEF Masked

(* A ping is one piece.                                                    *)
LEMMA FirstPing ==
    ASSUME WsTypes, NEW i \in 0 .. Len(asked), NEW cut, Cuts(i, cut), stream # <<>>,
           stream[1].opcode = "PING"
    PROVE  asked[i + 1].opcode = "PING" /\ cut[i + 1] = 1
<1> DEFINE f == asked[i + 1]
<1>1. Len(stream) \in Nat \ {0}
  BY EmptySeq DEF WsTypes
<1>2. f \in Asks
  BY First
<1>3. PICK key \in KeysOf(masks) :
         /\ cut[i + 1] = Len(WireOf(masks, f, key))
         /\ \A p \in 1 .. Len(WireOf(masks, f, key)) :
                p <= Len(stream) => stream[p] = WireOf(masks, f, key)[p]
  BY First
<1>4. Len(WireOf(masks, f, key)) \in Nat \ {0}
  BY <1>2, Encodes DEF WsTypes
<1>5. stream[1] = WireOf(masks, f, key)[1]
  BY <1>1, <1>3, <1>4
<1>6. f.opcode = "PING"
  <2> SUFFICES ASSUME f.opcode # "PING" PROVE FALSE
    OBVIOUS
  <2>1. f.opcode \in Codes /\ f.data \in Bytes /\ f.fin \in BOOLEAN
    BY <1>2 DEF Asks
  <2>2. Encoded(masks, f.opcode, f.data, f.fin, key)[1] = WSFrameHead(f.opcode, f.fin, masks, Len(f.data))
    BY <2>1, WireFacts DEF WsTypes
  <2>3. stream[1] = WSFrameHead(f.opcode, f.fin, masks, Len(f.data))
    BY <1>5, <2>2 DEF WireOf
  <2> QED BY <2>3 DEF WSFrameHead
<1> QED BY <1>3, <1>6, PingFacts DEF WireOf

(* A frame says how it is masked and how long it is; once its data is      *)
(* there the data is what was asked for.                                   *)
LEMMA FirstFrame ==
    ASSUME WsTypes, NEW i \in 0 .. Len(asked), NEW cut, Cuts(i, cut), stream # <<>>,
           stream[1].opcode # "PING", NEW f, f = asked[i + 1]
    PROVE  /\ f.opcode = stream[1].opcode /\ f.fin = stream[1].fin /\ stream[1].mask = masks
           /\ KeyAt \in {2, 3} /\ DataAt \in {KeyAt, KeyAt + 1}
           /\ Len(stream) >= KeyAt - 1 => length = Len(f.data)
           /\ cut[i + 1] = DataAt - (IF f.data = <<>> THEN 1 ELSE 0)
           /\ f.data # <<>> /\ Len(stream) >= DataAt =>
                 f.data = IF stream[1].mask THEN Unmasked(stream[DataAt], stream[KeyAt]) ELSE stream[DataAt]
<1>1. Len(stream) \in Nat \ {0}
  BY EmptySeq DEF WsTypes
<1>2. f \in Asks
  BY First
<1>3. PICK key \in KeysOf(masks) :
         /\ cut[i + 1] = Len(WireOf(masks, f, key))
         /\ \A p \in 1 .. Len(WireOf(masks, f, key)) :
                p <= Len(stream) => stream[p] = WireOf(masks, f, key)[p]
  BY First
<1>4. Len(WireOf(masks, f, key)) \in Nat \ {0}
  BY <1>2, Encodes DEF WsTypes
<1>5. stream[1] = WireOf(masks, f, key)[1]
  BY <1>1, <1>3, <1>4
<1>6. f.opcode # "PING"
  BY <1>5, PingFacts DEF WireOf
<1> DEFINE w == Encoded(masks, f.opcode, f.data, f.fin, key)
           h == HeadLength(Len(f.data))
<1>7. f.opcode \in Codes /\ f.data \in Bytes /\ f.fin \in BOOLEAN
  BY <1>2 DEF Asks
<1>8. Len(f.data) \in Nat
  BY <1>7, LenProperties DEF Bytes
<1>9. WireOf(masks, f, key) = w
  BY <1>6 DEF WireOf
<1>10. /\ h \in {1, 2} /\ KeyLength(masks) \in {0, 1}
       /\ Len(w) = h + KeyLength(masks) + (IF f.data = <<>> THEN 0 ELSE 1)
       /\ w[1] = WSFrameHead(f.opcode, f.fin, masks, Len(f.data))
       /\ h = 2 => w[2] = Len(f.data)
       /\ masks => w[h + 1] = key
       /\ f.data # <<>> => w[h + KeyLength(masks) + 1] = Masked(f.data, key)
  <2>1. masks \in BOOLEAN
    BY DEF WsTypes
  <2>2. w = Encoded(masks, f.opcode, f.data, f.fin, key) /\ h = HeadLength(Len(f.data))
    OBVIOUS
  <2> HIDE DEF w, h
  <2> QED BY <1>7, <2>1, <2>2, WireFacts, SMTT(30)
<1>11. /\ stream[1].opcode = f.opcode /\ stream[1].fin = f.fin /\ stream[1].mask = masks
       /\ stream[1].bits = Bits(Len(f.data))
       /\ stream[1].payload = IF Len(f.data) < Short THEN Len(f.data) ELSE 0
  BY <1>5, <1>9, <1>10 DEF WSFrameHead
<1>12. KeyAt = h + 1
  BY <1>11 DEF KeyAt, HeadLength
<1> HIDE DEF w, h
<1>13. DataAt = h + KeyLength(masks) + 1
  BY <1>10, <1>11, <1>12 DEF DataAt, KeyLength
<1>14. \A p \in 1 .. Len(w) : p <= Len(stream) => stream[p] = w[p]
  BY <1>3, <1>9
<1>15. ASSUME Len(stream) >= KeyAt - 1 PROVE length = Len(f.data)
  <2>1. CASE stream[1].bits = 7
    BY <1>8, <1>11, <2>1, ExtendedFacts DEF length
  <2>2. CASE stream[1].bits # 7
    <3>1. h = 2
      BY <1>11, <2>2 DEF h, HeadLength
    <3>2. 2 \in 1 .. Len(w) /\ 2 <= Len(stream)
      BY <1>1, <1>10, <1>12, <1>15, <3>1
    <3>3. stream[2] = Len(f.data)
      BY <1>10, <1>14, <3>1, <3>2
    <3> QED BY <2>2, <3>3 DEF length
  <2> QED BY <2>1, <2>2
<1>16. cut[i + 1] = DataAt - (IF f.data = <<>> THEN 1 ELSE 0)
  <2>1. cut[i + 1] = Len(w)
    BY <1>3, <1>9
  <2> QED BY <1>10, <1>13, <2>1
<1>17. ASSUME f.data # <<>>, Len(stream) >= DataAt
       PROVE  f.data = IF stream[1].mask THEN Unmasked(stream[DataAt], stream[KeyAt]) ELSE stream[DataAt]
  <2>1. DataAt \in 1 .. Len(w) /\ DataAt <= Len(stream) /\ KeyAt \in 1 .. Len(w) /\ KeyAt <= Len(stream)
    BY <1>1, <1>10, <1>12, <1>13, <1>17
  <2>2. stream[DataAt] = Masked(f.data, key)
    BY <1>10, <1>13, <1>14, <1>17, <2>1
  <2>3. CASE masks
    <3>1. stream[KeyAt] = key
      BY <1>10, <1>12, <1>14, <2>1, <2>3
    <3>2. Masked(Masked(f.data, key), key) = f.data
      BY <1>7, KeyFacts, MaskedTwice DEF WsTypes
    <3> QED BY <1>11, <2>2, <2>3, <3>1, <3>2 DEF Unmasked
  <2>4. CASE ~ masks
    <3>1. key = <<0>>
      BY <2>4 DEF KeysOf
    <3> QED BY <1>7, <1>11, <2>2, <2>4, <3>1, NotMasked
  <2> QED BY <2>3, <2>4
<1>18. KeyAt \in {2, 3} /\ DataAt \in {KeyAt, KeyAt + 1}
  BY <1>10, <1>12, <1>13
<1> QED BY <1>11, <1>15, <1>16, <1>17, <1>18

(* What has been read is the first frame, whole.                           *)
LEMMA Consumed ==
    ASSUME WsTypes, NEW i \in 0 .. Len(asked), NEW cut, Cuts(i, cut), i + 1 \in 1 .. Len(asked),
           cut[i + 1] <= Len(stream), stream' = SubSeq(stream, cut[i + 1] + 1, Len(stream)),
           asked' = asked, ended' = ended, masks' = masks, NEW h, h = i + 1
    PROVE  Transit(h)'
<1> DEFINE n == Len(asked)
<1>1. n \in Nat /\ Len(stream) \in Nat /\ i \in 0 .. n - 1
  BY LenProperties DEF WsTypes
<1>2. PICK c : c = Shift(i, n, cut)
  OBVIOUS
<1>3. /\ cut \in [i .. n -> Nat] /\ cut[i] = 0
      /\ \A j, k \in i .. n : j < k => cut[j] < cut[k]
      /\ Len(stream) <= cut[n] /\ (~ ended => Len(stream) = cut[n])
  BY DEF Cuts
<1>4. Increasing(i, n, cut)
  BY <1>3 DEF Increasing
<1>5. /\ Increasing(i + 1, n, c) /\ cut[i + 1] \in Nat
      /\ \A k \in i + 1 .. n : c[k] = cut[k] - cut[i + 1] /\ cut[k] \in Nat /\ cut[i + 1] <= cut[k]
  <2>1. /\ Increasing(i + 1, n, Shift(i, n, cut)) /\ cut[i + 1] \in Nat
        /\ \A k \in i + 1 .. n :
              Shift(i, n, cut)[k] = cut[k] - cut[i + 1] /\ cut[k] \in Nat /\ cut[i + 1] <= cut[k]
    <3> HIDE DEF n
    <3> QED BY <1>1, <1>4, CutsShift
  <2> QED BY <1>2, <2>1
<1> DEFINE from == cut[i + 1]
<1>6. /\ Len(stream') = Len(stream) - from
      /\ \A p \in 1 .. Len(stream) - from : stream'[p] = stream[from + p]
  <2>1. \A p \in from + 1 .. Len(stream) : stream[p] \in Pieces
    <3>1. \A p \in from + 1 .. Len(stream) : p \in 1 .. Len(stream)
      BY <1>1, <1>5
    <3> QED BY <3>1, ElementOfSeq DEF WsTypes
  <2>2. from + 1 \in Int /\ Len(stream) \in Int /\ from <= Len(stream)
    BY <1>1, <1>5
  <2> HIDE DEF from
  <2>3. /\ Len(SubSeq(stream, from + 1, Len(stream))) =
              IF from + 1 <= Len(stream) THEN Len(stream) - (from + 1) + 1 ELSE 0
        /\ \A p \in 1 .. Len(stream) - (from + 1) + 1 :
              SubSeq(stream, from + 1, Len(stream))[p] = stream[(from + 1) + p - 1]
    BY <2>1, <2>2, SubSeqProperties
  <2>4. stream' = SubSeq(stream, from + 1, Len(stream))
    BY DEF from
  <2>5. from \in Int
    BY <1>5 DEF from
  <2>6. Len(stream') = Len(stream) - from
    <3>1. Len(stream') = IF from + 1 <= Len(stream) THEN Len(stream) - (from + 1) + 1 ELSE 0
      BY <2>3, <2>4
    <3>2. Len(stream) - (from + 1) + 1 = Len(stream) - from
      BY <2>2, <2>5
    <3>3. ~ (from + 1 <= Len(stream)) => Len(stream) - from = 0
      BY <2>2, <2>5
    <3> QED BY <3>1, <3>2, <3>3
  <2>7. ASSUME NEW p \in 1 .. Len(stream) - from PROVE stream'[p] = stream[from + p]
    <3>1. (from + 1) + p - 1 = from + p /\ p \in 1 .. Len(stream) - (from + 1) + 1
      BY <2>2, <2>5
    <3> QED BY <2>3, <2>4, <3>1
  <2> QED BY <2>6, <2>7
<1>7. ASSUME NEW k \in (i + 1) + 1 .. n
      PROVE  \E x \in KeysOf(masks) :
                /\ c[k] = c[k - 1] + Len(WireOf(masks, asked[k], x))
                /\ \A p \in 1 .. Len(WireOf(masks, asked[k], x)) :
                       c[k - 1] + p <= Len(stream') =>
                          stream'[c[k - 1] + p] = WireOf(masks, asked[k], x)[p]
  <2>1. k \in i + 1 .. n /\ k - 1 \in i + 1 .. n /\ k \in 1 .. n
    BY <1>1
  <2>2. PICK x \in KeysOf(masks) :
           /\ cut[k] = cut[k - 1] + Len(WireOf(masks, asked[k], x))
           /\ \A p \in 1 .. Len(WireOf(masks, asked[k], x)) :
                  cut[k - 1] + p <= Len(stream) => stream[cut[k - 1] + p] = WireOf(masks, asked[k], x)[p]
    BY <2>1 DEF Cuts, Carried
  <2> DEFINE v == WireOf(masks, asked[k], x)
  <2>3. Len(v) \in Nat
    BY <2>1, ElementOfSeq, Encodes DEF WsTypes
  <2> HIDE DEF v
  <2>4. cut[k] = cut[k - 1] + Len(v)
        /\ \A p \in 1 .. Len(v) : cut[k - 1] + p <= Len(stream) => stream[cut[k - 1] + p] = v[p]
    BY <2>2 DEF v
  <2>5. /\ c[k] = cut[k] - from /\ c[k - 1] = cut[k - 1] - from /\ from <= cut[k - 1]
        /\ cut[k] \in Nat /\ cut[k - 1] \in Nat /\ from \in Nat
    BY <1>5, <2>1
  <2> HIDE DEF from
  <2>6. c[k] = c[k - 1] + Len(v)
    BY <2>3, <2>4, <2>5
  <2>7. ASSUME NEW p \in 1 .. Len(v), c[k - 1] + p <= Len(stream') PROVE stream'[c[k - 1] + p] = v[p]
    <3>1. c[k - 1] \in Nat /\ p \in Nat \ {0} /\ c[k - 1] = cut[k - 1] - from /\ cut[k - 1] \in Nat /\ from \in Nat
      BY <2>3, <2>5, SMTT(30)
    <3>2. c[k - 1] + p <= Len(stream) - from
      BY <1>6, <2>7
    <3>3. PICK u, y, z : u = cut[k - 1] /\ y = c[k - 1] /\ z = from
      OBVIOUS
    <3>4. /\ u \in Nat /\ y \in Nat /\ z \in Nat /\ p \in Nat \ {0} /\ y = u - z
          /\ y + p <= Len(stream) - z /\ Len(stream) \in Nat
      BY <1>1, <3>1, <3>2, <3>3
    <3>5. y + p \in 1 .. Len(stream) - z /\ z + (y + p) = u + p /\ u + p <= Len(stream)
      BY <3>4
    <3>6. stream'[y + p] = stream[u + p]
      BY <1>6, <3>3, <3>5
    <3> QED BY <2>4, <3>3, <3>5, <3>6
  <2> QED BY <2>6, <2>7 DEF v
<1>8. Cuts(h, c)'
  <2>1. /\ c \in [i + 1 .. n -> Nat] /\ c[i + 1] = 0
        /\ \A j, k \in i + 1 .. n : j < k => c[j] < c[k]
    BY <1>5 DEF Increasing
  <2>2. n \in i + 1 .. n
    BY <1>1
  <2>3. c[n] = cut[n] - from /\ cut[n] \in Nat /\ from \in Nat
    BY <1>5, <2>2
  <2> HIDE DEF from
  <2>4. Len(stream') <= c[n] /\ (~ ended' => Len(stream') = c[n])
    <3>1. PICK a, b, u, y, z : a = Len(stream) /\ b = Len(stream') /\ u = cut[n] /\ y = c[n] /\ z = from
      OBVIOUS
    <3>2. a \in Nat /\ u \in Nat /\ z \in Nat /\ y = u - z /\ b = a - z /\ a <= u /\ (~ ended => a = u)
      BY <1>1, <1>3, <1>6, <2>3, <3>1
    <3>3. b <= y /\ (~ ended => b = y)
      BY <3>2
    <3> QED BY <3>1, <3>3
  <2>5. /\ c \in [h .. Len(asked') -> Nat] /\ c[h] = 0
        /\ \A q, k \in h .. Len(asked') : q < k => c[q] < c[k]
    BY <2>1
  <2>6. ASSUME NEW k \in h + 1 .. Len(asked')
        PROVE  \E x \in KeysOf(masks') :
                /\ c[k] = c[k - 1] + Len(WireOf(masks', asked'[k], x))
                /\ \A p \in 1 .. Len(WireOf(masks', asked'[k], x)) :
                       c[k - 1] + p <= Len(stream') =>
                          stream'[c[k - 1] + p] = WireOf(masks', asked'[k], x)[p]
    <3>1. k \in (i + 1) + 1 .. n /\ masks' = masks /\ asked' = asked
      OBVIOUS
    <3>2. PICK x \in KeysOf(masks) :
             /\ c[k] = c[k - 1] + Len(WireOf(masks, asked[k], x))
             /\ \A p \in 1 .. Len(WireOf(masks, asked[k], x)) :
                    c[k - 1] + p <= Len(stream') =>
                       stream'[c[k - 1] + p] = WireOf(masks, asked[k], x)[p]
      BY <1>7, <3>1
    <3> QED BY <3>1, <3>2
  <2> QED BY <2>4, <2>5, <2>6 DEF Cuts, Carried
<1> QED BY <1>8 DEF Transit

(* Of what was on its way the beginning still is.                          *)
LEMMA Broken ==
    ASSUME WsTypes, NEW i \in 0 .. Len(asked), NEW cut, Cuts(i, cut), NEW m \in 0 .. Len(stream),
           stream' = SubSeq(stream, 1, m), asked' = asked, ended' = TRUE, masks' = masks
    PROVE  Transit(i)'
<1>1. Len(stream) \in Nat /\ m \in Nat /\ m <= Len(stream) /\ Len(asked) \in Nat
  BY LenProperties DEF WsTypes
<1>2. Len(stream') = m /\ \A p \in 1 .. m : stream'[p] = stream[p]
  <2>1. \A p \in 1 .. m : stream[p] \in Pieces
    <3>1. \A p \in 1 .. m : p \in 1 .. Len(stream)
      BY <1>1
    <3> QED BY <3>1, ElementOfSeq DEF WsTypes
  <2>2. /\ Len(SubSeq(stream, 1, m)) = IF 1 <= m THEN m - 1 + 1 ELSE 0
        /\ \A p \in 1 .. m - 1 + 1 : SubSeq(stream, 1, m)[p] = stream[1 + p - 1]
    BY <1>1, <2>1, SubSeqProperties
  <2>3. Len(stream') = m
    BY <1>1, <2>2
  <2>4. ASSUME NEW p \in 1 .. m PROVE stream'[p] = stream[p]
    <3>1. p \in 1 .. m - 1 + 1 /\ 1 + p - 1 = p
      BY <1>1
    <3> QED BY <2>2, <3>1
  <2> QED BY <2>3, <2>4
<1>3. /\ cut \in [i .. Len(asked) -> Nat] /\ Len(stream) <= cut[Len(asked)]
      /\ Len(asked) \in i .. Len(asked)
  BY <1>1 DEF Cuts
<1>4. m <= cut[Len(asked)]
  <2>1. cut[Len(asked)] \in Nat
    BY <1>3
  <2> QED BY <1>1, <1>3, <2>1
<1>5. ASSUME NEW k \in i + 1 .. Len(asked)
      PROVE  \E x \in KeysOf(masks) :
                /\ cut[k] = cut[k - 1] + Len(WireOf(masks, asked[k], x))
                /\ \A p \in 1 .. Len(WireOf(masks, asked[k], x)) :
                       cut[k - 1] + p <= Len(stream') =>
                          stream'[cut[k - 1] + p] = WireOf(masks, asked[k], x)[p]
  <2>1. PICK x \in KeysOf(masks) :
           /\ cut[k] = cut[k - 1] + Len(WireOf(masks, asked[k], x))
           /\ \A p \in 1 .. Len(WireOf(masks, asked[k], x)) :
                  cut[k - 1] + p <= Len(stream) => stream[cut[k - 1] + p] = WireOf(masks, asked[k], x)[p]
    BY DEF Cuts, Carried
  <2> DEFINE v == WireOf(masks, asked[k], x)
  <2>2. k \in 1 .. Len(asked) /\ k - 1 \in i .. Len(asked)
    BY <1>1
  <2>3. Len(v) \in Nat /\ cut[k - 1] \in Nat
    <3>1. asked[k] \in Asks
      BY <2>2, ElementOfSeq DEF WsTypes
    <3>2. Len(v) \in Nat
      BY <3>1, Encodes DEF WsTypes
    <3> QED BY <1>3, <2>2, <3>2
  <2> HIDE DEF v
  <2>4. ASSUME NEW p \in 1 .. Len(v), cut[k - 1] + p <= Len(stream') PROVE stream'[cut[k - 1] + p] = v[p]
    <3>1. cut[k - 1] + p \in 1 .. m /\ cut[k - 1] + p <= Len(stream)
      BY <1>1, <1>2, <2>3, <2>4
    <3>2. stream[cut[k - 1] + p] = v[p]
      BY <2>1, <3>1 DEF v
    <3> QED BY <1>2, <3>1, <3>2
  <2> QED BY <2>1, <2>4 DEF v
<1>6. Cuts(i, cut)'
  <2>1. cut[i] = 0 /\ \A j, k \in i .. Len(asked) : j < k => cut[j] < cut[k]
    BY DEF Cuts
  <2>2. asked' = asked /\ masks' = masks /\ ended' = TRUE
    OBVIOUS
  <2>3. \A k \in i + 1 .. Len(asked') : \E x \in KeysOf(masks') :
           /\ cut[k] = cut[k - 1] + Len(WireOf(masks', asked'[k], x))
           /\ \A p \in 1 .. Len(WireOf(masks', asked'[k], x)) :
                  cut[k - 1] + p <= Len(stream') =>
                     stream'[cut[k - 1] + p] = WireOf(masks', asked'[k], x)[p]
    <3> TAKE k \in i + 1 .. Len(asked')
    <3>1. k \in i + 1 .. Len(asked)
      BY <2>2
    <3>2. PICK x \in KeysOf(masks) :
             /\ cut[k] = cut[k - 1] + Len(WireOf(masks, asked[k], x))
             /\ \A p \in 1 .. Len(WireOf(masks, asked[k], x)) :
                    cut[k - 1] + p <= Len(stream') =>
                       stream'[cut[k - 1] + p] = WireOf(masks, asked[k], x)[p]
      BY <1>5, <3>1
    <3>3. /\ x \in KeysOf(masks')
          /\ WireOf(masks', asked'[k], x) = WireOf(masks, asked[k], x)
      BY <2>2
    <3> QED BY <3>2, <3>3
  <2>4. /\ cut \in [i .. Len(asked') -> Nat] /\ cut[i] = 0
        /\ \A j, k \in i .. Len(asked') : j < k => cut[j] < cut[k]
    BY <1>3, <2>1, <2>2
  <2>5. Len(stream') <= cut[Len(asked')]
    BY <1>2, <1>4, <2>2
  <2> QED BY <2>2, <2>3, <2>4, <2>5 DEF Cuts, Carried
<1> QED BY <1>6 DEF Transit

-----------------------------------------------------------------------------
LEMMA LatestTypes ==
    ASSUME WsTypes
    PROVE  /\ Len(asked) \in Nat /\ Latest.message \in Texts /\ Latest.messages \in Seq(Texts)
           /\ Latest.pings \in Nat /\ Latest.open \in BOOLEAN
<1>1. Len(asked) \in Nat
  BY LenProperties DEF WsTypes
<1>2. CASE Len(asked) = 0
  <2>1. NotYet.message = NoMessage /\ NotYet.messages = <<>> /\ NotYet.pings = 0 /\ NotYet.open = FALSE
    BY DEF NotYet
  <2>2. NoMessage \in Texts /\ <<>> \in Seq(Texts)
    BY EmptySeq DEF NoMessage, Texts, Codes, Bytes
  <2> QED BY <1>1, <1>2, <2>1, <2>2 DEF Latest, AskedBy
<1>3. CASE Len(asked) # 0
  <2>1. asked[Len(asked)] \in Asks
    BY <1>1, <1>3, ElementOfSeq DEF WsTypes
  <2>2. Latest = asked[Len(asked)]
    BY <1>3 DEF Latest, AskedBy
  <2> QED BY <1>1, <2>1, <2>2 DEF Asks
<1> QED BY <1>2, <1>3

(* What is asked for is of its type and counted.                           *)
LEMMA AskedFor ==
    ASSUME WsTypes, LedgerInv, OrderInv, ~ ended, NEW f \in Asks, asked' = Append(asked, f),
           f.messages = Latest.messages \/ (\E x \in Texts : f.messages = Append(Latest.messages, x)),
           f.opcode = "PING" =>
              /\ f.open = Latest.open /\ f.message = Latest.message /\ f.messages = Latest.messages
              /\ f.pings = Latest.pings + 1,
           f.opcode # "PING" =>
              /\ f.open = ~ f.fin /\ f.pings = Latest.pings /\ f.message = Joined(Latest, f.opcode, f.data)
              /\ f.messages = IF f.fin THEN Append(Latest.messages, f.message) ELSE Latest.messages
              /\ f.data = <<>> => ended',
           f.open => f.message.opcode # "CONTINUE"
    PROVE  /\ asked' \in Seq(Asks) /\ LedgerInv' /\ OrderInv'
           /\ Len(asked') = Len(asked) + 1 /\ Len(asked) \in Nat
           /\ \A k \in 0 .. Len(asked) : AskedBy(k)' = AskedBy(k)
<1> DEFINE n == Len(asked)
<1>1. /\ n \in Nat /\ asked' \in Seq(Asks) /\ Len(asked') = n + 1 /\ asked'[n + 1] = f
      /\ \A k \in 1 .. n : asked'[k] = asked[k]
  BY LenProperties, AppendProperties DEF WsTypes
<1>2. ASSUME NEW k \in 0 .. n PROVE AskedBy(k)' = AskedBy(k)
  <2>1. k = 0 \/ k \in 1 .. n
    BY <1>1
  <2> QED BY <1>1, <2>1 DEF AskedBy
<1>3. ASSUME NEW k, k = n + 1 PROVE AskedBy(k)' = f
  BY <1>1, <1>3 DEF AskedBy
<1>4. LedgerInv'
  <2>1. ASSUME NEW k \in 1 .. n + 1 PROVE Counted(k)'
    <3>1. k - 1 \in 0 .. n
      BY <1>1
    <3>2. AskedBy(k - 1)' = AskedBy(k - 1)
      BY <1>2, <3>1
    <3>3. CASE k \in 1 .. n
      <4>1. Counted(k)
        BY <3>3 DEF LedgerInv
      <4>2. asked[k].opcode # "PING" => asked[k].data # <<>>
        BY <4>1 DEF Counted
      <4> QED BY <1>1, <3>2, <3>3, <4>1, <4>2 DEF Counted, Joined
    <3>4. CASE k = n + 1
      <4>1. asked'[k] = f /\ AskedBy(k - 1)' = Latest /\ k = Len(asked')
        BY <1>1, <3>2, <3>4 DEF Latest
      <4> QED BY <4>1 DEF Counted, Joined
    <3> QED BY <1>1, <3>3, <3>4
  <2> QED BY <1>1, <2>1 DEF LedgerInv
<1>5. OrderInv'
  <2>1. ASSUME NEW j \in 0 .. n + 1, NEW k \in 0 .. n + 1, j <= k
        PROVE  Extends(AskedBy(k)'.messages, AskedBy(j)'.messages)
    <3>1. CASE k \in 0 .. n
      <4>1. j \in 0 .. n
        BY <1>1, <2>1, <3>1
      <4> QED BY <1>2, <2>1, <3>1, <4>1 DEF OrderInv
    <3>2. CASE j = n + 1
      <4>1. k = n + 1 /\ AskedBy(k)'.messages = f.messages /\ f.messages \in Seq(Texts)
        BY <1>1, <1>3, <2>1, <3>2 DEF Asks
      <4>2. Len(f.messages) \in Nat
        BY <4>1, LenProperties
      <4> QED BY <3>2, <4>1, <4>2 DEF Extends
    <3>3. CASE k = n + 1 /\ j \in 0 .. n
      <4> DEFINE a == Latest.messages b == f.messages c == AskedBy(j).messages
      <4>1. Extends(a, c) /\ AskedBy(k)'.messages = b /\ AskedBy(j)'.messages = c
        BY <1>1, <1>2, <1>3, <3>3 DEF OrderInv, Latest
      <4>2. a \in Seq(Texts) /\ b \in Seq(Texts)
        BY LatestTypes DEF Asks
      <4>3. Len(a) <= Len(b) /\ \A p \in 1 .. Len(a) : b[p] = a[p]
        <5>1. CASE b = a
          BY <4>2, <5>1, LenProperties
        <5>2. CASE \E x \in Texts : b = Append(a, x)
          <6>1. PICK x \in Texts : b = Append(a, x)
            BY <5>2
          <6> HIDE DEF a, b
          <6> QED BY <4>2, <6>1, AppendProperties, LenProperties
        <5> QED BY <5>1, <5>2
      <4>4. Len(c) \in Nat
        <5>1. j = 0 \/ j \in 1 .. n
          BY <1>1, <3>3
        <5>2. CASE j = 0
          BY <5>2 DEF AskedBy, NotYet
        <5>3. CASE j \in 1 .. n
          <6>1. asked[j] \in Asks /\ AskedBy(j) = asked[j]
            BY <1>1, <5>3, ElementOfSeq DEF WsTypes, AskedBy
          <6>2. c \in Seq(Texts)
            BY <6>1 DEF Asks
          <6> QED BY <6>2, LenProperties
        <5> QED BY <5>1, <5>2, <5>3
      <4>5. Len(a) \in Nat /\ Len(b) \in Nat
        BY <4>2, LenProperties
      <4> HIDE DEF a, b, c
      <4>6. Extends(b, c)
        BY <4>1, <4>3, <4>4, <4>5 DEF Extends
      <4> QED BY <4>1, <4>6
    <3> QED BY <1>1, <3>1, <3>2, <3>3
  <2> QED BY <1>1, <2>1 DEF OrderInv
<1> QED BY <1>1, <1>2, <1>4, <1>5

(* Sending, whatever is sent.                                              *)
LEMMA Sent ==
    ASSUME WsInv, ~ ended, NEW f \in Asks, asked' = Append(asked, f), NEW key \in KeysOf(masks),
           stream' = stream \o WireOf(masks, f, key), ended' \in BOOLEAN,
           UNCHANGED <<masks, message, received, pongs, closed>>,
           LedgerInv', OrderInv', asked' \in Seq(Asks), Len(asked') = Len(asked) + 1, Len(asked) \in Nat,
           \A k \in 0 .. Len(asked) : AskedBy(k)' = AskedBy(k)
    PROVE  WsInv'
<1>1. WsTypes /\ ReceiverInv /\ ReasonInv
  BY DEF WsInv
<1>2. WsTypes'
  <2> DEFINE w == WireOf(masks, f, key)
  <2>1. w \in Seq(Pieces) /\ stream \in Seq(Pieces)
    BY <1>1, Encodes DEF WsTypes
  <2> HIDE DEF w
  <2>2. stream \o w \in Seq(Pieces)
    BY <2>1, Joint
  <2>3. stream' = stream \o w
    BY DEF w
  <2> QED BY <1>1, <2>2, <2>3 DEF WsTypes
<1>3. ReceiverInv'
  <2>1. PICK i \in 0 .. Len(asked) : At(i)
    BY <1>1 DEF ReceiverInv
  <2>2. AskedBy(i)' = AskedBy(i) /\ i \in 0 .. Len(asked')
    OBVIOUS
  <2>3. ASSUME ~ closed PROVE Transit(i)'
    <3>1. PICK cut : Cuts(i, cut)
      BY <2>1, <2>3 DEF At, Transit
    <3>2. masks' = masks
      OBVIOUS
    <3> QED BY <1>1, <3>1, <3>2, Appended
  <2>4. At(i)'
    BY <2>1, <2>2, <2>3 DEF At
  <2> QED BY <2>2, <2>4 DEF ReceiverInv
<1>4. ReasonInv'
  <2>1. CASE closed
    <3>1. PICK i \in DOMAIN asked : asked[i].opcode = "CLOSE" \/ Len(asked[i].message.data) >= MaxMessage
      BY <1>1, <2>1 DEF ReasonInv
    <3>2. DOMAIN asked = 1 .. Len(asked) /\ DOMAIN asked' = 1 .. Len(asked')
      BY <1>1, LenProperties DEF WsTypes
    <3>3. i \in DOMAIN asked' /\ asked'[i] = asked[i]
      BY <1>1, <3>2, AppendProperties DEF WsTypes
    <3> QED BY <3>1, <3>3 DEF ReasonInv
  <2>2. CASE ~ closed
    BY <2>2 DEF ReasonInv
  <2> QED BY <2>1, <2>2
<1> QED BY <1>2, <1>3, <1>4 DEF WsInv

LEMMA SendKeeps ==
    ASSUME WsInv, SendMessage
    PROVE  WsInv'
<1>1. WsTypes /\ LedgerInv /\ OrderInv
  BY DEF WsInv
<1>2. PICK d \in Payloads, fin \in BOOLEAN,
           op \in Types \cup {IF Latest.open THEN "CONTINUE" ELSE "CLOSE"} : Send(op, d, fin)
  BY DEF SendMessage
<1> DEFINE whole == Joined(Latest, op, d)
           f == [opcode |-> op, data |-> d, fin |-> fin, open |-> ~ fin, message |-> whole,
                 messages |-> IF fin THEN Append(Latest.messages, whole) ELSE Latest.messages,
                 pings |-> Latest.pings]
<1>3. /\ ~ ended /\ asked' = Append(asked, f) /\ ended' = (d = <<>>)
      /\ UNCHANGED <<masks, message, received, pongs, closed>>
      /\ \E key \in Keys_ : stream' = stream \o Wire(op, d, fin, key)
  BY <1>2 DEF Send
<1>4. /\ Len(asked) \in Nat /\ Latest.message \in Texts /\ Latest.messages \in Seq(Texts)
      /\ Latest.pings \in Nat /\ Latest.open \in BOOLEAN
  BY <1>1, LatestTypes
<1>5. op \in Codes /\ op # "PING" /\ d \in Bytes
  BY <1>2, WsAssumption DEF Codes, Bytes
<1>6. whole \in Texts /\ (whole.opcode = "CONTINUE" => Latest.open /\ Latest.message.opcode = "CONTINUE")
  <2>1. CASE Latest.open
    <3>1. whole = [opcode |-> Latest.message.opcode, data |-> Latest.message.data \o d]
      BY <2>1 DEF Joined
    <3>2. Latest.message.opcode \in Codes /\ Latest.message.data \in Bytes
      BY <1>4 DEF Texts
    <3>3. Latest.message.data \o d \in Bytes
      BY <1>5, <3>2, ConcatProperties DEF Bytes
    <3> QED BY <2>1, <3>1, <3>2, <3>3 DEF Texts
  <2>2. CASE ~ Latest.open
    <3>1. whole = [opcode |-> op, data |-> d] /\ op # "CONTINUE"
      BY <1>2, <2>2, WsAssumption DEF Joined
    <3> QED BY <1>5, <3>1 DEF Texts
  <2> QED BY <1>4, <2>1, <2>2
<1> HIDE DEF whole
<1>7. ~ (Latest.open /\ Latest.message.opcode = "CONTINUE")
  <2>1. CASE Len(asked) = 0
    BY <2>1 DEF Latest, AskedBy, NotYet
  <2>2. CASE Len(asked) # 0
    <3>1. Len(asked) \in 1 .. Len(asked) /\ Latest = asked[Len(asked)]
      BY <1>4, <2>2 DEF Latest, AskedBy
    <3> QED BY <1>1, <3>1 DEF LedgerInv, Counted
  <2> QED BY <2>1, <2>2
<1>8. Append(Latest.messages, whole) \in Seq(Texts)
  BY <1>4, <1>6, AppendProperties
<1>9. f \in Asks
  <2>1. (IF fin THEN Append(Latest.messages, whole) ELSE Latest.messages) \in Seq(Texts)
    BY <1>4, <1>8
  <2> QED BY <1>4, <1>5, <1>6, <2>1 DEF Asks
<1>10. /\ f.opcode = op /\ f.data = d /\ f.fin = fin /\ f.open = ~ fin /\ f.message = whole
       /\ f.messages = (IF fin THEN Append(Latest.messages, whole) ELSE Latest.messages)
       /\ f.pings = Latest.pings
  OBVIOUS
<1>11. PICK e : e = f
  OBVIOUS
<1> HIDE DEF f
<1>12. /\ asked' \in Seq(Asks) /\ LedgerInv' /\ OrderInv'
       /\ Len(asked') = Len(asked) + 1 /\ Len(asked) \in Nat
       /\ \A k \in 0 .. Len(asked) : AskedBy(k)' = AskedBy(k)
  <2>1. /\ e \in Asks /\ asked' = Append(asked, e) /\ ~ ended
        /\ e.opcode # "PING" /\ e.open = ~ e.fin /\ e.pings = Latest.pings
        /\ e.message = Joined(Latest, e.opcode, e.data)
        /\ e.messages = IF e.fin THEN Append(Latest.messages, e.message) ELSE Latest.messages
        /\ e.data = <<>> => ended'
        /\ e.open => e.message.opcode # "CONTINUE"
    BY <1>3, <1>5, <1>6, <1>7, <1>9, <1>10, <1>11 DEF whole
  <2>2. e.messages = Latest.messages \/ (\E x \in Texts : e.messages = Append(Latest.messages, x))
    BY <1>6, <1>10, <1>11
  <2> QED BY <1>1, <2>1, <2>2, AskedFor
<1>13. PICK key \in Keys_ : stream' = stream \o Wire(op, d, fin, key)
  BY <1>3
<1>14. /\ e \in Asks /\ asked' = Append(asked, e) /\ key \in KeysOf(masks)
       /\ stream' = stream \o WireOf(masks, e, key) /\ ended' \in BOOLEAN
  <2>1. e.opcode = op /\ e.opcode # "PING" /\ e.data = d /\ e.fin = fin /\ key \in KeysOf(masks)
    BY <1>5, <1>10, <1>11, <1>13, Sender
  <2>2. WireOf(masks, e, key) = Encoded(masks, op, d, fin, key)
    BY <2>1 DEF WireOf
  <2>3. WireOf(masks, e, key) = Wire(op, d, fin, key)
    BY <2>2, Sender
  <2> QED BY <1>3, <1>9, <1>11, <1>13, <2>1, <2>3
<1> QED BY <1>3, <1>12, <1>14, Sent

LEMMA PingKeeps ==
    ASSUME WsInv, WSPing
    PROVE  WsInv'
<1>1. WsTypes /\ LedgerInv /\ OrderInv
  BY DEF WsInv
<1> DEFINE f == [opcode |-> "PING", data |-> <<>>, fin |-> TRUE, open |-> Latest.open,
                 message |-> Latest.message, messages |-> Latest.messages, pings |-> Latest.pings + 1]
<1>2. /\ ~ ended /\ asked' = Append(asked, f) /\ stream' = stream \o PingWire
      /\ UNCHANGED <<masks, ended, message, received, pongs, closed>>
  BY DEF WSPing
<1>3. /\ Len(asked) \in Nat /\ Latest.message \in Texts /\ Latest.messages \in Seq(Texts)
      /\ Latest.pings \in Nat /\ Latest.open \in BOOLEAN
  BY <1>1, LatestTypes
<1>4. ~ (Latest.open /\ Latest.message.opcode = "CONTINUE")
  <2>1. CASE Len(asked) = 0
    BY <2>1 DEF Latest, AskedBy, NotYet
  <2>2. CASE Len(asked) # 0
    <3>1. Len(asked) \in 1 .. Len(asked) /\ Latest = asked[Len(asked)]
      BY <1>3, <2>2 DEF Latest, AskedBy
    <3> QED BY <1>1, <3>1 DEF LedgerInv, Counted
  <2> QED BY <2>1, <2>2
<1>5. f \in Asks
  BY <1>3, EmptySeq DEF Asks, Codes, Bytes
<1>6. /\ f.opcode = "PING" /\ f.open = Latest.open /\ f.message = Latest.message
      /\ f.messages = Latest.messages /\ f.pings = Latest.pings + 1
  OBVIOUS
<1>7. PICK e : e = f
  OBVIOUS
<1> HIDE DEF f
<1>8. /\ e \in Asks /\ asked' = Append(asked, e) /\ ~ ended
      /\ e.opcode = "PING" /\ e.open = Latest.open /\ e.message = Latest.message
      /\ e.messages = Latest.messages /\ e.pings = Latest.pings + 1
      /\ e.open => e.message.opcode # "CONTINUE"
  BY <1>2, <1>4, <1>5, <1>6, <1>7
<1>9. /\ asked' \in Seq(Asks) /\ LedgerInv' /\ OrderInv'
      /\ Len(asked') = Len(asked) + 1 /\ Len(asked) \in Nat
      /\ \A k \in 0 .. Len(asked) : AskedBy(k)' = AskedBy(k)
  BY <1>1, <1>8, AskedFor
<1>10. PICK key : key \in KeysOf(masks)
  BY <1>1, KeyExists DEF WsTypes
<1>11. stream' = stream \o WireOf(masks, e, key) /\ ended' \in BOOLEAN
  BY <1>1, <1>2, <1>8 DEF WireOf, WsTypes
<1> QED BY <1>2, <1>8, <1>9, <1>10, <1>11, Sent

-----------------------------------------------------------------------------
(* The receiver has read one frame more.                                   *)
LEMMA Received ==
    ASSUME WsInv, ~ closed, UNCHANGED <<masks, asked, ended, closed>>,
           NEW i \in 0 .. Len(asked), NEW cut, Cuts(i, cut), i + 1 \in 1 .. Len(asked),
           cut[i + 1] <= Len(stream), stream' = SubSeq(stream, cut[i + 1] + 1, Len(stream)),
           NEW after, after = AskedBy(i + 1),
           received' = after.messages, pongs' = after.pings,
           message' = IF after.open THEN after.message ELSE NoMessage
    PROVE  WsInv'
<1>1. WsTypes /\ LedgerInv /\ OrderInv
  BY DEF WsInv
<1>2. PICK j : j = i + 1
  OBVIOUS
<1>3. AskedBy(j)' = after /\ j \in 0 .. Len(asked')
  <2>1. asked' = asked /\ j \in 0 .. Len(asked)
    BY <1>2
  <2> QED BY <1>2, <2>1 DEF AskedBy
<1>4. Transit(j)'
  <2>1. asked' = asked /\ ended' = ended /\ masks' = masks
    OBVIOUS
  <2> QED BY <1>1, <1>2, <2>1, Consumed
<1>5. At(j)'
  BY <1>3, <1>4 DEF At
<1>6. ReceiverInv'
  BY <1>3, <1>5 DEF ReceiverInv
<1>7. WsTypes'
  <2>1. cut[i + 1] \in Nat
    <3>1. i + 1 \in i .. Len(asked) /\ cut \in [i .. Len(asked) -> Nat]
      BY DEF Cuts
    <3> QED BY <3>1
  <2>2. stream \in Seq(Pieces) /\ Len(stream) \in Nat
    BY <1>1, LenProperties DEF WsTypes
  <2>3. \A p \in cut[i + 1] + 1 .. Len(stream) : stream[p] \in Pieces
    <3>1. \A p \in cut[i + 1] + 1 .. Len(stream) : p \in 1 .. Len(stream)
      BY <2>1, <2>2
    <3> QED BY <2>2, <3>1, ElementOfSeq
  <2>4. cut[i + 1] + 1 \in Int /\ Len(stream) \in Int
    BY <2>1, <2>2
  <2>5. SubSeq(stream, cut[i + 1] + 1, Len(stream)) \in Seq(Pieces)
    BY <2>3, <2>4, SubSeqProperties
  <2> QED BY <1>1, <2>5 DEF WsTypes
<1>8. LedgerInv' /\ OrderInv' /\ ReasonInv'
  BY <1>1, ZenonT(30) DEF LedgerInv, Counted, AskedBy, Joined, OrderInv, ReasonInv
<1> QED BY <1>6, <1>7, <1>8 DEF WsInv

(* How far the receiver is, and what it has in front of it.                *)
LEMMA InFront ==
    ASSUME WsInv, ~ closed, stream # <<>>, NEW i \in 0 .. Len(asked), At(i)
    PROVE  /\ received = AskedBy(i).messages /\ pongs = AskedBy(i).pings
           /\ message = IF AskedBy(i).open THEN AskedBy(i).message ELSE NoMessage
           /\ i + 1 \in 1 .. Len(asked) /\ asked[i + 1] \in Asks /\ AskedBy(i + 1) = asked[i + 1]
           /\ Counted(i + 1) /\ AskedBy((i + 1) - 1) = AskedBy(i)
           /\ \E cut : Cuts(i, cut)
<1>1. PICK cut : Cuts(i, cut)
  BY DEF At, Transit
<1>2. i + 1 \in 1 .. Len(asked) /\ asked[i + 1] \in Asks
  BY <1>1, First DEF WsInv
<1>3. Counted(i + 1)
  BY <1>2 DEF WsInv, LedgerInv
<1>4. i + 1 # 0 /\ (i + 1) - 1 = i
  BY <1>2
<1> QED BY <1>1, <1>2, <1>3, <1>4 DEF At, AskedBy

LEMMA RecvPingKeeps ==
    ASSUME WsInv, RecvPing
    PROVE  WsInv'
<1>1. /\ ~ closed /\ stream # <<>> /\ stream[1].opcode = "PING"
      /\ stream' = Tail(stream) /\ pongs' = pongs + 1
      /\ UNCHANGED <<masks, asked, ended, message, received, closed>>
  BY DEF RecvPing, Comes
<1>2. PICK i \in 0 .. Len(asked) : At(i)
  BY DEF WsInv, ReceiverInv
<1>3. /\ received = AskedBy(i).messages /\ pongs = AskedBy(i).pings
      /\ message = IF AskedBy(i).open THEN AskedBy(i).message ELSE NoMessage
      /\ i + 1 \in 1 .. Len(asked) /\ AskedBy(i + 1) = asked[i + 1]
      /\ Counted(i + 1) /\ AskedBy((i + 1) - 1) = AskedBy(i)
      /\ \E cut : Cuts(i, cut)
  BY <1>1, <1>2, InFront
<1>4. PICK cut : Cuts(i, cut)
  BY <1>3
<1>5. asked[i + 1].opcode = "PING" /\ cut[i + 1] = 1
  BY <1>1, <1>4, FirstPing DEF WsInv
<1>6. PICK after : after = AskedBy(i + 1)
  OBVIOUS
<1>7. /\ after.open = AskedBy(i).open /\ after.message = AskedBy(i).message
      /\ after.messages = AskedBy(i).messages /\ after.pings = AskedBy(i).pings + 1
  BY <1>3, <1>5, <1>6 DEF Counted
<1>8. Len(stream) \in Nat \ {0} /\ Tail(stream) = SubSeq(stream, 1 + 1, Len(stream))
  BY <1>1, EmptySeq, TailIsSubSeq DEF WsInv, WsTypes
<1>9. cut[i + 1] <= Len(stream) /\ stream' = SubSeq(stream, cut[i + 1] + 1, Len(stream))
  BY <1>1, <1>5, <1>8
<1>10. /\ received' = after.messages /\ pongs' = after.pings
       /\ message' = IF after.open THEN after.message ELSE NoMessage
  BY <1>1, <1>3, <1>7
<1> QED BY <1>1, <1>3, <1>4, <1>6, <1>9, <1>10, Received

LEMMA RecvFrameKeeps ==
    ASSUME WsInv, RecvFrame
    PROVE  WsInv'
<1> DEFINE data == message.data \o (IF stream[1].mask THEN Unmasked(stream[DataAt], stream[KeyAt])
                                    ELSE stream[DataAt])
           next == [opcode |-> IF message.opcode = "CONTINUE" THEN stream[1].opcode ELSE message.opcode,
                    data |-> data]
<1>1. /\ ~ closed /\ stream # <<>> /\ stream[1].opcode \in DataFrames
      /\ Len(stream) >= DataAt
      /\ IF stream[1].fin THEN received' = Append(received, next) /\ message' = NoMessage
         ELSE message' = next /\ UNCHANGED received
      /\ stream' = SubSeq(stream, DataAt + 1, Len(stream))
      /\ UNCHANGED <<masks, asked, ended, pongs, closed>>
  BY DEF RecvFrame, Comes
<1>2. PICK i \in 0 .. Len(asked) : At(i)
  BY DEF WsInv, ReceiverInv
<1>3. /\ received = AskedBy(i).messages /\ pongs = AskedBy(i).pings
      /\ message = IF AskedBy(i).open THEN AskedBy(i).message ELSE NoMessage
      /\ i + 1 \in 1 .. Len(asked) /\ asked[i + 1] \in Asks /\ AskedBy(i + 1) = asked[i + 1]
      /\ Counted(i + 1) /\ AskedBy((i + 1) - 1) = AskedBy(i)
      /\ \E cut : Cuts(i, cut)
  BY <1>1, <1>2, InFront
<1>4. PICK cut : Cuts(i, cut)
  BY <1>3
<1>5. PICK f : f = asked[i + 1]
  OBVIOUS
<1>6. stream[1].opcode # "PING"
  BY <1>1 DEF DataFrames
<1>7. /\ f.opcode = stream[1].opcode /\ f.fin = stream[1].fin
      /\ KeyAt \in {2, 3} /\ DataAt \in {KeyAt, KeyAt + 1}
      /\ cut[i + 1] = DataAt - (IF f.data = <<>> THEN 1 ELSE 0)
      /\ f.data # <<>> /\ Len(stream) >= DataAt =>
            f.data = IF stream[1].mask THEN Unmasked(stream[DataAt], stream[KeyAt]) ELSE stream[DataAt]
  BY <1>1, <1>4, <1>5, <1>6, FirstFrame DEF WsInv
<1>8. DataAt \in Nat /\ Len(stream) \in Nat
  BY <1>7, LenProperties DEF WsInv, WsTypes
<1>9. f.opcode # "PING" /\ f.opcode = stream[1].opcode
  BY <1>6, <1>7
<1>10. f.data # <<>>
  <2> SUFFICES ASSUME f.data = <<>> PROVE FALSE
    OBVIOUS
  <2>1. i + 1 = Len(asked)
    BY <1>3, <1>5, <1>9 DEF Counted
  <2>2. Len(stream) <= cut[i + 1]
    BY <1>1, <1>4, <2>1, First DEF WsInv
  <2>3. cut[i + 1] = DataAt - 1
    BY <1>7
  <2> QED BY <1>1, <1>8, <2>2, <2>3
<1>11. data = message.data \o f.data /\ cut[i + 1] = DataAt
  <2>1. f.data = IF stream[1].mask THEN Unmasked(stream[DataAt], stream[KeyAt]) ELSE stream[DataAt]
    BY <1>1, <1>7, <1>10
  <2>2. cut[i + 1] = DataAt
    BY <1>7, <1>8, <1>10
  <2> QED BY <2>1, <2>2
<1>12. PICK before : before = AskedBy(i)
  OBVIOUS
<1>13. /\ f.open = ~ f.fin /\ f.pings = before.pings /\ f.message = Joined(before, f.opcode, f.data)
       /\ f.messages = (IF f.fin THEN Append(before.messages, f.message) ELSE before.messages)
  BY <1>3, <1>5, <1>9, <1>12 DEF Counted
<1>14. next = f.message
  <2>1. CASE before.open
    <3>1. message = before.message
      BY <1>3, <1>12, <2>1
    <3>2. before.message.opcode # "CONTINUE"
      <4>1. i # 0
        BY <1>12, <2>1 DEF AskedBy, NotYet
      <4>2. i \in 1 .. Len(asked) /\ before = asked[i]
        BY <1>3, <1>12, <4>1 DEF AskedBy
      <4>3. Counted(i)
        BY <4>2 DEF WsInv, LedgerInv
      <4> QED BY <2>1, <4>2, <4>3 DEF Counted
    <3> HIDE DEF data
    <3> QED BY <1>11, <1>13, <2>1, <3>1, <3>2 DEF Joined
  <2>2. CASE ~ before.open
    <3>1. message = NoMessage
      BY <1>3, <1>12, <2>2
    <3>2. f.data \in Bytes
      BY <1>3, <1>5 DEF Asks
    <3>3. <<>> \o f.data = f.data
      BY <3>2, ConcatEmptySeq DEF Bytes
    <3>4. data = f.data
      <4>1. NoMessage.data = <<>>
        BY DEF NoMessage
      <4> QED BY <1>11, <3>1, <3>3, <4>1
    <3> HIDE DEF data
    <3> QED BY <1>7, <1>13, <2>2, <3>1, <3>4 DEF Joined, NoMessage
  <2>3. before.open \in BOOLEAN \/ TRUE
    OBVIOUS
  <2> QED BY <2>1, <2>2
<1> HIDE DEF data, next
<1>15. /\ received' = f.messages /\ pongs' = f.pings
       /\ message' = IF f.open THEN f.message ELSE NoMessage
  <2>1. f.fin \in BOOLEAN
    BY <1>3, <1>5 DEF Asks
  <2>2. CASE f.fin
    <3>1. received' = Append(received, next) /\ message' = NoMessage
      BY <1>1, <1>7, <2>2
    <3> QED BY <1>1, <1>3, <1>12, <1>13, <1>14, <2>2, <3>1
  <2>3. CASE ~ f.fin
    <3>1. received' = received /\ message' = next
      BY <1>1, <1>7, <2>3
    <3> QED BY <1>1, <1>3, <1>12, <1>13, <1>14, <2>3, <3>1
  <2> QED BY <2>2, <2>3
<1>16. cut[i + 1] <= Len(stream) /\ stream' = SubSeq(stream, cut[i + 1] + 1, Len(stream))
  BY <1>1, <1>8, <1>11
<1>17. f = AskedBy(i + 1)
  BY <1>3, <1>5
<1> QED BY <1>1, <1>3, <1>4, <1>15, <1>16, <1>17, Received

(* The receiver gives up.                                                  *)
LEMMA GivesUp ==
    ASSUME WsInv, CloseStream, UNCHANGED <<masks, asked, ended, received, pongs>>,
           \/ ended
           \/ \E k \in DOMAIN asked : asked[k].opcode = "CLOSE" \/ Len(asked[k].message.data) >= MaxMessage
    PROVE  WsInv'
<1>1. closed' = TRUE /\ stream' = <<>>
  BY DEF CloseStream
<1>2. WsTypes'
  BY <1>1, EmptySeq DEF WsInv, WsTypes
<1>3. ReceiverInv'
  <2>1. PICK i \in 0 .. Len(asked) : At(i)
    BY DEF WsInv, ReceiverInv
  <2>2. At(i)' /\ i \in 0 .. Len(asked')
    BY <1>1, <2>1 DEF At, AskedBy
  <2> QED BY <2>2 DEF ReceiverInv
<1>4. LedgerInv' /\ OrderInv'
  BY ZenonT(30) DEF WsInv, LedgerInv, Counted, AskedBy, Joined, OrderInv
<1>5. ReasonInv'
  BY DEF ReasonInv
<1> QED BY <1>2, <1>3, <1>4, <1>5 DEF WsInv

LEMMA RecvFailsKeeps ==
    ASSUME WsInv, RecvFails
    PROVE  WsInv'
<1>1. CloseStream /\ UNCHANGED <<masks, asked, ended, received, pongs>>
  BY DEF RecvFails
<1>2. ASSUME ~ ended
      PROVE  \E k \in DOMAIN asked : asked[k].opcode = "CLOSE" \/ Len(asked[k].message.data) >= MaxMessage
  <2>1. /\ ~ closed /\ stream # <<>> /\ stream[1].opcode \in DataFrames
        /\ \/ masks /\ ~ stream[1].mask
           \/ Len(stream) >= KeyAt - 1 /\ Exceeds
           \/ Len(stream) >= DataAt - 1 /\ length = 0
    BY <1>2 DEF RecvFails, Comes
  <2>2. PICK i \in 0 .. Len(asked) : At(i)
    BY DEF WsInv, ReceiverInv
  <2>3. /\ message = IF AskedBy(i).open THEN AskedBy(i).message ELSE NoMessage
        /\ i + 1 \in 1 .. Len(asked) /\ asked[i + 1] \in Asks
        /\ Counted(i + 1) /\ AskedBy((i + 1) - 1) = AskedBy(i)
        /\ \E cut : Cuts(i, cut)
    BY <2>1, <2>2, InFront
  <2>4. PICK cut : Cuts(i, cut)
    BY <2>3
  <2>5. PICK f, k : f = asked[i + 1] /\ k = i + 1
    OBVIOUS
  <2>6. stream[1].opcode # "PING"
    BY <2>1 DEF DataFrames
  <2>7. /\ f.opcode = stream[1].opcode /\ stream[1].mask = masks
        /\ KeyAt \in {2, 3} /\ DataAt \in {KeyAt, KeyAt + 1}
        /\ Len(stream) >= KeyAt - 1 => length = Len(f.data)
    BY <2>1, <2>4, <2>5, <2>6, FirstFrame DEF WsInv
  <2>8. f.data \in Bytes /\ Len(stream) \in Nat
    BY <2>3, <2>5, LenProperties DEF Asks, WsInv, WsTypes
  <2>9. f.data # <<>>
    BY <1>2, <2>3, <2>5, <2>6, <2>7 DEF Counted
  <2>10. Len(f.data) # 0
    BY <2>8, <2>9, EmptySeq DEF Bytes
  <2>11. Len(stream) >= KeyAt - 1 /\ Exceeds
    BY <2>1, <2>7, <2>8, <2>10
  <2>12. Len(message.data) + Len(f.data) >= MaxMessage
    BY <2>7, <2>11 DEF Exceeds
  <2>13. PICK before : before = AskedBy(i)
    OBVIOUS
  <2>14. f.message = Joined(before, f.opcode, f.data)
    BY <2>3, <2>5, <2>6, <2>7, <2>13 DEF Counted
  <2>15. Len(f.message.data) = Len(message.data) + Len(f.data)
    <3>1. CASE before.open
      <4>1. before.message \in Texts
        <5>1. i # 0
          BY <2>13, <3>1 DEF AskedBy, NotYet
        <5>2. i \in 1 .. Len(asked) /\ before = asked[i]
          BY <2>3, <2>13, <5>1 DEF AskedBy
        <5>3. before \in Asks
          BY <5>2, ElementOfSeq DEF WsInv, WsTypes
        <5> QED BY <5>3 DEF Asks
      <4>2. message = before.message /\ f.message.data = before.message.data \o f.data
        <5>1. f.message = [opcode |-> before.message.opcode, data |-> before.message.data \o f.data]
          BY <2>14, <3>1 DEF Joined
        <5>2. message = before.message
          BY <2>3, <2>13, <3>1
        <5>3. f.message.data = before.message.data \o f.data
          <6> DEFINE t == before.message.data \o f.data
          <6> HIDE DEF t
          <6>1. f.message = [opcode |-> before.message.opcode, data |-> t]
            BY <5>1 DEF t
          <6>2. f.message.data = t
            BY <6>1
          <6> QED BY <6>2 DEF t
        <5> QED BY <5>2, <5>3
      <4>3. before.message.data \in Bytes
        BY <4>1 DEF Texts
      <4> QED BY <2>8, <4>2, <4>3, ConcatProperties DEF Bytes
    <3>2. CASE ~ before.open
      <4>1. message.data = <<>> /\ f.message.data = f.data
        BY <2>3, <2>13, <2>14, <3>2 DEF Joined, NoMessage
      <4> QED BY <2>8, <4>1, LenProperties DEF Bytes
    <3> QED BY <3>1, <3>2
  <2>16. k \in DOMAIN asked /\ asked[k] = f
    BY <2>3, <2>5, LenProperties DEF WsInv, WsTypes
  <2> QED BY <2>12, <2>15, <2>16
<1> QED BY <1>1, <1>2, GivesUp

LEMMA RecvCloseKeeps ==
    ASSUME WsInv, RecvClose
    PROVE  WsInv'
<1>1. /\ ~ closed /\ stream # <<>> /\ stream[1].opcode = "CLOSE"
      /\ CloseStream /\ UNCHANGED <<masks, asked, ended, received, pongs>>
  BY DEF RecvClose, Comes
<1>2. PICK i \in 0 .. Len(asked) : At(i)
  BY DEF WsInv, ReceiverInv
<1>3. i + 1 \in 1 .. Len(asked) /\ \E cut : Cuts(i, cut)
  BY <1>1, <1>2, InFront
<1>4. PICK cut : Cuts(i, cut)
  BY <1>3
<1>5. asked[i + 1].opcode = "CLOSE"
  BY <1>1, <1>4, FirstFrame DEF WsInv
<1>6. i + 1 \in DOMAIN asked
  BY <1>3, LenProperties DEF WsInv, WsTypes
<1> QED BY <1>1, <1>5, <1>6, GivesUp

LEMMA DisconnectKeeps ==
    ASSUME WsInv, Disconnect
    PROVE  WsInv'
<1>1. PICK m \in 0 .. Len(stream) : stream' = SubSeq(stream, 1, m)
  BY DEF Disconnect
<1>2. ended' = TRUE /\ UNCHANGED <<masks, asked, message, received, pongs, closed>>
  BY DEF Disconnect
<1>3. WsTypes'
  <2>1. stream \in Seq(Pieces) /\ Len(stream) \in Nat
    BY LenProperties DEF WsInv, WsTypes
  <2>2. \A p \in 1 .. m : stream[p] \in Pieces
    <3>1. \A p \in 1 .. m : p \in 1 .. Len(stream)
      BY <2>1
    <3> QED BY <2>1, <3>1, ElementOfSeq
  <2>3. SubSeq(stream, 1, m) \in Seq(Pieces)
    BY <2>1, <2>2, SubSeqProperties
  <2> QED BY <1>1, <1>2, <2>3 DEF WsInv, WsTypes
<1>4. ReceiverInv'
  <2>1. PICK i \in 0 .. Len(asked) : At(i)
    BY DEF WsInv, ReceiverInv
  <2>2. ASSUME ~ closed PROVE Transit(i)'
    <3>1. PICK cut : Cuts(i, cut)
      BY <2>1, <2>2 DEF At, Transit
    <3>2. asked' = asked /\ ended' = TRUE /\ masks' = masks
      BY <1>2
    <3> QED BY <1>1, <3>1, <3>2, Broken DEF WsInv
  <2>3. At(i)' /\ i \in 0 .. Len(asked')
    BY <1>2, <2>1, <2>2 DEF At, AskedBy
  <2> QED BY <2>3 DEF ReceiverInv
<1>5. LedgerInv' /\ OrderInv' /\ ReasonInv'
  BY <1>2, ZenonT(30) DEF WsInv, LedgerInv, Counted, AskedBy, Joined, OrderInv, ReasonInv
<1> QED BY <1>3, <1>4, <1>5 DEF WsInv

LEMMA WsStarts == WsInit => WsInv
<1> SUFFICES ASSUME WsInit PROVE WsInv
  OBVIOUS
<1>1. /\ masks \in BOOLEAN /\ asked = <<>> /\ stream = <<>> /\ ended = FALSE
      /\ message = NoMessage /\ received = <<>> /\ pongs = 0 /\ closed = FALSE
  BY DEF WsInit
<1>2. Len(asked) = 0 /\ Len(stream) = 0
  BY <1>1
<1>3. WsTypes
  BY <1>1, EmptySeq DEF WsTypes
<1>4. LedgerInv
  BY <1>2 DEF LedgerInv
<1>5. OrderInv
  <2>1. \A j, k \in 0 .. Len(asked) : j = 0 /\ k = 0
    BY <1>2
  <2>2. AskedBy(0).messages = <<>> /\ Len(<<>>) = 0
    BY DEF AskedBy, NotYet
  <2> QED BY <2>1, <2>2 DEF OrderInv, Extends
<1>6. ReceiverInv
  <2> DEFINE c == [k \in 0 .. 0 |-> 0]
  <2>1. Cuts(0, c)
    BY <1>2 DEF Cuts
  <2>2. At(0)
    BY <1>1, <2>1 DEF At, Transit, AskedBy, NotYet
  <2> QED BY <1>2, <2>2 DEF ReceiverInv
<1>7. ReasonInv
  BY <1>1 DEF ReasonInv
<1> QED BY <1>3, <1>4, <1>5, <1>6, <1>7 DEF WsInv

LEMMA WsStep == WsInv /\ [WsNext]_wsVars => WsInv'
<1> SUFFICES ASSUME WsInv, [WsNext]_wsVars PROVE WsInv'
  OBVIOUS
<1>1. CASE SendMessage  BY <1>1, SendKeeps
<1>2. CASE WSPing       BY <1>2, PingKeeps
<1>3. CASE Disconnect   BY <1>3, DisconnectKeeps
<1>4. CASE RecvPing     BY <1>4, RecvPingKeeps
<1>5. CASE RecvFrame    BY <1>5, RecvFrameKeeps
<1>6. CASE RecvFails    BY <1>6, RecvFailsKeeps
<1>7. CASE RecvClose    BY <1>7, RecvCloseKeeps
<1>8. CASE UNCHANGED wsVars
  <2>1. UNCHANGED <<masks, asked, stream, ended, message, received, pongs, closed>>
    BY <1>8 DEF wsVars
  <2>2. WsTypes'
    BY <2>1 DEF WsInv, WsTypes
  <2>3. LedgerInv' /\ OrderInv' /\ ReasonInv'
    BY <2>1, ZenonT(30) DEF WsInv, LedgerInv, Counted, AskedBy, Joined, OrderInv, ReasonInv
  <2>4. \A i : Transit(i) => Transit(i)'
    <3> SUFFICES ASSUME NEW i, NEW cut, Cuts(i, cut) PROVE Cuts(i, cut)'
      BY DEF Transit
    <3>1. masks' = masks /\ asked' = asked /\ stream' = stream /\ ended' = ended
      BY <2>1
    <3>2. ASSUME NEW k \in i + 1 .. Len(asked)
          PROVE  \E key \in KeysOf(masks') :
                    /\ cut[k] = cut[k - 1] + Len(WireOf(masks', asked'[k], key))
                    /\ \A p \in 1 .. Len(WireOf(masks', asked'[k], key)) :
                           cut[k - 1] + p <= Len(stream') =>
                              stream'[cut[k - 1] + p] = WireOf(masks', asked'[k], key)[p]
      <4>1. PICK key \in KeysOf(masks) :
               /\ cut[k] = cut[k - 1] + Len(WireOf(masks, asked[k], key))
               /\ Carried(cut[k - 1], WireOf(masks, asked[k], key))
        BY DEF Cuts
      <4> QED BY <3>1, <4>1 DEF Carried
    <3>3. /\ cut \in [i .. Len(asked) -> Nat] /\ cut[i] = 0
          /\ \A j, k \in i .. Len(asked) : j < k => cut[j] < cut[k]
          /\ Len(stream) <= cut[Len(asked)] /\ (~ ended => Len(stream) = cut[Len(asked)])
      BY DEF Cuts
    <3> QED BY <3>1, <3>2, <3>3 DEF Cuts, Carried
  <2>5. ReceiverInv'
    BY <2>1, <2>4 DEF WsInv, ReceiverInv, At, AskedBy
  <2> QED BY <2>2, <2>3, <2>5 DEF WsInv
<1> QED BY <1>1, <1>2, <1>3, <1>4, <1>5, <1>6, <1>7, <1>8 DEF WsNext

(* What was read is a beginning of what was asked for.                     *)
LEMMA WsArrives == WsInv => MessagesArrive
<1> SUFFICES ASSUME WsInv PROVE MessagesArrive
  OBVIOUS
<1>1. WsTypes /\ OrderInv /\ ReasonInv
  BY DEF WsInv
<1>2. PICK i \in 0 .. Len(asked) : At(i)
  BY DEF WsInv, ReceiverInv
<1>3. Len(asked) \in Nat /\ Latest.messages \in Seq(Texts)
  BY <1>1, LatestTypes
<1>4. Extends(Latest.messages, received)
  BY <1>1, <1>2, <1>3 DEF At, OrderInv, Latest
<1>5. received \in Seq(Texts)
  <2>1. CASE i = 0
    BY <1>2, <2>1, EmptySeq DEF At, AskedBy, NotYet
  <2>2. CASE i # 0
    <3>1. i \in 1 .. Len(asked)
      BY <1>3, <2>2
    <3>2. asked[i] \in Asks
      BY <1>1, <3>1, ElementOfSeq DEF WsTypes
    <3> QED BY <1>2, <2>2, <3>2 DEF At, AskedBy, Asks
  <2> QED BY <2>1, <2>2
<1>6. IsPrefix(received, Latest.messages)
  <2> DEFINE r == received l == Latest.messages
  <2>1. /\ Len(r) \in Nat /\ Len(l) \in Nat /\ Len(r) <= Len(l) /\ r \in Seq(Texts) /\ l \in Seq(Texts)
        /\ \A p \in 1 .. Len(r) : l[p] = r[p]
    BY <1>3, <1>4, <1>5, LenProperties DEF Extends
  <2> HIDE DEF r, l
  <2>2. SubSeq(r, 1, Len(r)) = r
    BY <2>1, SubSeqFull
  <2>3. \A p \in 1 .. Len(r) : l[p] \in Texts
    <3>1. \A p \in 1 .. Len(r) : p \in 1 .. Len(l)
      BY <2>1
    <3> QED BY <2>1, <3>1, ElementOfSeq
  <2>4. PICK n : n = Len(r)
    OBVIOUS
  <2>5. /\ SubSeq(l, 1, n) \in Seq(Texts)
        /\ Len(SubSeq(l, 1, n)) = IF 1 <= n THEN n - 1 + 1 ELSE 0
        /\ \A p \in 1 .. n - 1 + 1 : SubSeq(l, 1, n)[p] = l[1 + p - 1]
    BY <2>1, <2>3, <2>4, SubSeqProperties
  <2>6. Len(SubSeq(l, 1, n)) = n
    BY <2>1, <2>4, <2>5
  <2>7. ASSUME NEW p \in 1 .. n PROVE SubSeq(l, 1, n)[p] = r[p]
    <3>1. p \in 1 .. n - 1 + 1 /\ 1 + p - 1 = p
      BY <2>1, <2>4
    <3> QED BY <2>1, <2>4, <2>5, <3>1
  <2>8. SubSeq(l, 1, n) = r
    BY <2>1, <2>4, <2>5, <2>6, <2>7, SeqEqual
  <2>9. IsPrefix(r, l)
    BY <2>1, <2>2, <2>4, <2>8 DEF IsPrefix
  <2> QED BY <2>9 DEF r, l
<1>7. ASSUME stream = <<>>, ~ ended, ~ closed PROVE received = Latest.messages /\ pongs = Latest.pings
  <2>1. PICK cut : Cuts(i, cut)
    BY <1>2, <1>7 DEF At, Transit
  <2>2. cut[i] = 0 /\ cut[Len(asked)] = 0 /\ \A j, k \in i .. Len(asked) : j < k => cut[j] < cut[k]
    <3>1. Len(stream) = 0
      BY <1>7
    <3> QED BY <1>7, <2>1, <3>1 DEF Cuts
  <2>3. i = Len(asked)
    BY <1>3, <2>2
  <2> QED BY <1>2, <1>7, <2>3 DEF At, Latest
<1> QED BY <1>1, <1>6, <1>7 DEF MessagesArrive, ReasonInv

(* Whatever is sent, in however many frames, between whatever pings, and   *)
(* wherever the connection breaks: the messages that were read are the     *)
(* first of those sent, and no frame is lost.                              *)
THEOREM MessagesDelivered == WsSpec => []MessagesArrive
<1>1. WsInit => WsInv
  BY WsStarts
<1>2. WsInv /\ [WsNext]_wsVars => WsInv'
  BY WsStep
<1>3. WsInv => MessagesArrive
  BY WsArrives
<1> QED BY <1>1, <1>2, <1>3, PTL DEF WsSpec

-----------------------------------------------------------------------------
(***************************************************************************)
(* A file as an answer                                                     *)
(***************************************************************************)
Files == [version : Nat, inode : Nat, size : Nat, mtime : Nat]
Stamps == Nat \cup {None}
ETags == (Nat \X Nat) \cup {None}
Responses_ == [status : Nat, lm : Stamps, etag : ETags, gzip : BOOLEAN, start : Int, length : Int,
               announced : Int, named : BOOLEAN, of : Nat]
Early == {"idle", "modified", "etag", "content"}
Places_ == Early \cup {"head", "text", "body", "done"}

AnswerTypes ==
    /\ m_rate \in Nat /\ now \in Nat /\ changes \in Nat
    /\ file \in Files /\ ifs \in Files
    /\ copy \in [lm : Stamps, etag : ETags, parts : SUBSET Nat]
    /\ ask \in [cond : BOOLEAN, range : Ranges \cup {None}, ifRange : BOOLEAN, view : BOOLEAN]
    /\ rsp \in Responses_
    /\ doing \in Places_
    /\ body \in Int /\ count \in Nat /\ start_time \in Nat /\ wake \in Nat
    /\ parts \in SUBSET Nat /\ since \in SUBSET Nat

(* Versions are numbered in the order of their times; version 0 is none.   *)
FileInv ==
    /\ file.version <= changes /\ (file.version = 0 <=> file = Gone)
    /\ (file.version = 0 <=> file.inode = 0)
    /\ (ifs.version = 0 => ifs = Gone)
    /\ file.mtime <= Seconds(now)
    /\ rsp.of <= changes

(* Up to the content the answer is empty.                                  *)
EarlyInv ==
    /\ doing \in Early \cup {"head"} => body = 0 /\ count = 0 /\ wake = 0 /\ parts = {}
    /\ doing # "body" => doing = "done" \/ ifs = Gone
    /\ doing \in Early \ {"idle"} =>
          rsp.of = 0 /\ ~ rsp.named /\ rsp.announced = 0 /\ rsp.status = 200
    /\ doing \in {"head", "text", "body", "done"} /\ rsp.status = 200 => rsp.of # 0
    /\ doing \in Places_ \ {"idle", "modified"} => rsp.lm # None

(* The part of the file that was chosen, as long as the file reaches.      *)
Reaches == rsp.named /\ ~ FileTooShort
LengthInv == lengths \in SUBSET Nat /\ (rsp.named => file.size \in lengths)
RangeInv ==
    doing # "idle" =>
        /\ rsp.named => rsp.of # 0 /\ rsp.announced = rsp.length /\ 0 <= rsp.length
        /\ ~ rsp.named => 0 <= rsp.announced /\ rsp.status # 206

(* What has been written so far.                                           *)
SendInv ==
    /\ doing = "text" =>
          /\ count <= TextSize
          /\ body = IF rsp.named \/ count < HeadSize THEN 0 ELSE count - HeadSize
    /\ doing = "body" =>
          /\ rsp.named
          /\ 0 <= body /\ body <= rsp.length
          /\ Reaches => rsp.start + rsp.length <= ifs.size

AnswerTypeInv == AnswerTypes /\ FileInv /\ EarlyInv
FrameInv == LengthInv /\ RangeInv /\ SendInv /\ AnswerFramed

(* A time that was that of the file, and the versions some bytes are of:   *)
(* while the file has the time the bytes are its own.  After a change it   *)
(* never has it again.                                                     *)
Dated(t, bytes) ==
    /\ t <= Seconds(now)
    /\ file.version # 0 => t <= file.mtime
    /\ file.version = 0 => t < Seconds(now)
    /\ file.version # 0 /\ t = file.mtime => bytes \subseteq {file.version}

(* The versions the answer has, or may get, bytes of.                      *)
Sources == parts \cup {rsp.of} \cup (IF ifs.version = 0 THEN {} ELSE {ifs.version})
CopyInv ==
    /\ copy.lm # None => Dated(copy.lm, copy.parts)
    /\ copy.etag # None => Dated(copy.etag[1], copy.parts)
RspInv ==
    /\ doing \in {"etag", "content"} =>
          rsp.lm <= Seconds(now) /\ (file.version # 0 => rsp.lm <= file.mtime)
    /\ doing = "content" /\ rsp.etag # None => Dated(rsp.etag[1], {})
    /\ doing \in {"head", "text", "body", "done"} /\ rsp.status = 200 =>
          Dated(rsp.lm, Sources) /\ (rsp.etag # None => Dated(rsp.etag[1], Sources))
SinceInv ==
    /\ doing # "idle" => file.version \in since
    /\ doing # "idle" /\ rsp.status = 304 => \E v \in since : copy.parts \subseteq {v}
StaleInv == CopyInv /\ RspInv /\ SinceInv

(* Who sleeps may send when he wakes.                                      *)
WakeInv ==
    /\ doing \in {"text", "body"} => start_time <= Seconds(now)
    /\ m_rate > 0 /\ doing \in {"text", "body"} /\ wake # 0 =>
          count < rate_after + m_rate * (Seconds(wake) - start_time + 2)
AnswerRateInv == WakeInv /\ RateKept

AnswerInv == AnswerTypeInv /\ FrameInv /\ StaleInv /\ AnswerRateInv

-----------------------------------------------------------------------------
(* Division, and products that grow with a factor.                         *)
LEMMA Quotient ==
    ASSUME NEW a \in Int, NEW b \in Nat \ {0}
    PROVE  a \div b \in Int /\ b * (a \div b) <= a /\ a < b * (a \div b) + b
BY SMT

LEMMA ProductGrows ==
    ASSUME NEW m \in Nat, NEW a \in Int, NEW b \in Int, a <= b
    PROVE  m * a \in Int /\ m * b \in Int /\ m * a <= m * b
BY SMT

LEMMA ProductReflects ==
    ASSUME NEW m \in Nat \ {0}, NEW a \in Int, NEW b \in Int, m * a < m * b
    PROVE  a < b
BY SMT

LEMMA SecondsGrow ==
    ASSUME NEW a \in Nat, NEW b \in Nat, a <= b
    PROVE  Seconds(a) \in Nat /\ Seconds(b) \in Nat /\ Seconds(a) <= Seconds(b)
<1> DEFINE x == a \div Ticks
           y == b \div Ticks
<1>0. Ticks \in Nat \ {0}
  BY AnswerAssumption
<1>1. /\ x \in Int /\ Ticks * x <= a /\ a < Ticks * x + Ticks
      /\ y \in Int /\ Ticks * y <= b /\ b < Ticks * y + Ticks
  BY <1>0, Quotient
<1> HIDE DEF x, y
<1>2. Ticks * x < Ticks * (y + 1) /\ Ticks * (-1) < Ticks * x /\ Ticks * (-1) < Ticks * y
  <2>1. Ticks * (y + 1) = Ticks * y + Ticks /\ Ticks * (-1) = - Ticks
    BY <1>0, <1>1
  <2>2. Ticks * x \in Int /\ Ticks * y \in Int
    BY <1>0, <1>1
  <2> QED
    BY <1>0, <1>1, <2>1, <2>2
<1>3. x < y + 1 /\ -1 < x /\ -1 < y
  BY <1>0, <1>1, <1>2, ProductReflects
<1> QED
  BY <1>1, <1>3 DEF Seconds, x, y

(* The sleep is long enough: T parts of a second, a rate m, an excess e.   *)
LEMMA SleepSuffices ==
    ASSUME NEW t \in Nat, NEW m \in Nat \ {0}, NEW e \in Nat
    PROVE  LET w == t + ((e * Ticks) \div m + 1) IN
           w \in Nat /\ e < m * (Seconds(w) - Seconds(t) + 1)
<1> DEFINE q == (e * Ticks) \div m
           w == t + (q + 1)
           x == Seconds(t)
           y == Seconds(w)
<1>0. Ticks \in Nat \ {0} /\ e * Ticks \in Nat
  BY AnswerAssumption
<1>1. q \in Int /\ m * q <= e * Ticks /\ e * Ticks < m * q + m
  BY <1>0, Quotient
<1> HIDE DEF q
<1>2. q \in Nat
  <2>1. m * (-1) < m * q
    <3>1. m * q \in Int /\ m * (-1) = - m
      BY <1>1
    <3> QED
      BY <1>0, <1>1, <3>1
  <2> QED
    BY <1>1, <2>1, ProductReflects
<1>3. w \in Nat /\ t <= w
  BY <1>2
<1>4. x \in Nat /\ y \in Nat /\ Ticks * x <= t /\ w < Ticks * y + Ticks
  BY <1>0, <1>3, SecondsGrow, Quotient DEF Seconds
<1> HIDE DEF x, y
<1>5. q + 1 < Ticks * (y - x + 1)
  <2>1. Ticks * (y - x + 1) = Ticks * y - Ticks * x + Ticks
    BY <1>0, <1>4
  <2>2. Ticks * x \in Int /\ Ticks * y \in Int
    BY <1>0, <1>4
  <2> QED
    BY <1>0, <1>2, <1>3, <1>4, <2>1, <2>2
<1> DEFINE d == y - x + 1
<1>6. Ticks * e < Ticks * (m * d)
  <2>1. d \in Int /\ Ticks * d \in Int /\ q + 1 <= Ticks * d
    BY <1>0, <1>2, <1>4, <1>5
  <2> HIDE DEF d
  <2>2. m * (q + 1) <= m * (Ticks * d)
    BY <2>1, <1>2, ProductGrows
  <2>3. m * (q + 1) = m * q + m /\ e * Ticks = Ticks * e
    BY <1>0, <1>2
  <2>4. m * (Ticks * d) = Ticks * (m * d)
    BY <1>0, <2>1
  <2>5. m * q \in Int /\ m * d \in Int /\ Ticks * (m * d) \in Int /\ Ticks * e \in Int
    BY <1>0, <1>2, <2>1
  <2> QED
    BY <1>1, <2>2, <2>3, <2>4, <2>5
<1>7. e < m * d
  <2>1. m * d \in Int
    BY <1>4
  <2> HIDE DEF d
  <2> QED
    BY <1>0, <1>6, <2>1, ProductReflects
<1> QED
  BY <1>3, <1>7 DEF x, y, q

-----------------------------------------------------------------------------
(* One of the actions, or none.                                            *)
Others == Rewrite \/ Replace \/ Unlink
LEMMA AnswerCases ==
    ASSUME [AnswerNext]_answerVars
    PROVE  \/ Others \/ TickAnswer \/ Ask \/ LastModified \/ ETag \/ SetContent \/ SendResponse
           \/ Sleep \/ SendText \/ OpenFile \/ SendBody \/ BodyEnds \/ SendFails \/ Receive
           \/ UNCHANGED answerVars
BY DEF AnswerNext, Others

(* What a change by others does: a version of its own, or none.            *)
LEMMA OthersFacts ==
    ASSUME AnswerTypeInv, Others
    PROVE  /\ file' \in Files /\ ifs' \in Files /\ changes' = changes + 1
           /\ file.version = 0 \/ Seconds(now) > file.mtime
           /\ \/ file'.version = changes + 1 /\ file'.mtime = Seconds(now)
              \/ file' = Gone /\ file.version # 0
           /\ (file'.version = 0 <=> file' = Gone) /\ (file'.version = 0 <=> file'.inode = 0)
           /\ \/ ifs' = ifs
              \/ file'.version = changes + 1 /\ ifs' = file' /\ ifs.version # 0
           /\ since' = IF doing = "idle" THEN {} ELSE since \cup {file'.version}
           /\ lengths' = IF rsp.named THEN lengths \cup {file'.size} ELSE lengths
           /\ UNCHANGED <<m_rate, now, copy, ask, rsp, doing, body, count, start_time, wake, parts, asks>>
<1>0. AnswerTypes /\ FileInv
  BY DEF AnswerTypeInv
<1>1. Seconds(now) \in Nat
  BY <1>0, SecondsGrow DEF AnswerTypes
<1>2. ASSUME NEW inode \in Nat, NEW size \in Sizes
      PROVE  Version(inode, size) \in Files /\ Version(inode, size).version = changes + 1
             /\ Version(inode, size).mtime = Seconds(now)
             /\ Version(inode, size).inode = inode
  BY <1>0, <1>1, <1>2, AnswerAssumption DEF Version, Files, AnswerTypes
<1>3. CASE Rewrite
  <2>1. PICK size \in Sizes : file.version # 0 /\
             Changed(Version(file.inode, size),
                     IF ifs.inode = file.inode THEN Version(file.inode, size) ELSE ifs)
    BY <1>3 DEF Rewrite
  <2>2. file.inode \in Nat /\ file.inode # 0
    BY <1>0, <2>1 DEF AnswerTypes, Files, FileInv
  <2>3. ifs.inode = file.inode => ifs.version # 0
    BY <1>0, <2>1 DEF FileInv, Gone
  <2> QED
    BY <1>0, <1>2, <2>1, <2>2, <2>3 DEF Changed, sendVars, AnswerTypes, Gone
<1>4. CASE Replace
  <2>1. PICK size \in Sizes : Changed(Version(changes + 1, size), ifs)
    BY <1>4 DEF Replace
  <2>2. changes + 1 \in Nat
    BY <1>0 DEF AnswerTypes
  <2> QED
    BY <1>0, <1>2, <2>1, <2>2 DEF Changed, sendVars, AnswerTypes, Gone
<1>5. CASE Unlink
  <2>1. Gone \in Files
    BY DEF Gone, Files
  <2> QED
    BY <1>0, <1>5, <2>1 DEF Unlink, Changed, sendVars, AnswerTypes, Gone
<1> QED
  BY <1>3, <1>4, <1>5 DEF Others

(* An answer that has the validators of this one.                         *)
Answered(status, start, size, announced, named, of) ==
    [status |-> status, lm |-> rsp.lm, etag |-> rsp.etag, gzip |-> rsp.gzip, start |-> start, length |-> size,
     announced |-> announced, named |-> named, of |-> of]

(* setContent: what the answer announces, and of which file.               *)
LEMMA ContentFacts ==
    ASSUME AnswerTypeInv, SetContent
    PROVE  /\ rsp' \in Responses_ /\ doing = "content" /\ doing' = "head"
           /\ rsp'.lm = rsp.lm /\ rsp'.etag = rsp.etag
           /\ rsp'.status \in {200, 206, 404, 416} /\ rsp'.status # 304
           /\ rsp'.of = IF rsp'.status = 404 THEN 0 ELSE file.version
           /\ rsp'.status = 404 <=> file.version = 0
           /\ ~ rsp'.named => rsp'.announced >= 0 /\ rsp'.status # 206
           /\ rsp'.named => rsp'.announced = rsp'.length /\ file.version # 0 /\ 0 <= rsp'.length
           /\ lengths' = IF rsp'.named THEN {file.size} ELSE {}
           /\ UNCHANGED <<m_rate, now, file, changes, copy, ask, ifs, body, count, start_time, wake, parts, since, asks>>
<1>0. AnswerTypes /\ FileInv /\ EarlyInv
  BY DEF AnswerTypeInv
<1>1. /\ rsp \in Responses_ /\ file \in Files /\ file.size \in Nat /\ file.version \in Nat
      /\ rsp.of = 0 /\ ~ rsp.named /\ rsp.announced = 0 /\ rsp.status = 200 /\ doing = "content"
      /\ UNCHANGED <<m_rate, now, file, changes, copy, ask, ifs, body, count, start_time, wake, parts, since, asks>>
      /\ doing' = "head" /\ lengths' = IF rsp'.named THEN {file.size} ELSE {}
  BY <1>0 DEF AnswerTypes, EarlyInv, Early, SetContent, fileVars, sendVars, Goes, Files
<1> DEFINE Fits(part) ==
             part[1] \in Int /\ part[2] \in Int /\ part[1] <= part[2] + 1
<1>2. ASSUME NEW status \in {200, 206, 416}, NEW part, Fits(part), file.version # 0,
             rsp' = Part(status, part)
      PROVE  /\ rsp' \in Responses_ /\ rsp'.lm = rsp.lm /\ rsp'.etag = rsp.etag
             /\ rsp'.status = status /\ rsp'.of = file.version /\ rsp'.named
             /\ rsp'.announced = rsp'.length /\ 0 <= rsp'.length
  <2>1. rsp' = [rsp EXCEPT !.status = status, !.named = TRUE, !.start = part[1], !.length = part[2] - part[1] + 1,
                !.announced = part[2] - part[1] + 1, !.of = file.version]
    BY <1>2 DEF Part, Named
  <2>2. part[2] - part[1] + 1 \in Int
    BY <1>2
  <2>3. rsp' = Answered(status, part[1], part[2] - part[1] + 1, part[2] - part[1] + 1, TRUE, file.version)
    BY <1>1, <2>1 DEF Responses_, Answered
  <2>4. rsp' \in Responses_ /\ rsp'.lm = rsp.lm /\ rsp'.etag = rsp.etag /\ rsp'.status = status
        /\ rsp'.of = file.version /\ rsp'.start = part[1] /\ rsp'.length = part[2] - part[1] + 1
        /\ rsp'.announced = part[2] - part[1] + 1 /\ rsp'.named
    BY <1>1, <1>2, <2>2, <2>3 DEF Answered, Responses_
  <2> QED
    BY <1>1, <1>2, <2>4
<1>3. Fits(Whole(file.size))
  BY <1>1 DEF Whole
<1>4. ASSUME ask.range # None, Parsed(ask.range) PROVE Fits(Clipped(ask.range, file.size))
  <2>1. ask.range \in (Nat \cup {None}) \X ((Int \ {-1}) \cup {None})
    BY <1>0, <1>4, AnswerAssumption DEF AnswerTypes
  <2> DEFINE a == ask.range[1]
             b == ask.range[2]
  <2>2. a \in Nat \cup {None} /\ b \in Int \cup {None} /\ ask.range = <<a, b>>
    BY <2>1
  <2> HIDE DEF a, b
  <2>3. ~ (a = None /\ b = None) /\ (a # None /\ b # None => a <= b)
    BY <1>4, <2>2 DEF Parsed, a, b
  <2> DEFINE first == IF a # None THEN a ELSE IF file.size - 1 - b < 0 THEN 0 ELSE file.size - 1 - b
             last == IF a = None \/ b = None THEN file.size - 1 ELSE b
  <2>4. Clipped(ask.range, file.size) = <<AtMost(first, file.size - 1), AtMost(last, file.size - 1)>>
    BY DEF Clipped, a, b
  <2>5. first \in Nat /\ last \in Int /\ (first <= last \/ last = file.size - 1)
    BY <1>1, <2>2, <2>3, AnswerAssumption
  <2> HIDE DEF first, last
  <2> QED
    BY <1>1, <2>4, <2>5 DEF AtMost
<1>5. CASE file.version = 0
  <2>1. rsp' = [rsp EXCEPT !.status = 404, !.announced = HeadSize]
    BY <1>5 DEF SetContent
  <2>2. rsp' = Answered(404, rsp.start, rsp.length, HeadSize, rsp.named, rsp.of)
    BY <1>1, <2>1, ZenonT(30) DEF Responses_, Answered
  <2>3. HeadSize \in Nat /\ rsp.start \in Int /\ rsp.length \in Int /\ rsp.named \in BOOLEAN /\ rsp.of \in Nat
    BY <1>1, AnswerAssumption DEF Responses_
  <2>4. /\ rsp' \in Responses_ /\ rsp'.lm = rsp.lm /\ rsp'.etag = rsp.etag /\ rsp'.status = 404
        /\ rsp'.announced = HeadSize /\ rsp'.named = rsp.named /\ rsp'.of = rsp.of
    BY <1>1, <2>2, <2>3 DEF Answered, Responses_
  <2> QED
    BY <1>1, <1>5, <2>3, <2>4
<1>6. CASE file.version # 0 /\ rsp.gzip
  <2>1. rsp' = [rsp EXCEPT !.announced = file.size, !.of = file.version]
    BY <1>6 DEF SetContent
  <2>2. rsp' = Answered(rsp.status, rsp.start, rsp.length, file.size, rsp.named, file.version)
    BY <1>1, <2>1 DEF Responses_, Answered
  <2>3. rsp.status \in Nat /\ rsp.start \in Int /\ rsp.length \in Int /\ rsp.named \in BOOLEAN
    BY <1>1 DEF Responses_
  <2>4. /\ rsp' \in Responses_ /\ rsp'.lm = rsp.lm /\ rsp'.etag = rsp.etag /\ rsp'.status = 200
        /\ rsp'.announced = file.size /\ rsp'.named = rsp.named /\ rsp'.of = file.version
    BY <1>1, <2>2, <2>3 DEF Answered, Responses_
  <2> QED
    BY <1>1, <1>6, <2>4
<1>7. CASE file.version # 0 /\ ~ rsp.gzip
  <2>1. \/ rsp' = Part(200, Whole(file.size))
        \/ ask.range # None /\ Parsed(ask.range) /\ rsp' = Part(206, Clipped(ask.range, file.size))
        \/ rsp' = Part(416, Whole(file.size))
    BY <1>7 DEF SetContent
  <2> HIDE DEF Fits
  <2>2. CASE rsp' = Part(200, Whole(file.size))
    BY <1>1, <1>2, <1>3, <1>7, <2>2
  <2>3. CASE ask.range # None /\ Parsed(ask.range) /\ rsp' = Part(206, Clipped(ask.range, file.size))
    <3>1. Fits(Clipped(ask.range, file.size))
      BY <1>4, <2>3
    <3>2. /\ rsp' \in Responses_ /\ rsp'.lm = rsp.lm /\ rsp'.etag = rsp.etag
          /\ rsp'.status = 206 /\ rsp'.of = file.version /\ rsp'.named
          /\ rsp'.announced = rsp'.length /\ 0 <= rsp'.length
      BY <1>2, <1>7, <2>3, <3>1
    <3> QED
      BY <1>1, <1>7, <3>2
  <2>4. CASE rsp' = Part(416, Whole(file.size))
    BY <1>1, <1>2, <1>3, <1>7, <2>4
  <2> QED
    BY <2>1, <2>2, <2>3, <2>4
<1> QED
  BY <1>5, <1>6, <1>7

(* Two writes of sendResponse: what they take of what is left.             *)
LEMMA LeftTypes ==
    ASSUME AnswerTypeInv
    PROVE  TextSize \in Int /\ Left \in Int /\ block_size \in Nat \ {0} /\ HeadSize \in Nat \ {0}
           /\ rsp.announced \in Int /\ rsp.length \in Int /\ rsp.start \in Int /\ rsp.of \in Nat
           /\ ifs.size \in Nat /\ ifs.version \in Nat /\ file.size \in Nat /\ file.version \in Nat
           /\ file.mtime \in Nat /\ rsp.status \in Nat
BY AnswerAssumption DEF AnswerTypeInv, AnswerTypes, TextSize, Left, Responses_, Files

LEMMA TextFacts ==
    ASSUME AnswerTypeInv, SendText
    PROVE  /\ doing = "text" /\ Left > 0 /\ Left = TextSize - count
           /\ count' \in Nat /\ count < count' /\ count' <= count + Left /\ count' <= count + block_size
           /\ body' = IF rsp.named \/ count' < HeadSize THEN 0 ELSE count' - HeadSize
           /\ body' \in Nat
           /\ parts' = parts \cup IF body' > 0 THEN {rsp.of} ELSE {}
           /\ parts' \in SUBSET Nat
           /\ wake' = 0
           /\ UNCHANGED <<m_rate, now, file, changes, copy, ask, rsp, doing, ifs, start_time, since, lengths, asks>>
<1>1. count' = count + Least(block_size, Left) /\ doing = "text" /\ Left > 0 /\ Left = TextSize - count
  BY DEF SendText, Left
<1>2. Least(block_size, Left) \in Nat /\ Least(block_size, Left) > 0 /\ Least(block_size, Left) <= block_size
      /\ Least(block_size, Left) <= Left
  BY <1>1, LeftTypes DEF Least
<1>3. count' \in Nat /\ count < count' /\ count' <= count + Left /\ count' <= count + block_size
  BY <1>1, <1>2, LeftTypes DEF AnswerTypeInv, AnswerTypes
<1>4. body' = IF rsp.named \/ count' < HeadSize THEN 0 ELSE count' - HeadSize
  BY DEF SendText
<1>5. body' \in Nat
  BY <1>3, <1>4, LeftTypes
<1>6. parts' \in SUBSET Nat
  BY LeftTypes DEF SendText, AnswerTypeInv, AnswerTypes
<1> QED
  BY <1>1, <1>3, <1>4, <1>5, <1>6 DEF SendText, fileVars

LEMMA BodyFacts ==
    ASSUME AnswerTypeInv, SendBody
    PROVE  /\ doing = "body" /\ Left > 0 /\ Left = rsp.length - body
           /\ Got \in Nat /\ Got <= Left /\ Got <= block_size
           /\ (0 <= rsp.start /\ Left <= ifs.size - (rsp.start + body) => Got = Least(block_size, Left) /\ Got > 0)
           /\ body' = body + Got /\ count' = count + Got /\ wake' = 0
           /\ parts' = parts \cup IF Got > 0 THEN {ifs.version} ELSE {}
           /\ parts' \in SUBSET Nat
           /\ (ifs.size = 0 /\ 0 <= body => Got = 0)
           /\ ifs' = (IF Got < Least(block_size, Left) THEN Gone ELSE ifs)
           /\ doing' = (IF Got = 0 THEN "done" ELSE "body")
           /\ UNCHANGED <<m_rate, now, file, changes, copy, ask, rsp, start_time, since, lengths, asks>>
<1>1. doing = "body" /\ Left > 0 /\ Left = rsp.length - body /\ body \in Int /\ count \in Nat
  BY DEF SendBody, Left, AnswerTypeInv, AnswerTypes
<1>2. Least(block_size, Left) \in Nat /\ Least(block_size, Left) > 0 /\ Least(block_size, Left) <= block_size
      /\ Least(block_size, Left) <= Left
  BY <1>1, LeftTypes DEF Least
<1>3. Got \in Nat /\ Got <= Least(block_size, Left)
      /\ (0 <= rsp.start /\ Left <= ifs.size - (rsp.start + body) => Got = Least(block_size, Left))
      /\ (ifs.size = 0 /\ 0 <= body => Got = 0)
  <2>1. rsp.start \in Int /\ ifs.size \in Nat
    BY LeftTypes
  <2> QED
    BY <1>1, <1>2, <2>1 DEF Got, Least
<1>4. parts' \in SUBSET Nat
  BY LeftTypes DEF SendBody, AnswerTypeInv, AnswerTypes
<1> QED
  BY <1>1, <1>2, <1>3, <1>4, LeftTypes DEF SendBody, fileVars, Goes

-----------------------------------------------------------------------------
LEMMA SleepFacts ==
    ASSUME AnswerTypeInv, Sleep
    PROVE  /\ doing \in {"text", "body"} /\ m_rate \in Nat \ {0} /\ wake' \in Nat
           /\ start_time <= Seconds(now) => count < rate_after + m_rate * (Seconds(wake') - start_time + 2)
           /\ UNCHANGED <<m_rate, now, file, changes, copy, ask, rsp, doing, ifs, body, count, start_time,
                          parts, since, lengths, asks>>
<1>1. doing \in {"text", "body"} /\ m_rate \in Nat \ {0} /\ limit <= 0 /\ wake' = now + delay
      /\ now \in Nat /\ count \in Nat /\ start_time \in Nat /\ rate_after \in Nat /\ Ticks \in Nat \ {0}
  BY AnswerAssumption DEF Sleep, AnswerTypeInv, AnswerTypes
<1> DEFINE s == Seconds(now)
           p == m_rate * (s - start_time + 1)
           e == - limit
           w == now + ((e * Ticks) \div m_rate + 1)
<1>2. s \in Nat
  BY <1>1, SecondsGrow
<1>3. p \in Int /\ limit = p - (count - rate_after)
  BY <1>1, <1>2 DEF limit
<1>4. e \in Nat /\ e = count - rate_after - p
  BY <1>1, <1>3
<1>5. wake' = w
  <2>1. (- limit * Ticks) = e * Ticks
    BY <1>1, <1>3
  <2> QED
    BY <1>1, <2>1 DEF delay
<1> HIDE DEF e
<1>6. w \in Nat /\ e < m_rate * (Seconds(w) - s + 1)
  BY <1>1, <1>4, SleepSuffices
<1> HIDE DEF w
<1>7. Seconds(w) \in Nat
  BY <1>6, SecondsGrow
<1> DEFINE y == Seconds(w)
<1>8. m_rate * (y - start_time + 2) = m_rate * (y - s + 1) + p
  BY <1>1, <1>2, <1>7
<1>9. m_rate * (y - s + 1) \in Int /\ m_rate * (y - start_time + 2) \in Int
  BY <1>1, <1>2, <1>7
<1>10. count < rate_after + m_rate * (y - start_time + 2)
  <2> HIDE DEF y, p
  <2> QED
    BY <1>1, <1>3, <1>4, <1>6, <1>8, <1>9 DEF y
<1> QED
  BY <1>1, <1>5, <1>6, <1>10 DEF Sleep, fileVars

-----------------------------------------------------------------------------
(* The answer of LastModified and of ETag.                                 *)
LEMMA ModifiedFacts ==
    ASSUME AnswerTypeInv, LastModified
    PROVE  LET mtime == IF file.version = 0 THEN Seconds(now) ELSE file.mtime IN
           /\ doing = "modified" /\ doing' \in {"head", "etag"}
           /\ rsp' \in Responses_ /\ rsp'.lm = mtime /\ rsp'.lm # None /\ mtime \in Nat
           /\ rsp'.of = 0 /\ ~ rsp'.named /\ rsp'.announced = 0
           /\ doing' = "etag" => rsp'.status = 200
           /\ doing' = "head" => rsp'.status = 304 /\ copy.lm = mtime
           /\ UNCHANGED <<m_rate, now, file, changes, copy, ask, ifs, body, count, start_time, wake, parts, since, lengths, asks>>
<1>1. doing = "modified" /\ rsp \in Responses_ /\ rsp.of = 0 /\ ~ rsp.named /\ rsp.announced = 0 /\ rsp.status = 200
  BY DEF LastModified, AnswerTypeInv, AnswerTypes, EarlyInv, Early
<1> DEFINE mtime == IF file.version = 0 THEN Seconds(now) ELSE file.mtime
           same == ask.cond /\ copy.lm = mtime
<1>2. mtime \in Nat /\ mtime # None
  BY SecondsGrow, AnswerAssumption DEF AnswerTypeInv, AnswerTypes, Files
<1>3. /\ rsp' = [rsp EXCEPT !.lm = mtime, !.status = IF same THEN 304 ELSE @]
      /\ doing' = IF same THEN "head" ELSE "etag"
      /\ UNCHANGED <<m_rate, now, file, changes, copy, ask, ifs, body, count, start_time, wake, parts, since, lengths, asks>>
  BY DEF LastModified, Goes, fileVars, sendVars
<1> HIDE DEF mtime
<1>4. rsp' = [status |-> IF same THEN 304 ELSE 200, lm |-> mtime, etag |-> rsp.etag, gzip |-> rsp.gzip,
              start |-> rsp.start, length |-> rsp.length, announced |-> rsp.announced, named |-> rsp.named,
              of |-> rsp.of]
  BY <1>1, <1>3 DEF Responses_
<1>5. rsp' \in Responses_ /\ rsp'.lm = mtime /\ rsp'.of = 0 /\ ~ rsp'.named /\ rsp'.announced = 0
      /\ rsp'.status = IF same THEN 304 ELSE 200
  BY <1>1, <1>2, <1>4 DEF Responses_, Stamps
<1> QED
  BY <1>1, <1>2, <1>3, <1>5 DEF mtime

LEMMA ETagFacts ==
    ASSUME AnswerTypeInv, ETag
    PROVE  /\ doing = "etag" /\ doing' \in {"head", "content"}
           /\ rsp' \in Responses_ /\ rsp'.lm = rsp.lm
           /\ rsp'.etag # None => file.version # 0 /\ rsp'.etag[1] = file.mtime
           /\ rsp'.of = 0 /\ ~ rsp'.named /\ rsp'.announced = 0
           /\ doing' = "content" => rsp'.status = 200
           /\ doing' = "head" => rsp'.status = 304 /\ copy.etag # None /\ copy.etag[1] = file.mtime
                                  /\ file.version # 0
           /\ UNCHANGED <<m_rate, now, file, changes, copy, ask, ifs, body, count, start_time, wake, parts, since, lengths, asks>>
<1>1. doing = "etag" /\ rsp \in Responses_ /\ rsp.of = 0 /\ ~ rsp.named /\ rsp.announced = 0 /\ rsp.status = 200
  BY DEF ETag, AnswerTypeInv, AnswerTypes, EarlyInv, Early
<1> DEFINE etag == IF file.version = 0 THEN None ELSE <<file.mtime, file.size>>
           same == ask.cond /\ copy.etag # None /\ etag = copy.etag
<1>2. etag \in ETags
  BY DEF AnswerTypeInv, AnswerTypes, Files, ETags
<1>3. /\ rsp' = [rsp EXCEPT !.etag = etag, !.status = IF same THEN 304 ELSE @]
      /\ doing' = IF same THEN "head" ELSE "content"
      /\ UNCHANGED <<m_rate, now, file, changes, copy, ask, ifs, body, count, start_time, wake, parts, since, lengths, asks>>
  BY DEF ETag, Goes, fileVars, sendVars
<1>0. etag # None => file.version # 0 /\ etag[1] = file.mtime
  OBVIOUS
<1> HIDE DEF etag
<1>4. rsp' = [status |-> IF same THEN 304 ELSE 200, lm |-> rsp.lm, etag |-> etag, gzip |-> rsp.gzip,
              start |-> rsp.start, length |-> rsp.length, announced |-> rsp.announced, named |-> rsp.named,
              of |-> rsp.of]
  BY <1>1, <1>3 DEF Responses_
<1>5. rsp' \in Responses_ /\ rsp'.lm = rsp.lm /\ rsp'.etag = etag /\ rsp'.of = 0 /\ ~ rsp'.named
      /\ rsp'.announced = 0 /\ rsp'.status = IF same THEN 304 ELSE 200
  BY <1>1, <1>2, <1>4 DEF Responses_
<1> QED
  BY <1>0, <1>1, <1>3, <1>5

(* Between two requests.                                                   *)
LEMMA RestFacts ==
    ASSUME Rest
    PROVE  /\ doing' = "idle" /\ ifs' = Gone /\ Gone \in Files /\ Gone.version = 0
           /\ ask' \in [cond : BOOLEAN, range : Ranges \cup {None}, ifRange : BOOLEAN, view : BOOLEAN]
           /\ rsp' \in Responses_ /\ rsp'.of = 0
           /\ body' = 0 /\ count' = 0 /\ start_time' = 0 /\ wake' = 0 /\ parts' = {} /\ since' = {}
           /\ ~ rsp'.named /\ lengths' = {}
<1>1. NoAnswer \in Responses_ /\ NoAnswer.of = 0 /\ ~ NoAnswer.named
  BY DEF NoAnswer, Responses_, Stamps, ETags
<1>2. NoRequest \in [cond : BOOLEAN, range : Ranges \cup {None}, ifRange : BOOLEAN, view : BOOLEAN]
  BY DEF NoRequest
<1>3. Gone \in Files /\ Gone.version = 0
  BY DEF Gone, Files
<1> QED
  BY <1>1, <1>2, <1>3 DEF Rest

LEMMA AskFacts ==
    ASSUME AnswerTypeInv, Ask
    PROVE  /\ doing = "idle" /\ doing' = "modified" /\ since' = {file.version}
           /\ ask' \in [cond : BOOLEAN, range : Ranges \cup {None}, ifRange : BOOLEAN, view : BOOLEAN]
           /\ rsp' \in Responses_ /\ rsp'.of = 0 /\ ~ rsp'.named /\ rsp'.announced = 0 /\ rsp'.status = 200
           /\ UNCHANGED <<m_rate, now, file, changes, copy, ifs, body, count, start_time, wake, parts, lengths>>
<1>1. ask' \in [cond : BOOLEAN, range : Ranges \cup {None}, ifRange : BOOLEAN, view : BOOLEAN]
  BY DEF Ask
<1>2. ask'.view \in BOOLEAN
  BY <1>1
<1>3. rsp' = [status |-> 200, lm |-> None, etag |-> None, gzip |-> ask'.view, start |-> 0,
              length |-> 0, announced |-> 0, named |-> FALSE, of |-> 0]
  BY DEF Ask, NoAnswer
<1>4. rsp' \in Responses_ /\ rsp'.of = 0 /\ ~ rsp'.named /\ rsp'.announced = 0 /\ rsp'.status = 200
  BY <1>2, <1>3 DEF Responses_, Stamps, ETags
<1> QED
  BY <1>1, <1>4 DEF Ask, Goes, fileVars, sendVars

(* What the client keeps.                                                  *)
LEMMA ReceiveFacts ==
    ASSUME AnswerTypeInv, Receive
    PROVE  /\ doing = "done" /\ Rest
           /\ copy' \in [lm : Stamps, etag : ETags, parts : SUBSET Nat]
           /\ \/ copy' = copy
              \/ rsp.status = 200 /\ copy'.lm = rsp.lm /\ copy'.etag = rsp.etag /\ copy'.parts = parts
           /\ UNCHANGED <<m_rate, now, file, changes, asks>>
<1>1. rsp.lm \in Stamps /\ rsp.etag \in ETags /\ parts \in SUBSET Nat
  BY DEF AnswerTypeInv, AnswerTypes, Responses_
<1> QED
  BY <1>1 DEF Receive, fileVars, AnswerTypeInv, AnswerTypes

-----------------------------------------------------------------------------
LEMMA AnswerTypeStep ==
    ASSUME AnswerTypeInv, [AnswerNext]_answerVars PROVE AnswerTypeInv'
<1>0. AnswerTypes /\ FileInv /\ EarlyInv /\ Seconds(now) \in Nat
  BY SecondsGrow DEF AnswerTypeInv, AnswerTypes
<1>1. CASE Others
  <2>1. AnswerTypes'
    <3>1. since' \in SUBSET Nat
      BY <1>0, <1>1, OthersFacts DEF AnswerTypes, Files
    <3>2. /\ file' \in Files /\ ifs' \in Files /\ changes' = changes + 1
          /\ UNCHANGED <<m_rate, now, copy, ask, rsp, doing, body, count, start_time, wake, parts>>
      BY <1>1, OthersFacts
    <3> QED
      BY <1>0, <3>1, <3>2 DEF AnswerTypes
  <2>2. FileInv'
    <3>1. changes \in Nat /\ file.version \in Nat /\ rsp.of \in Nat /\ Seconds(now)' = Seconds(now)
      BY <1>0, <1>1, OthersFacts DEF AnswerTypes, Files, Responses_, Seconds
    <3> QED
      BY <1>0, <1>1, <3>1, OthersFacts DEF FileInv, Gone
  <2>3. EarlyInv'
    <3>1. ifs' = Gone \/ ifs' = ifs \/ doing \in {"body", "done"}
      BY <1>0, <1>1, OthersFacts DEF EarlyInv, Gone
    <3>2. doing \notin {"body", "done"} => ifs' = Gone
      BY <1>0, <1>1, OthersFacts DEF EarlyInv, Gone
    <3> QED
      BY <1>0, <1>1, <3>2, OthersFacts DEF EarlyInv
  <2> QED
    BY <2>1, <2>2, <2>3 DEF AnswerTypeInv
<1>2. CASE TickAnswer
  <2>1. now' \in Nat /\ now <= now' /\ now \in Nat
    BY <1>0, <1>2 DEF TickAnswer, AnswerTypes
  <2>2. Seconds(now) <= Seconds(now)' /\ Seconds(now)' \in Nat
    BY <2>1, SecondsGrow DEF Seconds
  <2>3. file.mtime \in Nat
    BY <1>0 DEF AnswerTypes, Files
  <2> QED
    BY <1>0, <1>2, <2>1, <2>2, <2>3 DEF TickAnswer, fileVars, sendVars, AnswerTypeInv, AnswerTypes, FileInv, EarlyInv
<1>3. CASE Ask
  <2>1. AnswerTypes'
    <3>1. /\ ask' \in [cond : BOOLEAN, range : Ranges \cup {None}, ifRange : BOOLEAN, view : BOOLEAN]
          /\ rsp' \in Responses_ /\ doing' = "modified" /\ since' = {file.version}
          /\ UNCHANGED <<m_rate, now, file, changes, copy, ifs, body, count, start_time, wake, parts>>
      BY <1>3, AskFacts
    <3> QED
      BY <1>0, <3>1, LeftTypes DEF AnswerTypes, Places_, Early
  <2>2. FileInv'
    BY <1>0, <1>3, AskFacts DEF FileInv, Seconds, AnswerTypes
  <2>3. EarlyInv'
    BY <1>0, <1>3, AskFacts DEF EarlyInv, Early, Places_
  <2> QED
    BY <2>1, <2>2, <2>3 DEF AnswerTypeInv
<1>4. CASE LastModified
  <2>1. AnswerTypes'
    <3>1. /\ rsp' \in Responses_ /\ doing' \in {"head", "etag"}
          /\ UNCHANGED <<m_rate, now, file, changes, copy, ask, ifs, body, count, start_time, wake, parts, since>>
      BY <1>4, ModifiedFacts
    <3> QED
      BY <1>0, <3>1, LeftTypes DEF AnswerTypes, Places_, Early
  <2>2. FileInv'
    BY <1>0, <1>4, ModifiedFacts DEF FileInv, Seconds, AnswerTypes
  <2>3. EarlyInv'
    BY <1>0, <1>4, ModifiedFacts DEF EarlyInv, Early, Places_
  <2> QED
    BY <2>1, <2>2, <2>3 DEF AnswerTypeInv
<1>5. CASE ETag
  <2>1. AnswerTypes'
    <3>1. /\ rsp' \in Responses_ /\ doing' \in {"head", "content"}
          /\ UNCHANGED <<m_rate, now, file, changes, copy, ask, ifs, body, count, start_time, wake, parts, since>>
      BY <1>5, ETagFacts
    <3> QED
      BY <1>0, <3>1, LeftTypes DEF AnswerTypes, Places_, Early
  <2>2. FileInv'
    BY <1>0, <1>5, ETagFacts DEF FileInv, Seconds, AnswerTypes
  <2>3. EarlyInv'
    BY <1>0, <1>5, ETagFacts DEF EarlyInv, Early, Places_
  <2> QED
    BY <2>1, <2>2, <2>3 DEF AnswerTypeInv
<1>6. CASE SetContent
  <2>1. AnswerTypes'
    <3>1. /\ rsp' \in Responses_ /\ doing' = "head"
          /\ UNCHANGED <<m_rate, now, file, changes, copy, ask, ifs, body, count, start_time, wake, parts, since>>
      BY <1>6, ContentFacts
    <3> QED
      BY <1>0, <3>1, LeftTypes DEF AnswerTypes, Places_, Early
  <2>2. FileInv'
    BY <1>0, <1>6, ContentFacts, LeftTypes DEF FileInv, Seconds, AnswerTypes
  <2>3. EarlyInv'
    BY <1>0, <1>6, ContentFacts DEF EarlyInv, Early, Places_
  <2> QED
    BY <2>1, <2>2, <2>3 DEF AnswerTypeInv
<1>7. CASE SendResponse
  <2>1. /\ doing = "head" /\ doing' = "text" /\ start_time' = Seconds(now)
        /\ UNCHANGED <<m_rate, now, file, changes, copy, ask, rsp, ifs, body, count, wake, parts, since, lengths, asks>>
    BY <1>7 DEF SendResponse, Goes, fileVars
  <2> QED
    BY <1>0, <2>1 DEF AnswerTypeInv, AnswerTypes, FileInv, EarlyInv, Early, Places_, Seconds
<1>8. CASE Sleep
  BY <1>0, <1>8, SleepFacts, ZenonT(30) DEF AnswerTypeInv, AnswerTypes, FileInv, EarlyInv, Early, Places_, Seconds
<1>9. CASE SendText
  <2>1. AnswerTypes'
    <3>1. /\ count' \in Nat /\ body' \in Nat /\ parts' \in SUBSET Nat /\ wake' = 0
          /\ UNCHANGED <<m_rate, now, file, changes, copy, ask, rsp, doing, ifs, start_time, since>>
      BY <1>9, TextFacts
    <3> QED
      BY <1>0, <3>1, LeftTypes DEF AnswerTypes, Places_, Early
  <2>2. FileInv'
    BY <1>0, <1>9, TextFacts DEF FileInv, Seconds, AnswerTypes
  <2>3. EarlyInv'
    BY <1>0, <1>9, TextFacts DEF EarlyInv, Early, Places_
  <2> QED
    BY <2>1, <2>2, <2>3 DEF AnswerTypeInv
<1>10. CASE OpenFile
  <2>1. /\ doing = "text" /\ \/ doing' = "body" /\ ifs' = file
                             \/ doing' = "done" /\ ifs' = ifs
        /\ UNCHANGED <<m_rate, now, file, changes, copy, ask, rsp, body, count, start_time, wake, parts, since, lengths, asks>>
    BY <1>10 DEF OpenFile, Goes, fileVars, sendVars
  <2> QED
    BY <1>0, <2>1 DEF AnswerTypeInv, AnswerTypes, FileInv, EarlyInv, Early, Places_, Seconds
<1>11. CASE SendBody
  <2>1. Gone \in Files /\ Gone.version = 0
    BY DEF Gone, Files
  <2>2. ifs' = Gone \/ ifs' = ifs
    BY <1>0, <1>11, BodyFacts DEF AnswerTypeInv
  <2>3. body' \in Int /\ count' \in Nat
    BY <1>0, <1>11, BodyFacts DEF AnswerTypeInv, AnswerTypes
  <2>4. AnswerTypes'
    <3>1. /\ parts' \in SUBSET Nat /\ wake' = 0 /\ doing' \in {"body", "done"}
          /\ UNCHANGED <<m_rate, now, file, changes, copy, ask, rsp, start_time, since>>
      BY <1>11, BodyFacts
    <3> QED
      BY <1>0, <2>1, <2>2, <2>3, <3>1 DEF AnswerTypes, Places_, Early
  <2>5. FileInv'
    BY <1>0, <1>11, <2>2, BodyFacts DEF FileInv, Seconds, Gone
  <2>6. EarlyInv'
    BY <1>0, <1>11, <2>2, BodyFacts DEF EarlyInv, Early, Places_
  <2> QED
    BY <2>4, <2>5, <2>6 DEF AnswerTypeInv
<1>12. CASE BodyEnds
  BY <1>0, <1>12 DEF BodyEnds, Goes, fileVars, sendVars, AnswerTypeInv, AnswerTypes, FileInv, EarlyInv, Early, Places_, Seconds
<1>13. CASE SendFails
  <2>1. Rest /\ UNCHANGED <<m_rate, now, file, changes, copy, asks>>
    BY <1>13 DEF SendFails, fileVars
  <2>2. changes \in Nat
    BY <1>0 DEF AnswerTypes
  <2> QED
    BY <1>0, <2>1, <2>2, RestFacts DEF AnswerTypeInv, AnswerTypes, FileInv, EarlyInv, Early, Places_, Seconds
<1>14. CASE Receive
  <2>1. Rest /\ UNCHANGED <<m_rate, now, file, changes, asks>> /\ changes \in Nat
        /\ copy' \in [lm : Stamps, etag : ETags, parts : SUBSET Nat]
    BY <1>0, <1>14, ReceiveFacts DEF AnswerTypes
  <2> QED
    BY <1>0, <2>1, RestFacts DEF AnswerTypeInv, AnswerTypes, FileInv, EarlyInv, Early, Places_, Seconds
<1>15. CASE UNCHANGED answerVars
  BY <1>0, <1>15 DEF answerVars, fileVars, sendVars, AnswerTypeInv, AnswerTypes, FileInv, EarlyInv, Early, Places_, Seconds
<1> QED
  BY <1>1, <1>2, <1>3, <1>4, <1>5, <1>6, <1>7, <1>8, <1>9, <1>10, <1>11, <1>12, <1>13, <1>14, <1>15, AnswerCases

-----------------------------------------------------------------------------
(* What is announced is what follows.                                      *)
LEMMA FrameStep ==
    ASSUME AnswerTypeInv, FrameInv, [AnswerNext]_answerVars PROVE FrameInv'
<1>0. AnswerTypes /\ FileInv /\ EarlyInv /\ LengthInv /\ RangeInv /\ SendInv /\ AnswerFramed
  BY DEF AnswerTypeInv, FrameInv
<1> USE LeftTypes
<1>1. CASE Others
  <2>1. /\ UNCHANGED <<rsp, doing, body, count>> /\ file' \in Files
        /\ ifs' = ifs \/ ifs' = file'
        /\ lengths' = IF rsp.named THEN lengths \cup {file'.size} ELSE lengths
    BY <1>0, <1>1, OthersFacts DEF AnswerTypeInv
  <2>2. LengthInv'
    BY <1>0, <2>1 DEF LengthInv, Files
  <2>3. FileTooShort => FileTooShort'
    BY <2>1 DEF FileTooShort
  <2>4. RangeInv' /\ AnswerFramed'
    BY <1>0, <2>1, <2>3 DEF RangeInv, AnswerFramed
  <2>5. Reaches' => Reaches /\ rsp.start + rsp.length <= file'.size
    <3>1. rsp.named => file'.size \in lengths' /\ file'.size \in Nat
      BY <2>1 DEF Files
    <3>2. Reaches' => rsp.named /\ \A n \in lengths' : ~ (n < rsp.start + rsp.length)
      BY <2>1 DEF Reaches, FileTooShort
    <3>3. Reaches' => Reaches
      BY <2>1, <2>3 DEF Reaches
    <3> QED
      BY <3>1, <3>2, <3>3
  <2>6. SendInv'
    BY <1>0, <2>1, <2>5 DEF SendInv, TextSize
  <2> QED
    BY <2>2, <2>4, <2>6 DEF FrameInv
<1>2. CASE TickAnswer
  BY <1>0, <1>2 DEF TickAnswer, fileVars, sendVars, FrameInv, LengthInv, RangeInv, SendInv, AnswerFramed, Reaches,
     FileTooShort, TextSize
<1>3. CASE Ask
  <2>1. /\ ~ rsp'.named /\ rsp'.announced = 0 /\ rsp'.status # 206
        /\ doing' \notin {"text", "body", "done"} /\ UNCHANGED lengths
    BY <1>3, AskFacts
  <2> QED
    BY <1>0, <2>1 DEF FrameInv, LengthInv, RangeInv, SendInv, AnswerFramed
<1>4. CASE LastModified
  <2>1. /\ ~ rsp'.named /\ rsp'.announced = 0 /\ rsp'.status # 206
        /\ doing' \notin {"text", "body", "done"} /\ UNCHANGED lengths
    BY <1>4, ModifiedFacts
  <2> QED
    BY <1>0, <2>1 DEF FrameInv, LengthInv, RangeInv, SendInv, AnswerFramed
<1>5. CASE ETag
  <2>1. /\ ~ rsp'.named /\ rsp'.announced = 0 /\ rsp'.status # 206
        /\ doing' \notin {"text", "body", "done"} /\ UNCHANGED lengths
    BY <1>5, ETagFacts
  <2> QED
    BY <1>0, <2>1 DEF FrameInv, LengthInv, RangeInv, SendInv, AnswerFramed
<1>6. CASE SetContent
  <2>1. /\ file' = file /\ doing' = "head"
        /\ rsp'.of = IF rsp'.status = 404 THEN 0 ELSE file.version
        /\ rsp'.status = 404 <=> file.version = 0
        /\ ~ rsp'.named => rsp'.announced >= 0 /\ rsp'.status # 206
        /\ rsp'.named => rsp'.announced = rsp'.length /\ file.version # 0 /\ 0 <= rsp'.length
        /\ lengths' = IF rsp'.named THEN {file.size} ELSE {}
    BY <1>6, ContentFacts
  <2>2. rsp' \in Responses_
    BY <1>6, ContentFacts
  <2>3. rsp'.announced \in Int /\ rsp'.length \in Int /\ file.size \in Nat
    BY <2>2 DEF Responses_
  <2> QED
    BY <2>1, <2>3 DEF FrameInv, LengthInv, RangeInv, SendInv, AnswerFramed
<1>7. CASE SendResponse
  <2>1. /\ doing = "head" /\ doing' = "text" /\ body = 0 /\ count = 0
        /\ UNCHANGED <<file, rsp, ifs, body, count, lengths>>
    BY <1>0, <1>7 DEF SendResponse, Goes, fileVars, EarlyInv
  <2>2. 0 <= TextSize /\ 0 < HeadSize
    BY <1>0, <2>1 DEF RangeInv, TextSize
  <2> QED
    BY <1>0, <2>1, <2>2 DEF FrameInv, LengthInv, RangeInv, SendInv, AnswerFramed, TextSize
<1>8. CASE Sleep
  <2>1. UNCHANGED <<file, rsp, doing, ifs, body, count, lengths>>
    BY <1>8, SleepFacts
  <2> QED
    BY <1>0, <2>1 DEF FrameInv, LengthInv, RangeInv, SendInv, AnswerFramed, Reaches, FileTooShort, TextSize
<1>9. CASE SendText
  <2>1. count' <= TextSize
    BY <1>0, <1>9, TextFacts DEF AnswerTypes
  <2> QED
    BY <1>0, <1>9, <2>1, TextFacts DEF FrameInv, LengthInv, RangeInv, SendInv, AnswerFramed, Reaches, FileTooShort,
       TextSize
<1>10. CASE OpenFile
  <2>1. /\ doing = "text" /\ Left = 0
        /\ \/ doing' = "body" /\ ifs' = file /\ rsp.named
           \/ doing' = "done" /\ ifs' = ifs /\ ~ rsp.named
        /\ UNCHANGED <<file, rsp, body, count, lengths>>
    BY <1>10 DEF OpenFile, Goes, fileVars, sendVars
  <2>2. ~ rsp.named => body = rsp.announced
    <3>1. count = TextSize /\ count \in Nat
      BY <1>0, <2>1 DEF Left, AnswerTypes
    <3> QED
      BY <1>0, <2>1, <3>1 DEF SendInv, TextSize, RangeInv
  <2>3. rsp.named => body = 0 /\ 0 <= rsp.length
    BY <1>0, <2>1 DEF SendInv, RangeInv
  <2>4. Reaches => rsp.start + rsp.length <= file.size
    <3>1. rsp.named => file.size \in lengths
      BY <1>0 DEF LengthInv
    <3> QED
      BY <3>1 DEF Reaches, FileTooShort
  <2>5. LengthInv' /\ RangeInv'
    BY <1>0, <2>1 DEF LengthInv, RangeInv
  <2>6. SendInv'
    BY <1>0, <2>1, <2>3, <2>4 DEF SendInv, Reaches, FileTooShort
  <2>7. AnswerFramed'
    BY <1>0, <2>1, <2>2 DEF AnswerFramed
  <2> QED
    BY <2>5, <2>6, <2>7 DEF FrameInv
<1>11. CASE SendBody
  <2>1. /\ doing = "body" /\ Left > 0 /\ Left = rsp.length - body /\ Got \in Nat /\ Got <= Left
        /\ body' = body + Got /\ rsp.named /\ 0 <= body /\ body \in Int
        /\ UNCHANGED <<file, rsp, lengths>>
    BY <1>0, <1>11, BodyFacts DEF SendInv, AnswerTypes
  <2>2. Reaches => Got = Least(block_size, Left) /\ Got > 0
    <3>1. SUFFICES ASSUME Reaches PROVE 0 <= rsp.start /\ Left <= ifs.size - (rsp.start + body)
      BY <1>11, BodyFacts
    <3>2. 0 <= rsp.start /\ rsp.start + rsp.length <= ifs.size
      BY <1>0, <2>1, <3>1 DEF SendInv, Reaches, FileTooShort
    <3> QED
      BY <2>1, <3>2
  <2>3. Reaches => ifs' = ifs /\ doing' = "body"
    <3>1. Reaches => ~ (Got < Least(block_size, Left))
      BY <2>1, <2>2
    <3> QED
      BY <1>11, <2>1, <2>2, <3>1, BodyFacts
  <2>4. LengthInv' /\ RangeInv'
    BY <1>0, <2>1 DEF LengthInv, RangeInv
  <2>5. SendInv'
    <3>1. doing' # "text" /\ rsp'.named /\ 0 <= body' /\ body' <= rsp.length
      BY <1>11, <2>1, BodyFacts
    <3> QED
      BY <1>0, <2>1, <2>3, <3>1 DEF SendInv, Reaches, FileTooShort
  <2>6. AnswerFramed'
    <3>1. SUFFICES ASSUME doing' = "done" PROVE rsp.named /\ body' < rsp.announced /\ FileTooShort
      BY <2>1 DEF AnswerFramed, FileTooShort
    <3>2. FileTooShort
      BY <2>1, <2>3, <3>1 DEF Reaches
    <3>3. Got = 0
      BY <1>11, <3>1, BodyFacts
    <3> QED
      BY <1>0, <2>1, <3>2, <3>3 DEF RangeInv
  <2> QED
    BY <2>4, <2>5, <2>6 DEF FrameInv
<1>12. CASE BodyEnds
  <2>1. /\ doing = "body" /\ doing' = "done" /\ rsp.length - body <= 0 /\ body \in Int
        /\ UNCHANGED <<file, rsp, ifs, body, lengths>>
    BY <1>0, <1>12 DEF BodyEnds, Goes, fileVars, sendVars, Left, AnswerTypes
  <2>2. rsp.named /\ body = rsp.announced
    BY <1>0, <2>1 DEF SendInv, RangeInv
  <2> QED
    BY <1>0, <2>1, <2>2 DEF FrameInv, LengthInv, RangeInv, SendInv, AnswerFramed
<1>13. CASE SendFails \/ Receive
  <2>1. doing' = "idle" /\ ~ rsp'.named /\ lengths' = {}
    BY <1>13, RestFacts, ReceiveFacts DEF SendFails
  <2> QED
    BY <2>1 DEF FrameInv, LengthInv, RangeInv, SendInv, AnswerFramed
<1>15. CASE UNCHANGED answerVars
  BY <1>0, <1>15 DEF answerVars, fileVars, sendVars, FrameInv, LengthInv, RangeInv, SendInv, AnswerFramed, Reaches,
     FileTooShort, TextSize
<1> QED
  BY <1>1, <1>2, <1>3, <1>4, <1>5, <1>6, <1>7, <1>8, <1>9, <1>10, <1>11, <1>12, <1>13, <1>15, AnswerCases

-----------------------------------------------------------------------------
(* The rate.                                                               *)
Allowed(t) == rate_after + m_rate * (Seconds(t) - start_time + 2)
LEMMA AllowedGrows ==
    ASSUME AnswerTypeInv, NEW a \in Nat, NEW b \in Nat, a <= b
    PROVE  Allowed(a) \in Int /\ Allowed(b) \in Int /\ Allowed(a) <= Allowed(b)
<1>1. Seconds(a) \in Nat /\ Seconds(b) \in Nat /\ Seconds(a) <= Seconds(b)
  BY SecondsGrow
<1> DEFINE x == Seconds(a) - start_time + 2
           y == Seconds(b) - start_time + 2
<1>2. m_rate \in Nat /\ rate_after \in Nat /\ x \in Int /\ y \in Int /\ x <= y
  BY <1>1, AnswerAssumption DEF AnswerTypeInv, AnswerTypes
<1> HIDE DEF x, y
<1>3. m_rate * x \in Int /\ m_rate * y \in Int /\ m_rate * x <= m_rate * y
  BY <1>2, ProductGrows
<1> QED
  BY <1>2, <1>3 DEF Allowed, x, y

LEMMA MaySendFacts ==
    ASSUME AnswerTypeInv, AnswerRateInv, MaySend, m_rate > 0, doing \in {"text", "body"}
    PROVE  count < Allowed(now) /\ Allowed(now) \in Int
<1>1. now \in Nat /\ wake \in Nat /\ m_rate \in Nat /\ count \in Nat /\ start_time \in Nat /\ rate_after \in Nat
  BY AnswerAssumption DEF AnswerTypeInv, AnswerTypes
<1>2. CASE wake = 0
  <2> DEFINE s == Seconds(now)
             p == m_rate * (s - start_time + 1)
  <2>1. s \in Nat
    BY <1>1, SecondsGrow
  <2>2. p \in Int /\ m_rate * (s - start_time + 2) = p + m_rate
    BY <1>1, <2>1
  <2>3. p - (count - rate_after) > 0
    BY <1>2 DEF MaySend, limit
  <2> HIDE DEF p
  <2> QED
    BY <1>1, <2>2, <2>3 DEF Allowed
<1>3. CASE wake # 0
  <2>1. wake <= now /\ count < Allowed(wake)
    BY <1>1, <1>3 DEF MaySend, AnswerRateInv, WakeInv, Allowed
  <2>2. Allowed(wake) \in Int /\ Allowed(now) \in Int /\ Allowed(wake) <= Allowed(now)
    BY <1>1, <2>1, AllowedGrows
  <2> QED
    BY <1>1, <2>1, <2>2
<1> QED
  BY <1>2, <1>3

LEMMA RateStep ==
    ASSUME AnswerTypeInv, AnswerRateInv, [AnswerNext]_answerVars PROVE AnswerRateInv'
<1>0. /\ now \in Nat /\ wake \in Nat /\ m_rate \in Nat /\ count \in Nat /\ start_time \in Nat
      /\ rate_after \in Nat /\ block_size \in Nat \ {0} /\ Allowed(now) \in Int
      /\ Seconds(now) \in Nat /\ WakeInv /\ RateKept
  BY AnswerAssumption, AllowedGrows, SecondsGrow DEF AnswerTypeInv, AnswerTypes, AnswerRateInv
<1>1. ASSUME UNCHANGED <<m_rate, now, count, start_time, wake>>,
             doing' = doing \/ doing' \notin {"text", "body"} \/ doing \in {"text", "body"}
      PROVE  AnswerRateInv'
  BY <1>0, <1>1 DEF AnswerRateInv, WakeInv, RateKept, Seconds
<1>2. CASE TickAnswer
  <2>1. now' \in Nat /\ now <= now' /\ UNCHANGED <<m_rate, count, start_time, wake, doing>>
    BY <1>0, <1>2 DEF TickAnswer, sendVars
  <2>2. Allowed(now) <= Allowed(now') /\ Allowed(now') \in Int
    BY <1>0, <2>1, AllowedGrows
  <2>3. Seconds(now) <= Seconds(now') /\ Seconds(now') \in Nat
    BY <1>0, <2>1, SecondsGrow
  <2>4. WakeInv'
    BY <1>0, <2>1, <2>3 DEF WakeInv, Seconds
  <2>5. RateKept'
    <3>1. SUFFICES ASSUME m_rate > 0, doing \in {"text", "body"} PROVE count < Allowed(now') + block_size
      BY <2>1 DEF RateKept, Allowed, Seconds
    <3>2. count < Allowed(now) + block_size
      BY <1>0, <3>1 DEF RateKept, Allowed
    <3> QED
      BY <1>0, <2>2, <3>2
  <2> QED
    BY <2>4, <2>5 DEF AnswerRateInv
<1>3. CASE SendResponse
  <2>1. /\ doing' = "text" /\ start_time' = Seconds(now) /\ count = 0 /\ wake = 0
        /\ UNCHANGED <<m_rate, now, count, wake>>
    BY <1>3 DEF SendResponse, Goes, AnswerTypeInv, EarlyInv
  <2>2. WakeInv'
    BY <1>0, <2>1 DEF WakeInv, Seconds
  <2>3. RateKept'
    <3>1. Seconds(now)' - start_time' + 2 = 2
      BY <1>0, <2>1 DEF Seconds
    <3>2. m_rate' * (Seconds(now)' - start_time' + 2) = m_rate * 2
      BY <2>1, <3>1
    <3> QED
      BY <1>0, <2>1, <3>2 DEF RateKept
  <2> QED
    BY <2>2, <2>3 DEF AnswerRateInv
<1>4. CASE Sleep
  <2>1. WakeInv'
    BY <1>0, <1>4, SleepFacts DEF WakeInv, Seconds
  <2>2. RateKept'
    BY <1>0, <1>4, SleepFacts DEF RateKept, Seconds
  <2> QED
    BY <2>1, <2>2 DEF AnswerRateInv
<1>5. CASE SendText \/ SendBody
  <2>1. /\ doing \in {"text", "body"} /\ count' \in Nat /\ count' <= count + block_size /\ wake' = 0
        /\ UNCHANGED <<m_rate, now, start_time>>
    BY <1>0, <1>5, TextFacts, BodyFacts
  <2>2. MaySend
    BY <1>5 DEF SendText, SendBody
  <2>3. WakeInv'
    BY <1>0, <2>1 DEF WakeInv, Seconds
  <2>4. RateKept'
    <3>1. SUFFICES ASSUME m_rate > 0 PROVE count' < Allowed(now) + block_size
      BY <2>1 DEF RateKept, Allowed, Seconds
    <3>2. count < Allowed(now)
      BY <2>1, <2>2, <3>1, MaySendFacts
    <3> QED
      BY <1>0, <2>1, <3>2
  <2> QED
    BY <2>3, <2>4 DEF AnswerRateInv
<1>6. CASE Others
  BY <1>1, <1>6, OthersFacts
<1>7. CASE Ask
  BY <1>1, <1>7, AskFacts
<1>8. CASE LastModified
  BY <1>1, <1>8, ModifiedFacts
<1>9. CASE ETag
  BY <1>1, <1>9, ETagFacts
<1>10. CASE SetContent
  BY <1>1, <1>10, ContentFacts
<1>11. CASE OpenFile
  BY <1>1, <1>11 DEF OpenFile, Goes, sendVars
<1>12. CASE BodyEnds
  BY <1>1, <1>12 DEF BodyEnds, Goes, sendVars
<1>13. CASE SendFails \/ Receive
  <2>1. doing' = "idle"
    BY <1>13, RestFacts, ReceiveFacts DEF SendFails
  <2> QED
    BY <2>1 DEF AnswerRateInv, WakeInv, RateKept
<1>14. CASE UNCHANGED answerVars
  BY <1>1, <1>14 DEF answerVars, sendVars
<1> QED
  BY <1>2, <1>3, <1>4, <1>5, <1>6, <1>7, <1>8, <1>9, <1>10, <1>11, <1>12, <1>13, <1>14, AnswerCases

-----------------------------------------------------------------------------
(* What is dated stays so: a change gives the file a time of its own.      *)
LEMMA DatedTypes ==
    ASSUME AnswerTypeInv
    PROVE  /\ Seconds(now) \in Nat /\ file.mtime \in Nat /\ file.version \in Nat
           /\ copy.lm # None => copy.lm \in Nat
           /\ copy.etag # None => copy.etag[1] \in Nat
           /\ rsp.lm # None => rsp.lm \in Nat
           /\ rsp.etag # None => rsp.etag[1] \in Nat
BY SecondsGrow DEF AnswerTypeInv, AnswerTypes, Files, Responses_, Stamps, ETags

LEMMA DatedChange ==
    ASSUME AnswerTypeInv, Others, NEW t \in Nat, t <= Seconds(now), file.version # 0 => t <= file.mtime,
           file.version = 0 => t < Seconds(now)
    PROVE  /\ Seconds(now)' = Seconds(now)
           /\ file'.version # 0 => t < file'.mtime
           /\ file'.version = 0 => t < Seconds(now)
<1>1. /\ Seconds(now) \in Nat /\ file.mtime \in Nat /\ now' = now
      /\ file.version = 0 \/ Seconds(now) > file.mtime
      /\ \/ file'.version # 0 /\ file'.mtime = Seconds(now)
         \/ file'.version = 0 /\ file.version # 0
  <2>1. changes \in Nat /\ Gone.version = 0
    BY DEF AnswerTypeInv, AnswerTypes, Gone
  <2> QED
    BY <2>1, DatedTypes, OthersFacts
<1> QED
  BY <1>1 DEF Seconds

LEMMA DatedTick ==
    ASSUME AnswerTypeInv, TickAnswer, NEW t \in Nat, NEW bytes, Dated(t, bytes)
    PROVE  /\ t <= Seconds(now)'
           /\ file'.version # 0 => t <= file'.mtime
           /\ file'.version = 0 => t < Seconds(now)'
           /\ file'.version # 0 /\ t = file'.mtime => bytes \subseteq {file'.version}
<1>1. now \in Nat /\ now' \in Nat /\ now <= now' /\ file' = file
  BY DEF TickAnswer, fileVars, AnswerTypeInv, AnswerTypes
<1>2. Seconds(now) \in Nat /\ Seconds(now)' \in Nat /\ Seconds(now) <= Seconds(now)'
  BY <1>1, SecondsGrow DEF Seconds
<1> QED
  BY <1>1, <1>2 DEF Dated

LEMMA CopyStays ==
    ASSUME AnswerTypeInv, CopyInv, UNCHANGED <<now, file, copy>> PROVE CopyInv'
BY DEF CopyInv, Dated, Seconds

(* The answer's dates, when it gets no bytes but those of its sources.     *)
LEMMA SentStays ==
    ASSUME AnswerTypeInv, RspInv, UNCHANGED <<now, file, rsp>>,
           doing \in {"head", "text", "body", "done"}, doing' \in {"head", "text", "body", "done"},
           Sources' \subseteq Sources \cup (IF file.version = 0 THEN {} ELSE {file.version})
    PROVE  RspInv'
<1>1. doing' \notin {"etag", "content"}
  OBVIOUS
<1>2. ASSUME NEW t, Dated(t, Sources) PROVE Dated(t, Sources)'
  BY <1>2 DEF Dated, Seconds
<1>3. CASE rsp.status = 200
  <2>1. Dated(rsp.lm, Sources) /\ (rsp.etag # None => Dated(rsp.etag[1], Sources))
    BY <1>3 DEF RspInv
  <2>2. Dated(rsp.lm, Sources)' /\ (rsp.etag # None => Dated(rsp.etag[1], Sources)')
    BY <1>2, <2>1 DEF Dated, Seconds
  <2> QED
    BY <1>1, <2>2 DEF RspInv
<1>4. CASE rsp.status # 200
  BY <1>1, <1>4 DEF RspInv
<1> QED
  BY <1>3, <1>4

LEMMA SinceStays ==
    ASSUME SinceInv, UNCHANGED <<file, rsp, copy, since>>, doing # "idle"
    PROVE  SinceInv'
BY DEF SinceInv

LEMMA StaleStep ==
    ASSUME AnswerTypeInv, FrameInv, StaleInv, [AnswerNext]_answerVars PROVE StaleInv'
<1>0. CopyInv /\ RspInv /\ SinceInv /\ FileInv /\ EarlyInv
  BY DEF StaleInv, AnswerTypeInv
<1>1. CASE Others
  <2>1. /\ UNCHANGED <<now, copy, rsp, doing>> /\ Seconds(now)' = Seconds(now)
        /\ since' = IF doing = "idle" THEN {} ELSE since \cup {file'.version}
    BY <1>1, OthersFacts DEF Seconds
  <2>2. ASSUME NEW t \in Nat, NEW bytes, Dated(t, bytes)
        PROVE  /\ t <= Seconds(now)
               /\ file'.version # 0 => t < file'.mtime /\ t # file'.mtime
               /\ file'.version = 0 => t < Seconds(now)
    <3>1. t <= Seconds(now) /\ (file.version # 0 => t <= file.mtime) /\ (file.version = 0 => t < Seconds(now))
      BY <2>2 DEF Dated
    <3>2. file'.mtime \in Nat
      BY <1>1, OthersFacts DEF Files
    <3> QED
      BY <1>1, <3>1, <3>2, DatedChange
  <2>3. CopyInv'
    <3>1. file'.mtime \in Nat
      BY <1>1, OthersFacts DEF Files
    <3> QED
      BY <1>0, <2>1, <2>2, <3>1, DatedTypes DEF CopyInv, Dated
  <2>4. RspInv'
    <3>1. file'.mtime \in Nat /\ (file'.version # 0 => file'.mtime = Seconds(now))
      BY <1>1, OthersFacts DEF Files, Gone
    <3>2. doing \in {"etag", "content"} => rsp.lm # None /\ rsp.lm \in Nat
      BY <1>0, DatedTypes DEF EarlyInv, Places_, Early
    <3>3. doing' \in {"etag", "content"} =>
              rsp'.lm <= Seconds(now)' /\ (file'.version # 0 => rsp'.lm <= file'.mtime)
      BY <1>0, <2>1, <3>1, <3>2, DatedTypes DEF RspInv
    <3>4. doing \in {"head", "text", "body", "done"} => rsp.lm \in Nat
      BY <1>0, DatedTypes DEF EarlyInv, Places_, Early
    <3>5. doing' = "content" /\ rsp'.etag # None => Dated(rsp.etag[1], {})'
      BY <1>0, <2>1, <2>2, <3>1, DatedTypes DEF RspInv, Dated
    <3>6. doing' \in {"head", "text", "body", "done"} /\ rsp'.status = 200 =>
              Dated(rsp.lm, Sources)' /\ (rsp'.etag # None => Dated(rsp.etag[1], Sources)')
      BY <1>0, <2>1, <2>2, <3>1, <3>4, DatedTypes DEF RspInv, Dated
    <3> QED
      BY <3>3, <3>5, <3>6 DEF RspInv
  <2>5. SinceInv'
    BY <1>0, <2>1 DEF SinceInv
  <2> QED
    BY <2>3, <2>4, <2>5 DEF StaleInv
<1>2. CASE TickAnswer
  <2>1. UNCHANGED <<file, copy, rsp, doing, ifs, parts, since>>
    BY <1>2 DEF TickAnswer, fileVars, sendVars
  <2>2. CopyInv'
    BY <1>0, <1>2, <2>1, DatedTypes, DatedTick DEF CopyInv, Dated
  <2>3. RspInv'
    <3>1. doing \in {"etag", "content", "head", "text", "body", "done"} => rsp.lm \in Nat
      BY <1>0, DatedTypes DEF EarlyInv, Places_, Early
    <3>2. Sources' = Sources
      BY <2>1 DEF Sources
    <3>3. Seconds(now) <= Seconds(now)' /\ Seconds(now)' \in Nat
      BY <1>2, SecondsGrow DEF TickAnswer, AnswerTypeInv, AnswerTypes, Seconds
    <3>4. ASSUME NEW t \in Nat, NEW bytes, Dated(t, bytes)
          PROVE  /\ t <= Seconds(now)'
                 /\ file'.version # 0 => t <= file'.mtime
                 /\ file'.version = 0 => t < Seconds(now)'
                 /\ file'.version # 0 /\ t = file'.mtime => bytes \subseteq {file'.version}
      BY <1>2, <3>4, DatedTick
    <3>5. doing' \in {"etag", "content"} =>
              rsp'.lm <= Seconds(now)' /\ (file'.version # 0 => rsp'.lm <= file'.mtime)
      BY <1>0, <2>1, <3>1, <3>3, DatedTypes DEF RspInv
    <3>6. doing' = "content" /\ rsp'.etag # None => Dated(rsp.etag[1], {})'
      BY <1>0, <2>1, <3>4, DatedTypes DEF RspInv, Dated
    <3>7. doing' \in {"head", "text", "body", "done"} /\ rsp'.status = 200 =>
              Dated(rsp.lm, Sources)' /\ (rsp'.etag # None => Dated(rsp.etag[1], Sources)')
      BY <1>0, <2>1, <3>1, <3>2, <3>4, DatedTypes DEF RspInv, Dated
    <3> QED
      BY <3>5, <3>6, <3>7 DEF RspInv
  <2>4. SinceInv'
    BY <1>0, <2>1 DEF SinceInv
  <2> QED
    BY <2>2, <2>3, <2>4 DEF StaleInv
<1>3. CASE Ask
  <2>1. /\ doing' = "modified" /\ since' = {file.version} /\ rsp'.status = 200
        /\ UNCHANGED <<now, file, copy>>
    BY <1>3, AskFacts
  <2> QED
    BY <1>0, <2>1, CopyStays DEF StaleInv, RspInv, SinceInv
<1>4. CASE LastModified
  <2> DEFINE mtime == IF file.version = 0 THEN Seconds(now) ELSE file.mtime
  <2>1. /\ doing = "modified" /\ doing' \in {"head", "etag"} /\ rsp'.lm = mtime
        /\ doing' = "etag" => rsp'.status = 200
        /\ doing' = "head" => rsp'.status = 304 /\ copy.lm = mtime
        /\ UNCHANGED <<now, file, copy, since>>
    BY <1>4, ModifiedFacts
  <2>2. mtime <= Seconds(now) /\ mtime \in Nat /\ mtime # None
    BY <1>0, DatedTypes, AnswerAssumption DEF FileInv
  <2>3. RspInv'
    BY <2>1, <2>2, DatedTypes DEF RspInv, Seconds
  <2>4. file.version \in since
    BY <1>0, <2>1 DEF SinceInv
  <2>5. copy.lm = mtime => copy.parts \subseteq {file.version}
    BY <1>0, <2>2, DatedTypes DEF CopyInv, Dated
  <2>6. SinceInv'
    BY <2>1, <2>4, <2>5 DEF SinceInv
  <2> QED
    BY <1>0, <2>1, <2>3, <2>6, CopyStays DEF StaleInv
<1>5. CASE ETag
  <2>1. /\ doing = "etag" /\ doing' \in {"head", "content"} /\ rsp'.lm = rsp.lm
        /\ rsp'.etag # None => file.version # 0 /\ rsp'.etag[1] = file.mtime
        /\ doing' = "content" => rsp'.status = 200
        /\ doing' = "head" => rsp'.status = 304 /\ copy.etag # None /\ copy.etag[1] = file.mtime
                               /\ file.version # 0
        /\ UNCHANGED <<now, file, copy, since>>
    BY <1>5, ETagFacts
  <2>2. RspInv'
    <3>1. file.mtime <= Seconds(now)
      BY <1>0 DEF FileInv
    <3> QED
      BY <1>0, <2>1, <3>1, DatedTypes DEF RspInv, Dated, Seconds
  <2>3. file.version \in since
    BY <1>0, <2>1 DEF SinceInv
  <2>4. doing' = "head" => copy.parts \subseteq {file.version}
    BY <1>0, <2>1 DEF CopyInv, Dated
  <2>5. SinceInv'
    BY <2>1, <2>3, <2>4 DEF SinceInv
  <2> QED
    BY <1>0, <2>1, <2>2, <2>5, CopyStays DEF StaleInv
<1>6. CASE SetContent
  <2>1. /\ doing = "content" /\ doing' = "head" /\ rsp'.lm = rsp.lm /\ rsp'.etag = rsp.etag
        /\ rsp'.status # 304
        /\ rsp'.of = IF rsp'.status = 404 THEN 0 ELSE file.version
        /\ rsp'.status = 404 <=> file.version = 0
        /\ UNCHANGED <<now, file, copy, since, ifs, parts>>
    BY <1>6, ContentFacts
  <2>2. rsp'.status = 200 => file.version # 0 /\ Sources' = {file.version}
    BY <1>0, <2>1 DEF Sources, EarlyInv, Early, Gone
  <2>3. RspInv'
    BY <1>0, <2>1, <2>2 DEF RspInv, Dated, Seconds
  <2>4. SinceInv'
    BY <1>0, <2>1 DEF SinceInv
  <2> QED
    BY <1>0, <2>1, <2>3, <2>4, CopyStays DEF StaleInv
<1> DEFINE Sends == {"head", "text", "body", "done"}
<1>7. ASSUME UNCHANGED <<now, file, copy, rsp, since>>, doing \in Sends, doing' \in Sends,
             Sources' \subseteq Sources \cup (IF file.version = 0 THEN {} ELSE {file.version})
      PROVE  StaleInv'
  <2>1. RspInv'
    BY <1>0, <1>7, SentStays
  <2> QED
    BY <1>0, <1>7, <2>1, CopyStays, SinceStays DEF StaleInv
<1>8. CASE SendResponse
  <2>1. Sources' = Sources
    BY <1>8 DEF SendResponse, Sources
  <2> QED
    BY <1>7, <1>8, <2>1 DEF SendResponse, Goes, fileVars
<1>9. CASE Sleep
  <2>1. Sources' = Sources
    BY <1>9, SleepFacts DEF Sources
  <2> QED
    BY <1>7, <1>9, <2>1, SleepFacts
<1>10. CASE SendText
  <2>1. Sources' \subseteq Sources
    BY <1>10, TextFacts DEF Sources
  <2> QED
    BY <1>7, <1>10, <2>1, TextFacts
<1>11. CASE OpenFile
  <2>1. /\ doing = "text" /\ \/ doing' = "body" /\ ifs' = file
                             \/ doing' = "done" /\ ifs' = ifs
        /\ UNCHANGED <<now, file, copy, rsp, parts, since>>
    BY <1>11 DEF OpenFile, Goes, fileVars, sendVars
  <2>2. Sources' \subseteq Sources \cup (IF file.version = 0 THEN {} ELSE {file.version})
    BY <2>1 DEF Sources
  <2> QED
    BY <1>7, <2>1, <2>2
<1>12. CASE SendBody
  <2>1. /\ doing = "body" /\ doing' \in {"body", "done"} /\ 0 <= body
        /\ parts' = parts \cup IF Got > 0 THEN {ifs.version} ELSE {}
        /\ (ifs.size = 0 /\ 0 <= body => Got = 0)
        /\ ifs' = Gone \/ ifs' = ifs
        /\ UNCHANGED <<now, file, copy, rsp, since>>
    BY <1>12, BodyFacts DEF FrameInv, SendInv
  <2>2. ifs.version = 0 => Got = 0
    BY <1>0, <2>1 DEF FileInv, Gone
  <2>3. Sources' \subseteq Sources
    BY <2>1, <2>2 DEF Sources, Gone
  <2> QED
    BY <1>7, <2>1, <2>3
<1>13. CASE BodyEnds
  <2>1. Sources' = Sources
    BY <1>13 DEF BodyEnds, sendVars, Sources
  <2> QED
    BY <1>7, <1>13, <2>1 DEF BodyEnds, Goes, fileVars, sendVars
<1>14. CASE SendFails
  <2>1. doing' = "idle" /\ UNCHANGED <<now, file, copy>>
    BY <1>14, RestFacts DEF SendFails, fileVars
  <2> QED
    BY <1>0, <2>1, CopyStays DEF StaleInv, RspInv, SinceInv
<1>15. CASE Receive
  <2>1. /\ doing = "done" /\ doing' = "idle" /\ UNCHANGED <<now, file>>
        /\ \/ copy' = copy
           \/ rsp.status = 200 /\ copy'.lm = rsp.lm /\ copy'.etag = rsp.etag /\ copy'.parts = parts
    BY <1>15, RestFacts, ReceiveFacts
  <2>2. CopyInv'
    <3>1. CASE copy' = copy
      BY <1>0, <2>1, <3>1, CopyStays
    <3>2. CASE rsp.status = 200 /\ copy'.lm = rsp.lm /\ copy'.etag = rsp.etag /\ copy'.parts = parts
      <4>1. Dated(rsp.lm, Sources) /\ (rsp.etag # None => Dated(rsp.etag[1], Sources)) /\ parts \subseteq Sources
        BY <1>0, <2>1, <3>2 DEF RspInv, Sources
      <4> QED
        BY <2>1, <3>2, <4>1 DEF CopyInv, Dated, Seconds
    <3> QED
      BY <2>1, <3>1, <3>2
  <2> QED
    BY <2>1, <2>2 DEF StaleInv, RspInv, SinceInv
<1>16. CASE UNCHANGED answerVars
  <2>1. UNCHANGED <<now, file, copy, rsp, doing, ifs, parts, since>>
    BY <1>16 DEF answerVars, fileVars, sendVars
  <2> QED
    BY <1>0, <2>1 DEF StaleInv, CopyInv, RspInv, SinceInv, Dated, Sources, Seconds
<1> QED
  BY <1>1, <1>2, <1>3, <1>4, <1>5, <1>6, <1>8, <1>9, <1>10, <1>11, <1>12, <1>13, <1>14, <1>15, <1>16, AnswerCases

-----------------------------------------------------------------------------
LEMMA AnswerInvInit == AnswerInit => AnswerInv
<1> SUFFICES ASSUME AnswerInit PROVE AnswerInv
  OBVIOUS
<1>1. /\ m_rate \in Nat /\ now = 0 /\ changes = 1 /\ file \in [version : {1}, inode : {1}, size : Sizes, mtime : {0}]
      /\ copy = NoCopy /\ ask = NoRequest /\ rsp = NoAnswer /\ doing = "idle" /\ ifs = Gone
      /\ body = 0 /\ count = 0 /\ start_time = 0 /\ wake = 0 /\ since = {} /\ parts = {}
      /\ lengths = {}
  BY DEF AnswerInit
<1>2. file \in Files /\ file.version = 1 /\ file.inode = 1 /\ file.mtime = 0
  <2>1. PICK size \in Sizes : file = [version |-> 1, inode |-> 1, size |-> size, mtime |-> 0]
    BY <1>1
  <2>2. size \in Nat
    BY AnswerAssumption
  <2> QED
    BY <2>1, <2>2 DEF Files
<1>3. NoAnswer \in Responses_ /\ NoAnswer.of = 0 /\ NoCopy \in [lm : Stamps, etag : ETags, parts : SUBSET Nat]
      /\ NoCopy.lm = None /\ NoCopy.etag = None
  BY DEF NoAnswer, NoCopy, Responses_, Stamps, ETags
<1>4. NoRequest \in [cond : BOOLEAN, range : Ranges \cup {None}, ifRange : BOOLEAN, view : BOOLEAN]
  BY DEF NoRequest
<1>5. Gone \in Files /\ Gone.version = 0
  BY DEF Gone, Files
<1>6. AnswerTypes
  BY <1>1, <1>2, <1>3, <1>4, <1>5 DEF AnswerTypes, Places_, Early
<1>7. Seconds(0) \in Nat
  BY SecondsGrow
<1>8. FileInv /\ EarlyInv
  BY <1>1, <1>2, <1>3, <1>5, <1>7 DEF FileInv, EarlyInv, Early
<1>9. FrameInv /\ AnswerRateInv
  <2>1. ~ rsp.named
    BY <1>1 DEF NoAnswer
  <2> QED
    BY <1>1, <2>1 DEF FrameInv, LengthInv, RangeInv, SendInv, AnswerFramed, AnswerRateInv, WakeInv, RateKept
<1>10. StaleInv
  BY <1>1, <1>3 DEF StaleInv, CopyInv, RspInv, SinceInv
<1> QED
  BY <1>6, <1>8, <1>9, <1>10 DEF AnswerInv, AnswerTypeInv

LEMMA AnswerInvNext == AnswerInv /\ [AnswerNext]_answerVars => AnswerInv'
BY AnswerTypeStep, FrameStep, StaleStep, RateStep DEF AnswerInv

LEMMA AnswerInvMeans == AnswerInv => AnswersRight
BY DEF AnswerInv, FrameInv, StaleInv, SinceInv, AnswerRateInv, AnswersRight, NotStale

(* An answer is as long as it says, unless the file was too short for it   *)
(* at some moment since its length was taken, or was empty when a part of  *)
(* it was asked for; no "304" is stale, and the rate is kept: setContent,  *)
(* setLastModified, setETag and sendResponse, for any sizes, ranges, rates *)
(* and clocks.                                                             *)
THEOREM FileAnswered == AnswerSpec => []AnswersRight
BY AnswerInvInit, AnswerInvNext, AnswerInvMeans, PTL DEF AnswerSpec

-----------------------------------------------------------------------------
(* A set of numbers that is not empty has a least element.                 *)
LEMMA LeastNumber ==
    ASSUME NEW S \in SUBSET Nat, S # {}
    PROVE  \E n \in S : \A m \in 0 .. n - 1 : m \notin S
<1> DEFINE R == {ss \in Nat \X Nat : ss[1] < ss[2]}
<1>1. IsWellFoundedOn(R, Nat)
  BY NatLessThanWellFounded DEF OpToRel
<1>2. PICK n \in S : \A m \in S : <<m, n>> \notin R
  <2> HIDE DEF R
  <2> QED
    BY <1>1, WFMin
<1>3. ASSUME NEW m \in 0 .. n - 1, m \in S PROVE FALSE
  <2>1. m \in Nat /\ n \in Nat /\ m < n
    BY <1>2, <1>3
  <2>2. <<m, n>> \in Nat \X Nat /\ <<m, n>>[1] = m /\ <<m, n>>[2] = n
    BY <2>1
  <2> QED
    BY <1>2, <1>3, <2>1, <2>2
<1> QED
  BY <1>3

(***************************************************************************)
(* ServletDispatch                                                         *)
(***************************************************************************)
Answers == Servlets_ \cup {m_default}
GlobLists == Seq(Globs \X Servlets_)
ServletTypes ==
    /\ servlet_datas \in [Uris -> Answers]
    /\ m_globs \in GlobLists
    /\ lookup_at \in [Lookups -> {"out", "path", "glob", "found"}]
    /\ path_ \in [Lookups -> Uris]
    /\ servlet \in [Lookups -> Answers]
    /\ covered \in [Lookups -> SUBSET {"path", "glob"}]
    /\ choices \in [Lookups -> SUBSET Answers]

(* What is called covered has an entry still; the servlet that is right    *)
(* now is one of the choices; who asks the patterns has found no path.     *)
CoveredInv ==
    \A r \in Lookups : lookup_at[r] # "out" =>
        /\ covered[r] \subseteq Covers(servlet_datas, m_globs, path_[r])
        /\ Wins(servlet_datas, m_globs, path_[r]) \in choices[r]
PathInv == \A r \in Lookups : lookup_at[r] = "glob" => "path" \notin covered[r]
ServletInv == ServletTypes /\ CoveredInv /\ PathInv /\ DispatchRight

(* The first pattern of a list that matches, if there is one.              *)
LEMMA FirstGlobFacts ==
    ASSUME NEW globs \in GlobLists, NEW u
    PROVE  /\ FirstGlob(globs, u) \in 0 .. Len(globs)
           /\ getGlobServlet(globs, u) \in Answers
           /\ FirstGlob(globs, u) # 0 => getGlobServlet(globs, u) # m_default
<1> DEFINE I == {i \in 1 .. Len(globs) : u \in GlobMatches[globs[i][1]]}
<1>1. Len(globs) \in Nat
  BY DEF GlobLists
<1>2. FirstGlob(globs, u) = IF I # {} THEN Min(I) ELSE 0
  BY DEF FirstGlob, SelectInSeq
<1>3. I # {} => Min(I) \in I
  <2>1. SUFFICES ASSUME I # {} PROVE \E x \in I : \A y \in I : x <= y
    BY DEF Min
  <2>2. PICK n \in I : \A m \in 0 .. n - 1 : m \notin I
    <3>1. I \in SUBSET Nat
      BY <1>1
    <3> QED
      BY <2>1, <3>1, LeastNumber
  <2>3. ASSUME NEW y \in I PROVE n <= y
    BY <2>2, <1>1
  <2> QED
    BY <2>3
<1>4. FirstGlob(globs, u) \in 0 .. Len(globs)
  BY <1>1, <1>2, <1>3
<1>5. ASSUME FirstGlob(globs, u) # 0 PROVE globs[FirstGlob(globs, u)][2] \in Servlets_
  <2>1. FirstGlob(globs, u) \in 1 .. Len(globs)
    BY <1>1, <1>4, <1>5
  <2> QED
    BY <2>1 DEF GlobLists
<1> QED
  BY <1>4, <1>5, ServletAssumption DEF getGlobServlet, Answers

LEMMA WinsFacts ==
    ASSUME NEW datas \in [Uris -> Answers], NEW globs \in GlobLists, NEW u \in Uris
    PROVE  /\ Covers(datas, globs, u) \in SUBSET {"path", "glob"}
           /\ Wins(datas, globs, u) \in Answers
           /\ "path" \in Covers(datas, globs, u) <=> datas[u] # m_default
           /\ "glob" \in Covers(datas, globs, u) => getGlobServlet(globs, u) # m_default
BY FirstGlobFacts DEF Covers, Wins, getServlet

LEMMA WithoutType ==
    ASSUME ServletTypes, NEW g PROVE GlobsWithout(g) \in GlobLists
<1> DEFINE I == {i \in 1 .. Len(m_globs) : m_globs[i][1] = g}
           i == Min(I)
<1>1. CASE ~ \E k \in 1 .. Len(m_globs) : m_globs[k][1] = g
  BY <1>1 DEF GlobsWithout, RemoveFirstMatch, ServletTypes
<1>2. CASE \E k \in 1 .. Len(m_globs) : m_globs[k][1] = g
  <2>1. Len(m_globs) \in Nat /\ I # {}
    BY <1>2 DEF GlobLists, ServletTypes
  <2>2. PICK n \in I : \A m \in 0 .. n - 1 : m \notin I
    <3>1. I \in SUBSET Nat
      BY <2>1
    <3> QED
      BY <2>1, <3>1, LeastNumber
  <2>3. \A y \in I : n <= y
    BY <2>1, <2>2
  <2>4. i \in I
    BY <2>2, <2>3 DEF Min
  <2>5. GlobsWithout(g) = SubSeq(m_globs, 1, i - 1) \o SubSeq(m_globs, i + 1, Len(m_globs))
    BY <1>2, <2>1 DEF GlobsWithout, RemoveFirstMatch, RemoveAt, SelectInSeq
  <2> HIDE DEF i
  <2>6. i \in 1 .. Len(m_globs)
    BY <2>4
  <2>7. \A k \in 1 .. Len(m_globs) : m_globs[k] \in Globs \X Servlets_
    BY DEF ServletTypes, GlobLists
  <2>8. /\ SubSeq(m_globs, 1, i - 1) \in GlobLists
        /\ SubSeq(m_globs, i + 1, Len(m_globs)) \in GlobLists
    BY <2>1, <2>6, <2>7, SubSeqProperties DEF GlobLists
  <2> QED
    BY <2>5, <2>8, ConcatProperties DEF GlobLists
<1> QED
  BY <1>1, <1>2

LEMMA ServletInvInit == ServletInit => ServletInv
<1> SUFFICES ASSUME ServletInit PROVE ServletInv
  OBVIOUS
<1>1. (CHOOSE u \in Uris : TRUE) \in Uris
  BY ServletAssumption
<1> QED
  BY <1>1 DEF ServletInit, ServletInv, ServletTypes, CoveredInv, PathInv, DispatchRight, NeverLost,
     ServletRight, Answers, GlobLists

LEMMA ChangeStep ==
    ASSUME ServletInv, servlet_datas' \in [Uris -> Answers], m_globs' \in GlobLists, TablesChanged
    PROVE  ServletInv'
<1>0. ServletTypes /\ UNCHANGED <<lookup_at, path_, servlet>>
  BY DEF ServletInv, TablesChanged, lookupVars
<1>1. ASSUME NEW r \in Lookups
      PROVE  /\ covered'[r] = covered[r] \cap Covers(servlet_datas', m_globs', path_[r])
             /\ choices'[r] = IF lookup_at[r] = "out" THEN {}
                              ELSE choices[r] \cup {Wins(servlet_datas', m_globs', path_[r])}
             /\ Covers(servlet_datas', m_globs', path_[r]) \in SUBSET {"path", "glob"}
             /\ Wins(servlet_datas', m_globs', path_[r]) \in Answers
  BY <1>0, WinsFacts DEF TablesChanged, ServletTypes
<1>2. ServletTypes'
  <2>1. covered' \in [Lookups -> SUBSET {"path", "glob"}]
    BY <1>0, <1>1 DEF TablesChanged, ServletTypes
  <2>2. choices' \in [Lookups -> SUBSET Answers]
    BY <1>0, <1>1 DEF TablesChanged, ServletTypes
  <2> QED
    BY <1>0, <2>1, <2>2 DEF ServletTypes
<1>3. CoveredInv'
  BY <1>0, <1>1 DEF CoveredInv
<1>4. PathInv' /\ DispatchRight'
  BY <1>0, <1>1 DEF ServletInv, PathInv, DispatchRight, NeverLost, ServletRight
<1> QED
  BY <1>2, <1>3, <1>4 DEF ServletInv

LEMMA ServletInvNext == ServletInv /\ [ServletNext]_servletVars => ServletInv'
<1> SUFFICES ASSUME ServletInv, [ServletNext]_servletVars PROVE ServletInv'
  OBVIOUS
<1>0. ServletTypes
  BY DEF ServletInv
<1>1. ASSUME NEW u \in Uris, NEW s \in Servlets_, addServlet(u, s) \/ delServlet(u) PROVE ServletInv'
  <2>1. servlet_datas' \in [Uris -> Answers] /\ m_globs' \in GlobLists /\ TablesChanged
    BY <1>0, <1>1 DEF addServlet, delServlet, ServletTypes, Answers
  <2> QED
    BY <2>1, ChangeStep
<1>2. ASSUME NEW g \in Globs, NEW s \in Servlets_, addGlobServlet(g, s) \/ delGlobServlet(g) PROVE ServletInv'
  <2>1. servlet_datas' \in [Uris -> Answers] /\ TablesChanged
    BY <1>0, <1>2 DEF addGlobServlet, delGlobServlet, ServletTypes
  <2>2. m_globs' = Append(GlobsWithout(g), <<g, s>>) \/ m_globs' = GlobsWithout(g)
    BY <1>2 DEF addGlobServlet, delGlobServlet
  <2>3. GlobsWithout(g) \in GlobLists /\ <<g, s>> \in Globs \X Servlets_
    BY <1>0, WithoutType
  <2>4. m_globs' \in GlobLists
    BY <2>2, <2>3, AppendProperties DEF GlobLists
  <2> QED
    BY <2>1, <2>4, ChangeStep
<1>3. ASSUME NEW r \in Lookups, NEW u \in Uris, Asked(r, u) PROVE ServletInv'
  <2>1. /\ Covers(servlet_datas, m_globs, u) \in SUBSET {"path", "glob"}
        /\ Wins(servlet_datas, m_globs, u) \in Answers
    BY <1>0, WinsFacts DEF ServletTypes
  <2>2. ServletTypes'
    BY <1>0, <1>3, <2>1 DEF Asked, dispatchVars, ServletTypes, Answers
  <2>3. CoveredInv' /\ PathInv' /\ DispatchRight'
    BY <1>0, <1>3 DEF Asked, dispatchVars, ServletInv, ServletTypes, CoveredInv, PathInv, DispatchRight,
       NeverLost, ServletRight
  <2> QED
    BY <2>2, <2>3 DEF ServletInv
<1>4. ASSUME NEW r \in Lookups, ByPath(r) PROVE ServletInv'
  <2>1. /\ servlet'[r] = servlet_datas[path_[r]] /\ path_[r] \in Uris
        /\ servlet_datas[path_[r]] \in Answers
        /\ servlet' = [servlet EXCEPT ![r] = servlet_datas[path_[r]]]
        /\ lookup_at' = [lookup_at EXCEPT ![r] = IF servlet'[r] # m_default THEN "found" ELSE "glob"]
        /\ UNCHANGED <<servlet_datas, m_globs, path_, covered, choices>>
        /\ lookup_at[r] = "path"
    BY <1>0, <1>4 DEF ByPath, dispatchVars, getServlet, ServletTypes
  <2>2. "path" \in Covers(servlet_datas, m_globs, path_[r]) <=> servlet'[r] # m_default
    BY <1>0, <2>1, WinsFacts DEF ServletTypes
  <2>3. ServletTypes'
    BY <1>0, <2>1 DEF ServletTypes
  <2>4. servlet'[r] # m_default => servlet'[r] = Wins(servlet_datas, m_globs, path_[r])
    BY <2>1 DEF Wins, getServlet
  <2>5. CoveredInv' /\ PathInv'
    BY <1>0, <2>1, <2>2 DEF ServletInv, ServletTypes, CoveredInv, PathInv
  <2>6. DispatchRight'
    BY <1>0, <2>1, <2>2, <2>4 DEF ServletInv, ServletTypes, CoveredInv, PathInv, DispatchRight, NeverLost,
       ServletRight
  <2> QED
    BY <2>3, <2>5, <2>6 DEF ServletInv
<1>5. ASSUME NEW r \in Lookups, ByGlob(r) PROVE ServletInv'
  <2>1. /\ servlet' = [servlet EXCEPT ![r] = getGlobServlet(m_globs, path_[r])]
        /\ lookup_at' = [lookup_at EXCEPT ![r] = "found"]
        /\ UNCHANGED <<servlet_datas, m_globs, path_, covered, choices>>
        /\ lookup_at[r] = "glob" /\ path_[r] \in Uris
        /\ getGlobServlet(m_globs, path_[r]) \in Answers
    BY <1>0, <1>5, FirstGlobFacts DEF ByGlob, dispatchVars, ServletTypes
  <2>2. "glob" \in Covers(servlet_datas, m_globs, path_[r]) => servlet'[r] # m_default
    BY <1>0, <2>1, WinsFacts DEF ServletTypes
  <2>3. ServletTypes'
    BY <1>0, <2>1 DEF ServletTypes
  <2>4. servlet'[r] = m_default => covered[r] = {}
    BY <1>0, <2>1, <2>2 DEF ServletInv, ServletTypes, CoveredInv, PathInv
  <2>5. CoveredInv' /\ PathInv'
    BY <1>0, <2>1 DEF ServletInv, ServletTypes, CoveredInv, PathInv
  <2>6. DispatchRight'
    BY <1>0, <2>1, <2>4 DEF ServletInv, ServletTypes, PathInv, DispatchRight, NeverLost, ServletRight
  <2> QED
    BY <2>3, <2>5, <2>6 DEF ServletInv
<1>6. ASSUME NEW r \in Lookups, handle(r) PROVE ServletInv'
  BY <1>6 DEF handle, dispatchVars, ServletInv, ServletTypes, CoveredInv, PathInv, DispatchRight, NeverLost,
     ServletRight
<1>7. CASE UNCHANGED servletVars
  BY <1>7 DEF servletVars, dispatchVars, lookupVars, ServletInv, ServletTypes, CoveredInv, PathInv,
     DispatchRight, NeverLost, ServletRight
<1> QED
  BY <1>1, <1>2, <1>3, <1>4, <1>5, <1>6, <1>7 DEF ServletNext

(* A request with an entry all the time is not lost, and a path's own      *)
(* servlet comes first: getMatchedServlet, while tables change.            *)
THEOREM RightServlet == ServletSpec => []DispatchRight
<1>1. ServletInv => DispatchRight
  BY DEF ServletInv
<1> QED
  BY ServletInvInit, ServletInvNext, <1>1, PTL DEF ServletSpec

-----------------------------------------------------------------------------
(***************************************************************************)
(* Authorization                                                           *)
(***************************************************************************)
(* The time that is kept, and that each request has seen, is never later   *)
(* than that of the file; so a time that is new for the file is unknown to *)
(* both, and while the two are equal what was read is what is there.       *)
AuthTypes ==
    /\ st_mtime \in Nat /\ m_mtime \in Nat
    /\ lst \in [Askers -> Nat]
    /\ wrote \in [People -> Passwords \cup {0}]
    /\ m_passwds \in [People -> Passwords \cup {0}]
NotLater == m_mtime <= st_mtime /\ \A r \in Askers : lst[r] <= st_mtime
AuthInv == AuthTypes /\ NotLater /\ FileKnown

LEMMA AuthInvInit == AuthInit => AuthInv
BY DEF AuthInit, AuthInv, AuthTypes, NotLater, FileKnown

LEMMA AuthInvNext == AuthInv /\ [AuthNext]_authVars => AuthInv'
<1> SUFFICES ASSUME AuthInv, [AuthNext]_authVars PROVE AuthInv'
  OBVIOUS
<1> USE DEF AuthInv, AuthTypes, NotLater
<1>1. CASE RewriteFile
  BY <1>1 DEF RewriteFile, entryVars, askVars, FileKnown
<1>2. CASE RemoveFile
  BY <1>2 DEF RemoveFile, entryVars, askVars, FileKnown
<1>3. ASSUME NEW r \in Askers, get(r) PROVE AuthInv'
  <2>1. UNCHANGED <<there, wrote, st_mtime, unseen, m_mtime, m_passwds>> /\ lst' = [lst EXCEPT ![r] = st_mtime]
    BY <1>3 DEF get, passwdVars
  <2>2. listed_' = listed_ \/ ~ listed_'
    BY <1>3 DEF get
  <2> QED
    BY <2>1, <2>2 DEF FileKnown
<1>4. ASSUME NEW r \in Askers, init(r) PROVE AuthInv'
  <2>1. /\ UNCHANGED <<there, wrote, st_mtime, unseen, listed_, lst>>
        /\ m_passwds' = [p \in People |-> ReadOver(p)] /\ m_mtime' = lst[r]
    BY <1>4 DEF init, passwdVars
  <2>2. ASSUME NEW p \in People
        PROVE  m_passwds'[p] \in Passwords \cup {0} /\ (there /\ wrote[p] # 0 => m_passwds'[p] = wrote[p])
    BY <2>1 DEF ReadOver
  <2>3. m_passwds' \in [People -> Passwords \cup {0}]
    BY <2>1, <2>2
  <2> QED
    BY <2>1, <2>2, <2>3 DEF FileKnown
<1>5. ASSUME NEW r \in Askers, check(r) \/ Finish(r) PROVE AuthInv'
  BY <1>5 DEF check, Finish, passwdVars, entryVars, FileKnown
<1>6. CASE UNCHANGED authVars
  BY <1>6 DEF authVars, passwdVars, entryVars, askVars, FileKnown
<1> QED
  BY <1>1, <1>2, <1>3, <1>4, <1>5, <1>6 DEF AuthNext

(* While the time that was read is that of the file, and it has not been   *)
(* rewritten without a new time, each name in it is compared with its      *)
(* password there; a name that was taken out keeps the one it had.         *)
(* Authorization::get and init, for any number of requests.                *)
THEOREM PasswordsKnown == AuthSpec => []FileKnown
<1>1. AuthInv => FileKnown
  BY DEF AuthInv
<1> QED
  BY AuthInvInit, AuthInvNext, <1>1, PTL DEF AuthSpec
=============================================================================
