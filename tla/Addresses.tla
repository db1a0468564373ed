----------------------------- MODULE Addresses -----------------------------
(***************************************************************************)
(* Addresses as text and as numbers, src/src/address.cpp: an address is    *)
(* written with its port, and what has been written, in a log or a         *)
(* configuration, is cut into host and port again and read by getaddrinfo. *)
(* An IPv6 address has eight groups, of which only zero and another are    *)
(* told apart; a text is a sequence of tokens.  The same eight digits are  *)
(* the bits of an IPv4 address, for the arithmetic of its networks.        *)
(***************************************************************************)
EXTENDS Integers, FiniteSetsExt, SequencesExt

VARIABLE groups

Groups == 8
AddressInit == groups = <<>>
Another == \E g \in {"0", "f"} : Len(groups) < Groups /\ groups' = Append(groups, g)
AddressNext == Another

Port == "port"
NoPort == "none"

-----------------------------------------------------------------------------
(***************************************************************************)
(* IPv6Address::toString: the first of the longest runs of zeros is left   *)
(* out when it has two groups or more                                      *)
(***************************************************************************)
RunFrom(addr, i) ==
    CHOOSE n \in 0 .. Groups + 1 - i :
        /\ \A k \in i .. i + n - 1 : addr[k] = "0"
        /\ i + n <= Groups => addr[i + n] # "0"

(* Mutant: a run that ends the address is not compared.                    *)
RunWithin(addr, i) ==
    IF addr[i] = "0" /\ (i = 1 \/ addr[i - 1] # "0") /\ i + RunFrom(addr, i) <= Groups THEN RunFrom(addr, i) ELSE 0

RunAt(addr, i) == IF addr[i] = "0" /\ (i = 1 \/ addr[i - 1] # "0") THEN RunFrom(addr, i) ELSE 0

FirstLongest(addr) ==
    CHOOSE i \in 1 .. Groups :
        /\ \A k \in 1 .. Groups : RunAt(addr, k) <= RunAt(addr, i)
        /\ \A k \in 1 .. i - 1 : RunAt(addr, k) < RunAt(addr, i)

(* What the loop writes at group i: the gap, a group, or nothing of a gap  *)
(* that has been written; the colon comes before, except at the start.     *)
Written(addr) ==
    LET zero == FirstLongest(addr)
        zero_len == RunAt(addr, zero)
        Gap(i) == zero_len > 1 /\ i \in zero .. zero + zero_len - 1
        Colon(i) == IF i = 1 THEN <<>> ELSE <<":">>
        At(i) == CASE Gap(i) -> IF i # zero THEN <<>> ELSE <<":">>
                   [] OTHER -> Colon(i) \o <<addr[i]>>
    IN FlattenSeq([i \in 1 .. Groups |-> At(i)])
          \o IF zero_len > 0 /\ zero + zero_len > Groups THEN <<":">> ELSE <<>>
toString6(addr) == <<"[">> \o Written(addr) \o <<"]", ":", Port>>

(* IPv4Address::toString: the parts and their dots are one token.          *)
toString4(name) == <<name, ":", Port>>

-----------------------------------------------------------------------------
(***************************************************************************)
(* getAddrInfo: in brackets, before the first colon, or all of it          *)
(***************************************************************************)
From(s, i) == SubSeq(s, i, Len(s))
Bracketed(s) == s # <<>> /\ s[1] = "[" /\ SelectInSeq(s, LAMBDA t : t = "]") > 2
SplitHost(s) ==
    LET close == SelectInSeq(s, LAMBDA t : t = "]")
        colon == SelectInSeq(s, LAMBDA t : t = ":")
    IN CASE Bracketed(s) ->
              [node |-> SubSeq(s, 2, close - 1),
               service |-> IF close < Len(s) /\ s[close + 1] = ":" THEN From(s, close + 2) ELSE <<NoPort>>]
         [] ~ Bracketed(s) /\ colon > 0 ->
              [node |-> IF colon = 1 THEN s ELSE SubSeq(s, 1, colon - 1), service |-> From(s, colon + 1)]
         [] OTHER -> [node |-> s, service |-> <<NoPort>>]

(* getaddrinfo of the library: eight groups, or fewer with one gap.        *)
DoubleColons(s) == {i \in 1 .. Len(s) - 1 : s[i] = ":" /\ s[i + 1] = ":"}
Alternates(s) == \A i \in DOMAIN s : (s[i] = ":") = (i % 2 = 0)
GroupsIn(s) == SelectSeq(s, LAMBDA t : t # ":")
Plain6(s) == s = <<>> \/ (Alternates(s) /\ Len(s) % 2 = 1)
getaddrinfo(s) ==
    CASE DoubleColons(s) = {} /\ Plain6(s) /\ Len(GroupsIn(s)) = Groups -> GroupsIn(s)
      [] Cardinality(DoubleColons(s)) = 1 ->
            LET i == CHOOSE n \in DoubleColons(s) : TRUE
                before == SubSeq(s, 1, i - 1)
                after == From(s, i + 2)
                missing == Groups - Len(GroupsIn(before)) - Len(GroupsIn(after))
            IN IF Plain6(before) /\ Plain6(after) /\ missing > 0
               THEN GroupsIn(before) \o [n \in 1 .. missing |-> "0"] \o GroupsIn(after) ELSE <<>>
      [] OTHER -> <<>>

-----------------------------------------------------------------------------
(***************************************************************************)
(* IPv4: an address is the set of its bits, 1 the highest                  *)
(***************************************************************************)
BitsOf(addr) == {i \in 1 .. Groups : addr[i] = "f"}

(* createMask shifts by the width when the prefix is 0: the compiler may   *)
(* give any of the two that processors give.                               *)
createMask(prefix) == IF prefix = 0 THEN {{}, 1 .. Groups} ELSE {1 .. prefix}
countBytes(bits) == Cardinality(bits)
broadcastAddress(bits, mask) == bits \cup (1 .. Groups \ mask)
networdAddress(bits, mask) == bits \cap mask

-----------------------------------------------------------------------------
(* What toString writes is read back to the address and its port, and no   *)
(* run of zeros is longer than the one that is left out.  One zero that is *)
(* the only one and the last gets a colon too many, and cannot be read.    *)
LoneLast(addr) == \A i \in 1 .. Groups : addr[i] = "0" <=> i = Groups
ReadsBack(addr) ==
    LET cut == SplitHost(toString6(addr))
        longest == Max({n \in 0 .. Groups : \E i \in 0 .. Groups - n :
                           \A k \in i + 1 .. i + n : addr[k] = "0"})
    IN  /\ cut.service = <<Port>>
        /\ getaddrinfo(cut.node) = IF LoneLast(addr) THEN <<>> ELSE addr
        /\ longest > 1 => Len(GroupsIn(cut.node)) = Groups - longest
        /\ SplitHost(toString4("name")) = [node |-> <<"name">>, service |-> <<Port>>]

(* A network holds its addresses, from its own to that of the broadcast;   *)
(* its mask has as many bits as the prefix says, unless that is 0.         *)
Higher(a, b) == \E i \in a \ b : \A k \in b \ a : i < k
NetworkRight(bits) ==
    \A prefix \in 0 .. Groups : \A mask \in createMask(prefix) :
        LET low == networdAddress(bits, mask)
            high == broadcastAddress(bits, mask)
        IN  /\ prefix > 0 => countBytes(mask) = prefix
            /\ ~ Higher(low, bits) /\ ~ Higher(bits, high)
            /\ networdAddress(high, mask) = low /\ broadcastAddress(low, mask) = high

AddressesRight == Len(groups) = Groups => ReadsBack(groups) /\ NetworkRight(BitsOf(groups))
=============================================================================
