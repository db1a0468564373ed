----------------------------- MODULE UriParser -----------------------------
(***************************************************************************)
(* Uri (uri.rl and the machine generated from it, uri.cpp): create reads a *)
(* URI or a relative reference in one pass, toString writes it.  A state   *)
(* of the machine is a place in the grammar; the states of a group of      *)
(* digits are told apart by the characters since it began.  One pointer,   *)
(* mark, serves all parts: a part that begins sets it, a part that ends    *)
(* takes the text since then and sets it to NULL (here 0), from which      *)
(* std::string throws.  Text is in bytes, create turns it to lower case.   *)
(***************************************************************************)
EXTENDS TextCodecs

CONSTANTS
    UriStarts,  \* texts to begin with
    UriChars,   \* the characters that may follow, in lower case
    MaxMore     \* bound: how many

VARIABLES
    machine,    \* the machine of create
    more        \* characters read since the start

uriVars == <<machine, more>>

UriLetter == 97 .. 122
UriDigit == 48 .. 57
XDigit == UriDigit \cup 97 .. 102
RegChar == UriLetter \cup UriDigit \cup {33, 36, 38, 39, 40, 41, 42, 43, 44, 45, 46, 59, 61, 95, 126}
PChar == RegChar \cup {58, 64} \cup 128 .. 255
QueryChar == PChar \cup {47, 63}
Percent == 37
Stx == 2        \* dec_octet of uri.rl writes 2 where it means "2"

NoUri == [scheme |-> <<>>, userinfo |-> <<>>, host |-> <<>>, port |-> 0,
          path |-> <<>>, query |-> <<>>, fragment |-> <<>>]

-----------------------------------------------------------------------------
(* The actions of the grammar, at the position m.pos.                      *)
atoi(ds) == FoldLeft(LAMBDA n, d : 10 * n + d - 48, 0, ds)

(* Mutant: a part loses its last character.                                *)
SinceShort(m) == SubSeq(m.chars, m.mark, m.pos - 2)

Since(m) == SubSeq(m.chars, m.mark, m.pos - 1)
UriAct(m, a) ==
    IF a = "mark" THEN [m EXCEPT !.mark = m.pos]
    ELSE IF a = "port" THEN [m EXCEPT !.mark = 0, !.uri.port = IF m.mark = m.pos THEN @ ELSE atoi(Since(m))]
    ELSE IF m.mark = 0 THEN [m EXCEPT !.at = "thrown"]
    ELSE [m EXCEPT !.mark = 0, !.uri[a] = Since(m)]
UriActs(m, as) == FoldLeft(LAMBDA k, a : IF k.at = "thrown" THEN k ELSE UriAct(k, a), m, as)

-----------------------------------------------------------------------------
(* Host addresses: the octets of an IPv4address, and the start of one.     *)
DecOctets ==
    {<<d>> : d \in UriDigit} \cup {<<d, e>> : d \in 49 .. 57, e \in UriDigit}
        \cup {<<49, d, e>> : d \in UriDigit, e \in UriDigit} \cup {<<Stx, d, e>> : d \in 48 .. 52, e \in UriDigit}
        \cup {<<50, 53, d>> : d \in 48 .. 53}
OctetStart(s) == \E o \in DecOctets : Len(s) <= Len(o) /\ SubSeq(o, 1, Len(s)) = s
QuadStart(s) ==
    LET p == Split(s, 46, 0) IN
    /\ Len(p) <= 4 /\ OctetStart(Last(p))
    /\ \A i \in 1 .. Len(p) - 1 : p[i] \in DecOctets
Quad(s) == QuadStart(s) /\ Len(Split(s, 46, 0)) = 4 /\ Last(Split(s, 46, 0)) \in DecOctets

(* An IP_literal: the groups before "::" and after it, the digits of the   *)
(* group or octet that is being read, the octets that have been.           *)
Literal0 == [kind |-> "start", before |-> 0, gap |-> FALSE, after |-> 0, run |-> <<>>, octets |-> 0]

(* How many groups may follow "::": with groups before it, all that are    *)
(* missing; at the start, up to seven.                                     *)
AfterGap(v) == IF v.before = 0 THEN 0 .. 7 ELSE {7 - v.before}
MostAfter(v) == 7 - v.before
GroupHere(v) == IF v.gap THEN v.after < MostAfter(v) ELSE v.before <= 7
QuadHere(v) == IF v.gap THEN v.after + 2 \in AfterGap(v) ELSE v.before = 6

LitDigit(v, c) ==
    /\ v.octets = 0 /\ Stx \notin ToSet(v.run)
    /\ v.kind \in {"start", "group"} /\ GroupHere(v) /\ Len(v.run) < 4 /\ c \in XDigit
LitOctet(v, c) ==
    /\ v.kind \in {"start", "group"} /\ QuadHere(v)
    /\ v.octets > 0 \/ c = Stx \/ Stx \in ToSet(v.run)
    /\ OctetStart(Append(v.run, c))
LitDot(v) == v.kind = "group" /\ QuadHere(v) /\ v.octets < 3 /\ v.run \in DecOctets
LitColon(v) ==
    /\ v.kind = "group" /\ v.octets = 0 /\ v.run # <<>> /\ Stx \notin ToSet(v.run)
    /\ IF v.gap THEN v.after + 1 < MostAfter(v) ELSE v.before < 7
LitGap(v) == ~ v.gap /\ v.run = <<>> /\ (v.kind = "colon" \/ (v.kind = "group" /\ v.before > 0))
LitFuture(v, c) ==
    CASE v.kind = "start" -> c = 118
      [] v.kind = "version" -> c \in XDigit \/ (c = 46 /\ v.run # <<>>)
      [] v.kind = "future" -> c \in RegChar \cup {58}
      [] OTHER -> FALSE

LitStep(v, c) ==
    CASE LitDigit(v, c) \/ LitOctet(v, c) -> [v EXCEPT !.kind = "group", !.run = Append(@, c)]
      [] c = 46 /\ LitDot(v) -> [v EXCEPT !.run = <<>>, !.octets = @ + 1]
      [] c = 58 /\ LitColon(v) ->
           IF v.gap THEN [v EXCEPT !.run = <<>>, !.after = @ + 1] ELSE [v EXCEPT !.run = <<>>, !.before = @ + 1]
      [] c = 58 /\ v.kind = "start" -> [v EXCEPT !.kind = "colon"]
      [] c = 58 /\ LitGap(v) -> [v EXCEPT !.kind = "group", !.gap = TRUE]
      [] LitFuture(v, c) ->
           [v EXCEPT !.kind = IF v.kind = "start" THEN "version" ELSE IF c = 46 THEN "future" ELSE @,
                     !.run = IF v.kind = "start" \/ (v.kind = "version" /\ c = 46) THEN <<>> ELSE Append(@, c)]
      [] OTHER -> [v EXCEPT !.kind = "wrong"]

LitEnd(v) ==
    CASE v.kind = "future" -> v.run # <<>>
      [] v.kind = "group" /\ v.octets > 0 -> v.octets = 3 /\ v.run \in DecOctets
      [] v.kind = "group" /\ v.run # <<>> ->
           Stx \notin ToSet(v.run) /\ (IF v.gap THEN v.after + 1 \in AfterGap(v) ELSE v.before = 7)
      [] v.kind = "group" /\ v.run = <<>> -> v.gap /\ v.after = 0 /\ 0 \in AfterGap(v)
      [] OTHER -> FALSE
LiteralOf(s) == FoldLeft(LAMBDA v, c : LitStep(v, c), Literal0, s)

-----------------------------------------------------------------------------
(* The edges of each state: the characters, the actions, the next state.   *)

(* Mutant: a part that a query follows is not taken.                       *)
LeaveShort(as) == {<<{47}, as, "path">>, <<{63}, <<>>, "query0">>, <<{35}, as \o <<"path">>, "fragment0">>}

Leave(as) == {<<{47}, as, "path">>, <<{63}, as \o <<"path">>, "query0">>, <<{35}, as \o <<"path">>, "fragment0">>}

StartEdges ==
    {<<{47}, <<"mark">>, "slash">>, <<UriLetter, <<"mark">>, "name">>,
     <<(PChar \cup {Percent}) \ ({58} \cup UriLetter), <<>>, "noscheme">>}
        \cup (Leave(<<"mark">>) \ {<<{47}, <<"mark">>, "path">>})
NameEdges ==
    {<<UriLetter \cup UriDigit \cup {43, 45, 46}, <<>>, "name">>, <<{58}, <<"scheme">>, "hier">>,
     <<(PChar \cup {Percent}) \ (UriLetter \cup UriDigit \cup {43, 45, 46, 58}), <<>>, "noscheme">>}
        \cup Leave(<<"mark">>)
NoSchemeEdges == {<<(PChar \cup {Percent}) \ {58}, <<>>, "noscheme">>} \cup Leave(<<"mark">>)
HierEdges ==
    {<<{47}, <<"mark">>, "slash">>, <<PChar \cup {Percent}, <<>>, "rootless">>}
        \cup (Leave(<<"mark">>) \ {<<{47}, <<"mark">>, "path">>})
RootlessEdges == {<<PChar \cup {Percent}, <<>>, "rootless">>} \cup Leave(<<"mark">>)

AuthorityEdges ==
    {<<RegChar \cup {Percent, Stx}, <<"mark">>, "reg">>, <<{58}, <<"mark", "host">>, "colon">>,
     <<{64}, <<"mark", "userinfo">>, "host0">>, <<{91}, <<"mark">>, "literal">>} \cup Leave(<<"mark", "host">>)
RegEdges ==
    {<<RegChar \cup {Percent, Stx}, <<>>, "reg">>, <<{58}, <<"host">>, "colon">>,
     <<{64}, <<"userinfo">>, "host0">>} \cup Leave(<<"host", "mark">>)
ColonEdges ==
    {<<UriDigit, <<"mark">>, "portinfo">>, <<(RegChar \cup {58, Percent}) \ UriDigit, <<>>, "info">>,
     <<{64}, <<"userinfo">>, "host0">>} \cup Leave(<<"mark", "port">>)
PortInfoEdges ==
    {<<UriDigit, <<>>, "portinfo">>, <<(RegChar \cup {58, Percent}) \ UriDigit, <<>>, "info">>,
     <<{64}, <<"userinfo">>, "host0">>} \cup Leave(<<"port", "mark">>)
InfoEdges == {<<RegChar \cup {58, Percent}, <<>>, "info">>, <<{64}, <<"userinfo">>, "host0">>}
Host0Edges ==
    {<<RegChar \cup {Percent, Stx}, <<"mark">>, "host">>, <<{58}, <<"mark", "host">>, "port0">>,
     <<{91}, <<"mark">>, "literal">>} \cup Leave(<<"mark", "host">>)
HostEdges ==
    {<<RegChar \cup {Percent, Stx}, <<>>, "host">>, <<{58}, <<"host">>, "port0">>} \cup Leave(<<"host", "mark">>)
LiteralEdges == {<<(0 .. 255) \ {93}, <<>>, "literal">>, <<{93}, <<>>, "bracket">>}
BracketEdges == {<<{58}, <<"host">>, "port0">>} \cup Leave(<<"host", "mark">>)
Port0Edges == {<<UriDigit, <<"mark">>, "port">>} \cup Leave(<<"mark", "port">>)
PortEdges == {<<UriDigit, <<>>, "port">>} \cup Leave(<<"port", "mark">>)

SlashEdges ==
    {<<{47}, <<>>, "authority">>, <<PChar \cup {Percent}, <<>>, "path">>}
        \cup {<<{63}, <<"path">>, "query0">>, <<{35}, <<"path">>, "fragment0">>}
PathEdges ==
    {<<PChar \cup {47, Percent}, <<>>, "path">>, <<{63}, <<"path">>, "query0">>, <<{35}, <<"path">>, "fragment0">>}
Query0Edges == {<<QueryChar \cup {Percent}, <<"mark">>, "query">>, <<{35}, <<"mark", "query">>, "fragment0">>}
QueryEdges == {<<QueryChar \cup {Percent}, <<>>, "query">>, <<{35}, <<"query">>, "fragment0">>}
Fragment0Edges == {<<QueryChar \cup {Percent}, <<"mark">>, "fragment">>}
FragmentEdges == {<<QueryChar \cup {Percent}, <<>>, "fragment">>}

UriTable ==
    [start |-> StartEdges, name |-> NameEdges, noscheme |-> NoSchemeEdges, hier |-> HierEdges,
     rootless |-> RootlessEdges, authority |-> AuthorityEdges, reg |-> RegEdges, colon |-> ColonEdges,
     portinfo |-> PortInfoEdges, info |-> InfoEdges, host0 |-> Host0Edges, host |-> HostEdges,
     literal |-> LiteralEdges, bracket |-> BracketEdges, port0 |-> Port0Edges, port |-> PortEdges,
     slash |-> SlashEdges, path |-> PathEdges, query0 |-> Query0Edges, query |-> QueryEdges,
     fragment0 |-> Fragment0Edges, fragment |-> FragmentEdges]

(* A name that is no address cannot hold what only an address may.         *)
Allowed(m, c) ==
    LET s == Append(Since(m), c) IN
    CASE m.at \in {"reg", "host"} /\ (Stx \in ToSet(s)) ->
           IF c \in {47, 58, 63, 35} THEN Quad(Since(m)) ELSE QuadStart(s)
      [] m.at = "literal" ->
           IF c = 93 THEN LitEnd(LiteralOf(Tail(Since(m)))) ELSE LiteralOf(Tail(s)).kind # "wrong"
      [] OTHER -> TRUE

Arrived(n, c, k, to) ==
    [n EXCEPT !.mark = k.mark, !.uri = k.uri, !.pct = IF c = Percent THEN 2 ELSE 0,
              !.at = IF k.at = "thrown" THEN "thrown" ELSE to]
Along(m, n, c, edge) == Arrived(n, c, UriActs(m, edge[2]), edge[3])
UriMove(m, n, c, edges) ==
    IF edges = {} \/ ~ Allowed(m, c) THEN [n EXCEPT !.at = "error"] ELSE Along(m, n, c, CHOOSE e \in edges : TRUE)

UriStep(m, c) ==
    LET n == [m EXCEPT !.pos = @ + 1, !.chars = Append(@, c)]
    IN CASE m.at \in {"error", "thrown"} -> n
         [] m.at \notin {"error", "thrown"} /\ m.pct > 0 ->
              IF c \in XDigit THEN [n EXCEPT !.pct = @ - 1] ELSE [n EXCEPT !.at = "error"]
         [] OTHER -> UriMove(m, n, c, {e \in UriTable[m.at] : c \in e[1]})

UriMachine0 == [at |-> "start", pct |-> 0, mark |-> 0, pos |-> 1, chars |-> <<>>, uri |-> NoUri]
UriRun(s) == FoldLeft(LAMBDA m, c : UriStep(m, c), UriMachine0, s)

(* At the end of the text, unless it ends inside a part that may not end.  *)
EndActs ==
    [start |-> <<"mark", "path">>, name |-> <<"mark", "path">>, noscheme |-> <<"mark", "path">>,
     hier |-> <<"mark", "path">>, rootless |-> <<"mark", "path">>, slash |-> <<"path">>, path |-> <<"path">>,
     query0 |-> <<"mark", "query">>, query |-> <<"query">>,
     fragment0 |-> <<"mark", "fragment">>, fragment |-> <<"fragment">>,
     authority |-> <<"mark", "host", "path">>, host0 |-> <<"mark", "host", "path">>,
     reg |-> <<"host", "mark", "path">>, host |-> <<"host", "mark", "path">>, bracket |-> <<"host", "mark", "path">>,
     colon |-> <<"mark", "port", "path">>, port0 |-> <<"mark", "port", "path">>,
     portinfo |-> <<"port", "mark", "path">>, port |-> <<"port", "mark", "path">>]
Final(m) ==
    /\ m.at \in DOMAIN EndActs /\ m.pct = 0
    /\ m.at \in {"reg", "host"} /\ Stx \in ToSet(Since(m)) => Quad(Since(m))
UriEnd(m) == IF Final(m) THEN UriActs(m, EndActs[m.at]) ELSE m

ToLower(s) == [i \in DOMAIN s |-> IF s[i] \in 65 .. 90 THEN s[i] + 32 ELSE s[i]]
Outcome(m) == IF ~ Final(m) THEN IF m.at = "thrown" THEN "throws" ELSE "nullptr"
              ELSE IF UriEnd(m).at = "thrown" THEN "throws" ELSE "uri"
create(s) == UriRun(ToLower(s))

-----------------------------------------------------------------------------
UriInit == more = 0 /\ machine \in {UriRun(s) : s \in UriStarts}
ReadChar(c) ==
    /\ more < MaxMore /\ machine.at \notin {"error", "thrown"}
    /\ machine' = UriStep(machine, c) /\ more' = more + 1
UriNext == \E c \in UriChars : ReadChar(c)

(* getPath, getPort, isDefaultPort and toString.                           *)
HttpScheme == <<104, 116, 116, 112>>
WsScheme == <<119, 115>>
DefaultPort(u) ==
    CASE u.scheme \in {HttpScheme, WsScheme} -> 80
      [] u.scheme \in {Append(HttpScheme, 115), Append(WsScheme, 115)} -> 443
      [] OTHER -> 0
getPort(u) == IF u.port # 0 THEN u.port ELSE DefaultPort(u)
isDefaultPort(u) == u.port = 0 \/ u.port = DefaultPort(u)
Decimal(n) == LET ds[k \in 0 .. n] == IF k < 10 THEN <<48 + k>> ELSE Append(ds[k \div 10], 48 + (k % 10)) IN ds[n]
Unless(empty, s) == IF empty THEN <<>> ELSE s
uriToString(u) ==
    u.scheme \o Unless(u.scheme = <<>>, <<58>>) \o Unless(u.host = <<>>, <<47, 47>>)
        \o u.userinfo \o Unless(u.userinfo = <<>>, <<64>>) \o u.host
        \o Unless(isDefaultPort(u), <<58>> \o Decimal(u.port))
        \o (IF u.path = <<>> THEN <<47>> ELSE u.path)
        \o Unless(u.query = <<>>, <<63>>) \o u.query \o Unless(u.fragment = <<>>, <<35>>) \o u.fragment

-----------------------------------------------------------------------------
(* The parts of a URI by RFC 3986, which uri.rl cites: each ends at the    *)
(* first character that begins another one.                                *)
NextOf(t, from, cs) ==
    LET at == {i \in from .. Len(t) : t[i] \in cs} IN IF at = {} THEN Len(t) + 1 ELSE Min(at)
HostParts(authority, at, host, end) ==
    [userinfo |-> SubSeq(authority, 1, at - 1), host |-> SubSeq(host, 1, end - 1),
     digits |-> SubSeq(host, end + 1, Len(host)), colon |-> end <= Len(host)]
AuthorityParts(authority) ==
    LET at == IF 64 \in ToSet(authority) THEN NextOf(authority, 1, {64}) ELSE 0
        host == SubSeq(authority, at + 1, Len(authority))
    IN HostParts(authority, at, host,
                 NextOf(host, IF host # <<>> /\ host[1] = 91 THEN NextOf(host, 1, {93}) ELSE 1, {58}))
RestParts(t, path, query, fragment) ==
    [path |-> SubSeq(t, path, query - 1), query |-> SubSeq(t, query + 1, fragment - 1),
     fragment |-> SubSeq(t, fragment + 1, Len(t))]
PathAt(t, path) == RestParts(t, path, NextOf(t, path, {63, 35}), NextOf(t, path, {35}))
AfterScheme(t, from) ==
    LET named == from < Len(t) /\ t[from] = 47 /\ t[from + 1] = 47
        path == NextOf(t, from + 2, {47, 63, 35})
    IN IF named THEN [named |-> TRUE] @@ AuthorityParts(SubSeq(t, from + 2, path - 1)) @@ PathAt(t, path)
       ELSE [named |-> FALSE] @@ AuthorityParts(<<>>) @@ PathAt(t, from)
SchemeAt(t, colon) ==
    IF colon <= Len(t) /\ t[colon] = 58 THEN [scheme |-> SubSeq(t, 1, colon - 1)] @@ AfterScheme(t, colon + 1)
    ELSE [scheme |-> <<>>] @@ AfterScheme(t, 1)
PartsOf(t) == SchemeAt(t, NextOf(t, 1, {58, 47, 63, 35}))

(* create finds these parts, but for a path that begins without a slash    *)
(* and user information with a colon, and does not throw if no host or     *)
(* port is empty and there is no such colon.  What is accepted toString    *)
(* writes so that it reads again, unless there is no host, but a port,     *)
(* user information, or a path that begins like one.                       *)
ReadsAgain(u, again) ==
    /\ Outcome(again) = "uri"
    /\ UriEnd(again).uri = [u EXCEPT !.path = IF @ = <<>> THEN <<47>> ELSE @,
                                    !.port = IF isDefaultPort(u) THEN 0 ELSE @]
Full(p)    == p.named => p.host # <<>> /\ (p.colon => p.digits # <<>>)
Rooted(p)  == p.path = <<>> \/ p.path[1] = 47
OneName(p) == 58 \notin ToSet(p.userinfo)
UriReads(outcome, u, p) ==
    /\ Full(p) /\ OneName(p) => outcome # "throws"
    /\ outcome = "uri" =>
          /\ u.scheme = p.scheme /\ u.host = p.host /\ u.query = p.query /\ u.fragment = p.fragment
          /\ u.port = atoi(p.digits)
          /\ Rooted(p) => u.path = p.path
          /\ OneName(p) => u.userinfo = p.userinfo
          /\ u.host # <<>> \/ (u.port = 0 /\ u.userinfo = <<>> /\ ~ IsPrefix(<<47, 47>>, u.path)) =>
                ReadsAgain(u, create(uriToString(u)))
UriRight == UriReads(Outcome(machine), UriEnd(machine).uri, PartsOf(machine.chars))

(* The path of a URI is what stands between the authority, or the scheme,  *)
(* and the query, as uri.h draws it, with a slash in front or without.     *)
PathIsKept == Outcome(machine) = "uri" => UriEnd(machine).uri.path = PartsOf(machine.chars).path

(* "A Uri if the text is one, else nullptr" (uri.h:39): create has no      *)
(* other outcome.                                                          *)
UriOrNull == Outcome(machine) \in {"uri", "nullptr"}
=============================================================================
