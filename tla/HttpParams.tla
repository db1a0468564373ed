---------------------------- MODULE HttpParams ----------------------------
(***************************************************************************)
(* The parameters of a request (HttpRequest, http_common.cpp): what a      *)
(* client sets with setPath, setQuery, setCookie and setContent, the text  *)
(* toString makes of it, and what the server's HttpRequest finds in this   *)
(* with getParam and getCookie.  Names are told apart without case.  The   *)
(* grammar of the request line is left out: it passes on what urlEncode    *)
(* leaves over.                                                            *)
(***************************************************************************)
EXTENDS TextCodecs, Functions

CONSTANTS
    ParamNames,     \* names of parameters: sequences of bytes, none with '%' or '+'
    ParamValues,    \* values of parameters
    PlainNames,     \* names and values of cookies and of a form: no byte of
    PlainValues,    \*   these separates them
    ReqPaths,       \* paths
    MaxParams       \* bound: steps of the client

VARIABLES
    m_path, m_queryMap, m_cookieMap,    \* of the client's request: maps name -> value
    m_content,                          \* a form
    asked_path, asked_query, asked_cookies, asked_form,    \* history: what was set
    steps

reqVars == <<m_path, m_queryMap, m_cookieMap, m_content>>
askedVars == <<asked_path, asked_query, asked_cookies, asked_form>>
paramVars == <<reqVars, askedVars, steps>>

Empty_ == [x \in {} |-> x]
ParamInit ==
    /\ m_path = <<47>> /\ m_queryMap = Empty_ /\ m_cookieMap = Empty_ /\ m_content = <<>>
    /\ asked_path = <<47>> /\ asked_query = Empty_ /\ asked_cookies = Empty_ /\ asked_form = Empty_
    /\ steps = 0

(* CaseInsensitive.                                                        *)
Lower(s) == [i \in DOMAIN s |-> IF s[i] \in 65 .. 90 THEN s[i] + 32 ELSE s[i]]
Alike(map, k) == {j \in DOMAIN map : Lower(j) = Lower(k)}

(* map[k] = v, which keeps the spelling of a name that is there; insert;   *)
(* erase; find.                                                            *)
Assigned(map, k, v) ==
    IF Alike(map, k) = {} THEN [j \in DOMAIN map \cup {k} |-> IF j = k THEN v ELSE map[j]]
    ELSE [j \in DOMAIN map |-> IF j \in Alike(map, k) THEN v ELSE map[j]]
InsertedIn(map, k, v) == IF Alike(map, k) = {} THEN Assigned(map, k, v) ELSE map
Erased_(map, k) == Restrict(map, DOMAIN map \ Alike(map, k))
Found_(map, k, def) == IF Alike(map, k) = {} THEN def ELSE map[CHOOSE j \in Alike(map, k) : TRUE]

-----------------------------------------------------------------------------
(* PARSE_PARAM and PARSE_PARAM_TRANSFER: from the first '=' a name comes   *)
(* before, to the next flag.  What names and values are made of is given.  *)
IndexFrom(s, c, from) ==
    LET at == {i \in from .. Len(s) : s[i] = c} IN IF at = {} THEN 0 ELSE Min(at)

(* Mutant: the value ends at the flag before its '='.                      *)
ValueEndFrom(s, flag, last, key) == IndexFrom(s, flag, last)

ValueEnd(s, flag, last, key) == IndexFrom(s, flag, key)

Trimmed(s) == LET kept == {i \in DOMAIN s : s[i] \notin {32, 9, 13, 10}}
              IN IF kept = {} THEN <<>> ELSE SubSeq(s, Min(kept), Max(kept))
Encoded(s) == urlEncode(s, FALSE)
Decoded(s) == urlDecode(s, FALSE)
Made(s, how) ==
    CASE how = "trimmed" -> Trimmed(s)
      [] how = "encoded" -> Encoded(s)
      [] how = "decoded" -> Decoded(s)
      [] OTHER           -> s

Params(s, flag, name, value) ==
    LET parse[last \in 1 .. Len(s) + 1] ==
            LET key == IndexFrom(s, 61, last)
                pos == ValueEnd(s, flag, last, key)
                pair == <<Made(SubSeq(s, last, key - 1), name),
                          Made(SubSeq(s, key + 1, IF pos = 0 THEN Len(s) ELSE pos - 1), value)>>
            IN IF key = 0 THEN <<>> ELSE IF pos = 0 THEN <<pair>> ELSE <<pair>> \o parse[pos + 1]
    IN FoldLeft(LAMBDA map, pair : InsertedIn(map, pair[1], pair[2]), Empty_, parse[1])

(* A map as text: the names in the order of the map.                       *)
Joined_(map, flag) ==
    FoldLeft(LAMBDA t, k : (IF t = <<>> THEN t ELSE Append(t, flag)) \o k \o <<61>> \o map[k],
             <<>>, SetToSeq(DOMAIN map))

-----------------------------------------------------------------------------
Step == steps < MaxParams /\ steps' = steps + 1

setPath ==
    \E p \in ReqPaths :
        /\ Step /\ m_path' = urlEncode(p, TRUE) /\ asked_path' = p
        /\ UNCHANGED <<m_queryMap, m_cookieMap, m_content, asked_query, asked_cookies, asked_form>>

setQueryOf ==
    \E k \in ParamNames, v \in ParamValues :
        /\ Step /\ m_queryMap' = Assigned(m_queryMap, Encoded(k), Encoded(v))
        /\ asked_query' = Assigned(asked_query, k, v)
        /\ UNCHANGED <<m_path, m_cookieMap, m_content, asked_path, asked_cookies, asked_form>>

delQuery ==
    \E k \in ParamNames :
        /\ Step /\ m_queryMap' = Erased_(m_queryMap, Encoded(k))
        /\ asked_query' = Erased_(asked_query, k)
        /\ UNCHANGED <<m_path, m_cookieMap, m_content, asked_path, asked_cookies, asked_form>>

(* A whole query replaces what was there.                                  *)
setQuery ==
    \E k, j \in PlainNames, v, w \in PlainValues :
        /\ Step /\ m_queryMap' = Params(k \o <<61>> \o v \o <<38>> \o j \o <<61>> \o w, 38, "encoded", "encoded")
        /\ asked_query' = InsertedIn(Assigned(Empty_, k, v), j, w)
        /\ UNCHANGED <<m_path, m_cookieMap, m_content, asked_path, asked_cookies, asked_form>>

setCookie ==
    \E k \in PlainNames, v \in PlainValues :
        /\ Step /\ m_cookieMap' = Assigned(m_cookieMap, k, v)
        /\ asked_cookies' = Assigned(asked_cookies, k, v)
        /\ UNCHANGED <<m_path, m_queryMap, m_content, asked_path, asked_query, asked_form>>

delCookie ==
    \E k \in PlainNames :
        /\ Step /\ m_cookieMap' = Erased_(m_cookieMap, k)
        /\ asked_cookies' = Erased_(asked_cookies, k)
        /\ UNCHANGED <<m_path, m_queryMap, m_content, asked_path, asked_query, asked_form>>

(* setContent, with the Content-Type of a form.                            *)
setForm ==
    \E k \in PlainNames, v \in PlainValues :
        /\ Step /\ m_content' = k \o <<61>> \o v
        /\ asked_form' = Assigned(Empty_, k, v)
        /\ UNCHANGED <<m_path, m_queryMap, m_cookieMap, asked_path, asked_query, asked_cookies>>

ParamNext == setPath \/ setQueryOf \/ delQuery \/ setQuery \/ setCookie \/ delCookie \/ setForm

-----------------------------------------------------------------------------
(* toString, and the request the server makes of it.                       *)
toStringPath == m_path \o (IF m_queryMap = Empty_ THEN <<>> ELSE <<63>> \o Joined_(m_queryMap, 38))
Mark == IndexFrom(toStringPath, 63, 1)
SentPath == urlDecode(IF Mark = 0 THEN toStringPath ELSE SubSeq(toStringPath, 1, Mark - 1), TRUE)
SentQuery == Params(IF Mark = 0 THEN <<>> ELSE Chop(toStringPath, Mark), 38, "decoded", "decoded")
SentCookies == Params(Joined_(m_cookieMap, 59), 59, "trimmed", "as it is")
SentForm == Params(m_content, 38, "as it is", "as it is")

(* getParam decodes the name it is asked for, on the server.               *)
None_ == <<0>>
getParam(k) == Found_(SentQuery, Decoded(k), Found_(SentForm, k, None_))

(* A servlet finds every parameter, cookie and path the client has set,    *)
(* and no other, whatever bytes they are of and in whatever order they     *)
(* were set, replaced and deleted; the query comes before the form.        *)
ParamsArrive ==
    /\ SentPath = asked_path
    /\ \A k \in ParamNames \cup PlainNames :
          getParam(k) = Found_(asked_query, k, Found_(asked_form, k, None_))
    /\ \A k \in PlainNames : Found_(SentCookies, k, None_) = Found_(asked_cookies, k, None_)
    /\ Cardinality(DOMAIN SentQuery) = Cardinality(DOMAIN asked_query)
    /\ Cardinality(DOMAIN SentCookies) = Cardinality(DOMAIN asked_cookies)
=============================================================================
