------------------------------- MODULE Filters -------------------------------
(***************************************************************************)
(* The filters http.lua and url.lua: a message is created from a table and *)
(* parsed into one.  A string is a sequence of tokens: words, which are    *)
(* made of letters, digits and dashes, and the marks the patterns look     *)
(* for.  A mark that arrives in two pieces is not found until it is whole, *)
(* so nothing is lost by never cutting one.                                *)
(***************************************************************************)
EXTENDS Integers, SequencesExt, FiniteSetsExt, TLC

CRLF == "\r\n"
Space == " "
Colon == ": " \* between the name and the value of a field
Methods == {"GET", "PUT", "POST", "HEAD", "OPTIONS", "DELETE", "TRACE", "CONNECT", "PATCH"}
Marks == {Space, Colon, "?", "&", "=", CRLF, "HTTP/1.1", "HTTP/1.0", "/index"}
IsWord(token) == token \notin Marks \* [%w-]+

\* What a parser answers: nil, a Lua error instead of an answer, or a table.
Nil == [is |-> "nil"]
LuaError == [is |-> "error"]
NoBody == <<"nil">>

-----------------------------------------------------------------------------
(* string.find, string.sub, string.gmatch                                  *)

\* 0 where string.find answers nil.
Find(s, token) == SelectInSeq(s, LAMBDA x : x = token)
FindBlankLine(s) ==
    LET at == {k \in 1 .. Len(s) - 1 : s[k] = CRLF /\ s[k + 1] = CRLF}
    IN  IF at = {} THEN 0 ELSE Min(at)
Sub(s, from, to) == SubSeq(s, from, IF to < Len(s) THEN to ELSE Len(s))

\* The longest stretches of s without one of the tokens in D.
Stretches(s, D) ==
    {r \in (1 .. Len(s)) \X (1 .. Len(s)) :
        /\ r[1] <= r[2] /\ \A k \in r[1] .. r[2] : s[k] \notin D
        /\ r[1] = 1 \/ s[r[1] - 1] \in D
        /\ r[2] = Len(s) \/ s[r[2] + 1] \in D}

\* The table a loop over matches fills: later ones win.  A match is a record
\* of the positions where its key begins, where key and value are separated
\* and where the value ends.
Filled(s, matches) ==
    LET Key(m) == SubSeq(s, m.from, m.at - 1)
        LastOf(k) == CHOOSE m \in matches :
                        /\ Key(m) = k
                        /\ \A other \in matches : Key(other) = k => other.at <= m.at
    IN  [k \in {Key(m) : m \in matches} |-> SubSeq(s, LastOf(k).at + 1, LastOf(k).to)]

\* gmatch(s, "([%w-]+): ([^\r\n]+)"): in every line the first ": " that has a
\* name before and a value behind it.
Fields(s) ==
    LET Colons(r) == {p \in r[1] + 1 .. r[2] - 1 : s[p] = Colon /\ IsWord(s[p - 1])}
        NameOf(r, p) == Min({b \in r[1] .. p - 1 : \A k \in b .. p - 1 : IsWord(s[k])})
    IN  {[from |-> NameOf(r, Min(Colons(r))), at |-> Min(Colons(r)), to |-> r[2]] :
            r \in {x \in Stretches(s, {CRLF}) : Colons(x) # {}}}

\* gmatch(s, "([^?&]+)=([^?&]+)"): the key is as long as it can be.
Parameters(s) ==
    LET Equals(r) == {p \in r[1] + 1 .. r[2] - 1 : s[p] = "="}
    IN  {[from |-> r[1], at |-> Max(Equals(r)), to |-> r[2]] :
            r \in {x \in Stretches(s, {"?", "&"}) : Equals(x) # {}}}

\* t after the assignments of u, which win.
Assigned(t, u) ==
    [k \in DOMAIN t \union DOMAIN u |-> IF k \in DOMAIN u THEN u[k] ELSE t[k]]
Entry(name, value) == [k \in {name} |-> value]

\* The orders in which pairs() may go through a table.
Orders(t) == SetToSeqs(DOMAIN t)

-----------------------------------------------------------------------------
(* url.parse, url.create                                                   *)

\* A parameter named cmd takes the place of what is before the mark.
UrlParse(url) ==
    LET mark == Find(url, "?")
    IN  IF mark = 0 THEN Nil
        ELSE [is |-> "table", t |-> Assigned(Entry(<<"cmd">>, SubSeq(url, 1, mark - 1)),
                                             Filled(url, Parameters(url)))]

\* order is the one in which pairs() goes through the keys.
UrlCreate(t, order) ==
    LET Pair(k) == k \o <<"=">> \o t[k] \o <<"&">>
        url == FlattenSeq([n \in 1 .. Len(order) |-> Pair(order[n])])
    IN  Sub(url, 1, Len(url) - 1)

-----------------------------------------------------------------------------
(* http.parse, http.create                                                 *)

RequestOf(msghead, head, body) ==
    LET space == Find(msghead, Space)
        method == SubSeq(msghead, 1, space - 1)
    IN  IF space = 0 THEN LuaError
        ELSE IF \A m \in Methods : method # <<m>> THEN Nil
        ELSE [is |-> "table", msgtype |-> "REQUEST", method |-> method,
              url |-> Sub(msghead, space + 1, head - 2), version |-> "HTTP/1.1",
              contents |-> Filled(msghead, Fields(msghead)), body |-> body]

\* The comparison head > 1 fails on nil when the status line is the whole head.
ResponseOf(msghead, body) ==
    LET eol == Find(msghead, CRLF)
    IN  IF eol = 0 THEN LuaError
        ELSE [is |-> "table", msgtype |-> "RESPONSE", status |-> SubSeq(msghead, 2, eol - 1),
              version |-> "HTTP/1.1", contents |-> Filled(msghead, Fields(msghead)), body |-> body]

BodyWithLineEnd(data, crlf) == SubSeq(data, crlf + 1, Len(data)) \* mutant: off by one
BodyOf(data, crlf) == SubSeq(data, crlf + 2, Len(data))

\* The version is looked for in all of the data, HTTP/1.1 before HTTP/1.0.
HttpParse(data) ==
    LET head == IF Find(data, "HTTP/1.1") # 0 THEN Find(data, "HTTP/1.1")
                ELSE Find(data, "HTTP/1.0")
        crlf == FindBlankLine(data)
        msghead == SubSeq(data, 1, crlf - 1)
        msgbody == BodyOf(data, crlf)
    IN  IF head = 0 \/ crlf = 0 THEN Nil
        ELSE IF head = 1 THEN ResponseOf(msghead, msgbody)
        ELSE RequestOf(msghead, head, msgbody)

Line(name, value) == name \o <<Colon>> \o value \o <<CRLF>>

HttpCreate(t, order) ==
    LET first == IF t.msgtype = "REQUEST"
                 THEN t.method \o <<Space>> \o t.url \o <<Space, t.version, CRLF>>
                 ELSE <<t.version, Space>> \o t.status \o <<CRLF>>
        fields == FlattenSeq([n \in 1 .. Len(order) |-> Line(order[n], t.contents[order[n]])])
        rest == IF t.body = NoBody THEN <<CRLF>>
                ELSE Line(<<"Content-Length">>, <<ToString(Len(t.body))>>) \o <<CRLF>> \o t.body
    IN  IF t.msgtype \in {"REQUEST", "RESPONSE"} THEN first \o fields \o rest ELSE Nil
=============================================================================
