---------------------------- MODULE HttpExchange ----------------------------
(***************************************************************************)
(* Messages of the HTTP filter over a connection: the peer sends what      *)
(* http.create made, the reader has http.parse look at what file.read has  *)
(* returned so far.                                                        *)
(***************************************************************************)
EXTENDS FileRead, Filters

CONSTANTS
    Contents, \* header fields: functions from names to values
    Queries,  \* url parameters: functions from keys to values
    Bodies    \* message bodies; NoBody may be one

\* A string with something in it and none of the tokens in D.
IsText(s, D) == s \in Seq(Tokens) /\ s # <<>> /\ \A k \in 1 .. Len(s) : s[k] \notin D

\* url.create escapes nothing, and http.parse looks for a version from the front.
NotInUrl == {"?", "&", CRLF, Colon, "HTTP/1.1", "HTTP/1.0"}

\* What a program gives http.create and url.create: names are words, a value is
\* no line end, the parts of a url are no separator of it, and a "=" ends the
\* value it is in.  A length is digits.
WellFormed ==
    /\ \A f \in Contents :
          /\ f \in [DOMAIN f -> Seq(Tokens)] /\ IsFiniteSet(DOMAIN f)
          /\ \A name \in DOMAIN f : IsText(name, Marks) /\ IsText(f[name], {CRLF})
    /\ \A q \in Queries :
          /\ q \in [DOMAIN q -> Seq(Tokens)] /\ IsFiniteSet(DOMAIN q)
          /\ \A key \in DOMAIN q :
                /\ IsText(key, NotInUrl) /\ IsText(q[key], NotInUrl)
                /\ \A k \in 1 .. Len(q[key]) - 1 : q[key][k] # "="
    /\ \A b \in Bodies \ {NoBody} : b \in Seq(Tokens) /\ ToString(Len(b)) # CRLF
ASSUME WellFormedAssumption == WellFormed

\* A url with the parameters of url.create behind it.
Url(q, order) ==
    IF q = <<>> THEN <<"/index">> ELSE <<"/index", "?">> \o UrlCreate(q, order)

Versions == {"HTTP/1.0", "HTTP/1.1"}

Requests ==
    UNION {[msgtype : {"REQUEST"}, method : {<<"GET">>}, query : {q}, version : Versions,
            url : {Url(q, o) : o \in Orders(q)}, contents : Contents, body : Bodies] :
              q \in Queries}
Responses ==
    [msgtype : {"RESPONSE"}, status : {<<"200">>}, version : Versions,
     contents : Contents, body : Bodies]

Created(messages) == UNION {{HttpCreate(m, o) : o \in Orders(m.contents)} : m \in messages}
CreatedMessages == Created(Requests \union Responses)

\* The messages a stream may be.
MessagesOf == [s \in Streams |-> {m \in Requests \union Responses : s \in Created({m})}]

-----------------------------------------------------------------------------

\* The fields http.create writes, its own among them.
Sent(m) ==
    IF m.body = NoBody THEN m.contents
    ELSE Assigned(m.contents, Entry(<<"Content-Length">>, <<ToString(Len(m.body))>>))

Carried(m) == IF m.body = NoBody THEN <<>> ELSE m.body

\* Where the head of message m ends in stream s.
HeadEnd(m, s) == Len(s) - Len(Carried(m))
HeadRead(m) == Len(got) >= HeadEnd(m, stream)

\* Message m as http.create was given it, with what has come of its body.
Given(m, body) ==
    IF m.msgtype = "REQUEST"
    THEN [is |-> "table", msgtype |-> "REQUEST", method |-> m.method, url |-> m.url,
          version |-> m.version, contents |-> Sent(m), body |-> body]
    ELSE [is |-> "table", msgtype |-> "RESPONSE", status |-> m.status,
          version |-> m.version, contents |-> Sent(m), body |-> body]

\* Every message is of version 1.1 to http.parse (http.lua:49).
AsVersion11(given) == [given EXCEPT !.version = "HTTP/1.1"]
\* The space before the status counts as part of it (http.lua:74).
WithSpace(given) == [given EXCEPT !.status = <<Space>> \o @]

\* What http.parse makes of message m: a response does not come back as given.
Answer(m, body) ==
    IF m.msgtype = "REQUEST" THEN AsVersion11(Given(m, body))
    ELSE IF Sent(m) = <<>> THEN LuaError
    ELSE AsVersion11(WithSpace(Given(m, body)))

\* What has been read of the body.
BodyRead(m) == SubSeq(got, HeadEnd(m, stream) + 1, Len(got))
Expected(m) == IF HeadRead(m) THEN Answer(m, BodyRead(m)) ELSE Nil

\* What url.parse should make of the url of request m.
UrlAnswer(m) ==
    IF m.query = <<>> THEN Nil
    ELSE [is |-> "table", t |-> Assigned(Entry(<<"cmd">>, <<"/index">>), m.query)]

\* Wherever the reads cut a message, http.parse finds it once its head is there,
\* its body as far as it has come.  A request of version 1.1 is then exactly what
\* http.create was given, with the Content-Length it adds, and url.parse gives back
\* the parameters of url.create.
\* Not so: a message of version 1.0 comes back as one of 1.1, and is not found
\* where it should be when HTTP/1.1 stands anywhere in it; a status comes back
\* with a space before it; a response with no field at all is a Lua error.
ParsesWhatWasCreated ==
    lost = 0 /\ pc = "lua" =>
        \A m \in MessagesOf[stream] :
            \/ m.version = "HTTP/1.0" /\ Contains(got, "HTTP/1.1")
            \/ /\ HttpParse(got) = Expected(m)
               /\ m.msgtype = "REQUEST" /\ m.version = "HTTP/1.1" /\ HeadRead(m) =>
                     HttpParse(got) = Given(m, BodyRead(m))
               /\ m.msgtype = "REQUEST" /\ HeadRead(m) =>
                     UrlParse(HttpParse(got).url) = UrlAnswer(m)
=============================================================================
