--------------------------- MODULE MCHttpExchange ---------------------------
(* The messages of the run of HttpExchange: a value that holds the mark    *)
(* between names and values, the mark of a version where it is none, a     *)
(* field http.create writes too, and a blank line in a body.               *)
EXTENDS HttpExchange

CONSTANT MaxLength \* tokens in a message

MCContents == {
    <<>>,
    <<"a">> :> <<"v", ": ", "w">>,
    <<"a">> :> <<"v">> @@ <<"b">> :> <<"HTTP/1.1">>,
    <<"Content-Length">> :> <<"9">>}
MCQueries == {<<>>, <<"k">> :> <<"v", "=">>, <<"k">> :> <<"v">> @@ <<"cmd">> :> <<"w">>}
MCBodies == {NoBody, <<>>, <<"HTTP/1.1">>, <<CRLF, CRLF>>}
MCStreams == {s \in CreatedMessages : Len(s) <= MaxLength}
MCTokens == UNION {Range(s) : s \in MCStreams}
=============================================================================
