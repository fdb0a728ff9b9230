------------------------------ MODULE MCStream ------------------------------
(* Requests for TLC to send through Stream.  What each deserves is written  *)
(* down by hand, from the meaning of the message.                           *)
EXTENDS Segments

Request(line, fields, body, path, status, content) ==
  LET head == FlattenSeq([i \in DOMAIN fields |-> fields[i] \o Crlf])
      text == line \o Crlf \o head \o Crlf \o body
  IN [text     |-> text,
      line     |-> Len(line) + 2,
      head     |-> Len(line) + 2 + Len(head) + 2,
      trailers |-> Len(text),
      path     |-> path,
      status   |-> status,
      content  |-> content]

Line(method, target) == <<method, "SP">> \o target \o <<"SP", "1.1">>

Ours    == <<"localhost", ":", "9000">>
HostIs(authority) == <<"host", ":", "SP">> \o authority
Host    == HostIs(Ours)
Length0 == <<"content-length", ":", "0">>
Length2 == <<"content-length", ":", "2">>
Coded   == <<"transfer-encoding", ":", "chunked">>

Simple(method, fields, body, status, content) ==
  Request(Line(method, <<"/">>), <<Host>> \o fields, body, <<"/">>,
          status, content)

Refused(line, fields, status) ==
  Request(line, fields, <<>>, <<"/">>, status, <<>>)

Fetch  == Simple("GET", <<>>, <<>>, "200", <<>>)
Search == Request(Line("GET", Ours \o <<"/", "?", "q">>), <<Host>>, <<>>, <<"/">>,
                  "200", <<>>)
Other  == Request(Line("GET", <<"/", "b">>), <<Host>>, <<>>, <<"/", "b">>,
                  "404", <<>>)
Store  == Simple("POST", <<Length2>>, <<"x", "y">>, "201", <<"x", "y">>)
Pieces == Simple("POST", <<Coded>>,
                 <<"2", "CR", "LF", "x", "y", "CR", "LF",
                   "1", "CR", "LF", "z", "CR", "LF",
                   "0", "CR", "LF", "CR", "LF">>,
                 "201", <<"x", "y", "z">>)
(* The same with a space in the data.                                       *)
Spaced == Simple("POST", <<Coded>>,
                 <<"2", "CR", "LF", "x", "SP", "CR", "LF",
                   "0", "CR", "LF", "CR", "LF">>,
                 "201", <<"x", "SP">>)
Zipped == Simple("POST", <<<<"transfer-encoding", ":", "gzip", ",", "chunked">>>>,
                 <<"1", "CR", "LF", "z", "CR", "LF", "0", "CR", "LF", "CR", "LF">>,
                 "201", <<"z">>)

(* Chunked content with a trailer field, whose name is not one word, as the *)
(* parser starts to read in the middle of it.                               *)
Trailer == <<"t", "r", "a", "c", "e", ":", "SP", "v", "CR", "LF", "CR", "LF">>
Trailed ==
  LET request == Simple("POST", <<Coded>>,
                        <<"1", "CR", "LF", "z", "CR", "LF", "0", "CR", "LF">>
                          \o Trailer,
                        "201", <<"z">>)
  IN [request EXCEPT !.trailers = @ - Len(Trailer)]

(* A request for every way to be refused.  The status is the one of the     *)
(* first test that fails: a missing Host field leaves most targets without  *)
(* an authority, which is tested (421) before the field is missed (400).    *)
RefusedRequests == {
  Refused(<<"GET">>, <<Host>>, "400"),
  Refused(Line("FETCH", <<"/">>), <<Host>>, "501"),
  Refused(<<"GET", "SP", "/">>, <<Host>>, "400"),
  Refused(<<"GET", "SP", "/", "SP">>, <<Host>>, "400"),
  Refused(Line("GET", <<"/", "bad">>), <<Host>>, "400"),
  Refused(Line("GET", <<"/", "?", "bad">>), <<Host>>, "400"),
  Refused(Line("GET", <<"*", "/">>), <<Host>>, "400"),
  Refused(<<"GET", "SP", "/", "SP", "1.0">>, <<Host>>, "400"),
  Refused(Line("GET", <<"/">>), <<<<"host">>>>, "400"),
  Refused(Line("GET", <<"/">>), <<<<"host", ":", "SP">>>>, "400"),
  Refused(Line("GET", <<"/">>), <<HostIs(<<"bad">>)>>, "400"),
  Refused(Line("GET", <<"/">>), <<HostIs(<<"[", "v", "1">>)>>, "400"),
  Refused(Line("GET", <<"/">>), <<HostIs(<<"user", "@">> \o Ours)>>, "400"),
  Refused(Line("GET", <<"/">>), <<HostIs(<<"other", ":", "9000">>)>>, "421"),
  Refused(Line("GET", <<"/">>), <<HostIs(<<"localhost">>)>>, "421"),
  Refused(Line("GET", <<"/">>), <<HostIs(<<"[", "]", ":", "9000">>)>>, "421"),
  Refused(Line("GET", <<"/">>), <<Host, Host>>, "400"),
  Refused(Line("GET", <<"/">>), <<>>, "421"),
  Refused(Line("GET", Ours \o <<"/">>), <<>>, "400"),
  Refused(Line("CONNECT", Ours), <<Host, Length0>>, "404"),
  Refused(Line("OPTIONS", <<"*">>), <<Host, Length0>>, "404"),
  Refused(Line("POST", <<"/">>), <<Host>>, "411"),
  Refused(Line("POST", <<"/">>), <<Host, <<"content-length", ":", "two">>>>, "400"),
  Refused(Line("POST", <<"/">>),
          <<Host, <<"content-length", ":", "huge", "x">>>>, "400"),
  Refused(Line("POST", <<"/">>), <<Host, Length2, Coded>>, "400"),
  Refused(Line("POST", <<"/">>),
          <<Host, <<"transfer-encoding", ":", "chunked", ",", "gzip">>>>, "400"),
  Refused(Line("POST", <<"/">>), <<Host, <<"transfer-encoding", ":", "lzw">>>>,
          "501"),
  Refused(Line("POST", <<"/">>),
          <<Host, Length2, <<"content-encoding", ":", "lzw">>>>, "400"),
  Refused(Line("POST", <<"/">>),
          <<Host, Length2, <<"content-type", ":", "image", "/", "png">>>>, "415"),
  Refused(Line("PUT", <<"/">>), <<Host, Length0>>, "404")}

(* Requests that end the process: no target, a length that is too large, and *)
(* codings that are words of the keyword map but no codings.                *)
FatalRequests == {
  Refused(<<"GET", "SP", "SP", "1.1">>, <<Host>>, "400"),
  Refused(Line("POST", <<"/">>), <<Host, <<"content-length", ":", "huge">>>>, "400"),
  Refused(Line("POST", <<"/">>), <<Host, <<"transfer-encoding", ":", "TRACE">>>>,
          "501"),
  Refused(Line("POST", <<"/">>),
          <<Host, Length0, <<"content-encoding", ":", "TRACE">>>>, "400")}

AllScripts ==
  {<<Fetch, Other>>, <<Store, Other>>, <<Pieces>>, <<Spaced>>, <<Zipped>>,
   <<Trailed>>, <<Other>>, <<Search>>} \cup
  {<<r>> : r \in RefusedRequests \cup FatalRequests}

FetchScript  == {<<Fetch>>}
StoreScript  == {<<Store>>, <<Pieces>>}
TwoScript    == {<<Fetch, Other>>}

-----------------------------------------------------------------------------
(* Where the chunks of a content start: a number behind the end of a line.  *)
Starts(content) ==
  {0} \cup {p \in 2 .. Len(content) - 1 :
             /\ SubSeq(content, p - 1, p) = Crlf
             /\ content[p + 1] \in DOMAIN HexDigits}

StartsIn(s, n) ==
  Starts(After(Texts(s), OnePiece(Prefix(s, n)).parsed_up_to))

(* What the theorems of SegmentProofs assume of a script and the places     *)
(* where it may be cut, which is so of all the scripts above.               *)
ASSUME CutsAreResumable ==
  ~CutHead =>
    \A s \in Scripts : \A n \in CutsOf(s) :
      Resumable(Prefix(s, n), Texts(s), StartsIn(s, n))

ASSUME CutsAreAnswered ==
  ~CutLine /\ ~CutHead /\ ~CutTrailers =>
    \A s \in Scripts : \A n \in CutsOf(s) :
      NoTrailerRead(Prefix(s, n)) /\ RightInOnePiece(Prefix(s, n), s)

=============================================================================
