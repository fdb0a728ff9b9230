------------------------------ MODULE Headers -------------------------------
(***************************************************************************)
(* The first stage of http/src/parser.cpp: the request line and the        *)
(* header fields (parse_headers and what it calls).                        *)
(***************************************************************************)
EXTENDS Uri

Get == 1
Chunked == 1

(* struct req.  err is the status of its error builder; "throw" marks an    *)
(* exception nobody catches.                                                *)
NewReq ==
  [parse_state |-> "start_line", err |-> "none", method |-> 0,
   target_form |-> "none", uri |-> NewUri, fields |-> <<>>, content_len |-> 0,
   chunked_content_len |-> 0, content |-> <<>>]

HasErr(r) == r.err # "none"

IsParsingHeaders(r) == r.parse_state \in {"start_line", "headers"} /\ ~HasErr(r)

IsParsingIncomplete(r) == r.parse_state # "complete" /\ ~HasErr(r)

Fail(r, status) == [r EXCEPT !.err = status]

HasField(r, name) == <<name>> \in DOMAIN r.fields

Field(r, name) == r.fields[<<name>>]

WithField(r, name, value) ==
  [r EXCEPT !.fields = [n \in DOMAIN @ \cup {name} |->
                          IF n = name THEN value ELSE @[n]]]

-----------------------------------------------------------------------------
(* Parse the parts flags of text into the URI of the request.  An error     *)
(* there is one of the request.                                             *)
WithUri(r, text, flags) ==
  Only({[r EXCEPT !.uri = u,
                  !.err = IF u.threw THEN "throw" ELSE IF u.has_err THEN "400" ELSE @] :
          u \in {ParseUri(r.uri, raw, flags) : raw \in {text}}})

TargetForm(target) ==
  IF target[1] = "*" THEN "asterik"
  ELSE IF target[1] = "/" THEN "origin"
  ELSE IF Contains(target, "/") THEN "absolute"
  ELSE "authority"

TargetParts == [origin    |-> {"path", "query"},
                absolute  |-> UriFlags,
                authority |-> {"authority"}]

ParseReqTarget(target, r) ==
  IF target = <<>> THEN Fail(r, "throw")
  ELSE Only({IF form # "asterik"
             THEN WithUri([r EXCEPT !.target_form = form], target, TargetParts[form])
             ELSE [r EXCEPT !.target_form = form,
                            !.err = IF Len(target) > 1 THEN "400" ELSE @] :
               form \in {TargetForm(target)}})

(* A version text of another length than 8 is "short"; std::stoi throws on  *)
(* one whose digits are not digits.                                         *)
ParseVersion(version, r) ==
  IF version = <<"1.1">> THEN r
  ELSE IF version = <<"letters">> THEN Fail(r, "throw")
  ELSE Fail(r, "400")

(* No length is ever too long: the test for it also asks for an empty line. *)
ParseTargetVersion(line, target_start, r) ==
  LET target_end == Find(line, <<"SP">>, target_start)
  IN IF r.method = 0 THEN Fail(r, "501")
     ELSE IF target_end = NPos THEN Fail(r, "400")
     ELSE Only({IF q.err = "throw" THEN q
                ELSE IF target_end + 1 >= Len(line) THEN Fail(q, "400")
                ELSE [ParseVersion(After(line, target_end + 1), q)
                        EXCEPT !.parse_state = "headers"] :
                  q \in {ParseReqTarget(Between(line, target_start, target_end), r)}})

ParseReqLine(line, r) ==
  LET method_end == Find(line, <<"SP">>, 0)
  IN IF method_end = NPos THEN Fail(r, "400")
     ELSE ParseTargetVersion(line, method_end + 1,
            [r EXCEPT !.method = KeywordVal(Between(line, 0, method_end))])

(* A target without an authority takes it from the Host field; with a       *)
(* target that is an authority the field gives the rest.                    *)
ParseHost(value, r) ==
  IF r.target_form = "absolute" THEN r
  ELSE WithUri(r, value, IF r.target_form = "authority"
                         THEN UriFlags \ {"authority"}
                         ELSE {"scheme", "authority"})

ParseFieldLine(line, r) ==
  LET colon == Find(line, <<":">>, 0)
      name  == Between(line, 0, colon)
      start == FindNotOf(line, "SP", colon + 1)
      value == After(line, start)
      added == WithField(r, name, value)
  IN IF colon = NPos \/ name \in DOMAIN r.fields \/ start = NPos
     THEN Fail(r, "400")
     ELSE IF name = <<"host">> THEN ParseHost(value, added) ELSE added

-----------------------------------------------------------------------------
(* parse_headers.  Its result has the request and the place up to which the *)
(* text is parsed.  The empty line that ends the header is stepped over     *)
(* only when something follows it.                                          *)

HeaderLine(raw, s) ==
  LET line_end == Find(raw, Crlf, s.line_start)
      past     == IF s.line_start + 2 < Len(raw) THEN 2 ELSE 0
  IN IF s.done \/ s.req.parse_state # "headers" \/ HasErr(s.req)
     THEN s
     ELSE IF line_end = NPos
     THEN [s EXCEPT !.parsed_up_to = s.line_start, !.done = TRUE]
     ELSE IF line_end = s.line_start
     THEN [s EXCEPT !.req.parse_state = "content",
                    !.parsed_up_to = s.line_start + past]
     ELSE [s EXCEPT
             !.req = Only({ParseFieldLine(line, s.req) :
                             line \in {Between(raw, s.line_start, line_end)}}),
             !.line_start = line_end + 2]

HeaderLines(raw, r, line_start, start_idx) ==
  Loop(LAMBDA s : HeaderLine(raw, s),
       [req |-> r, line_start |-> line_start, parsed_up_to |-> start_idx,
        done |-> FALSE],
       Len(raw))

ParseHeaders(raw, r, start_idx) ==
  LET line_end == Find(raw, Crlf, 0)
  IN IF r.parse_state # "start_line"
     THEN HeaderLines(raw, r, start_idx, start_idx)
     ELSE IF line_end = NPos
     THEN [req |-> Fail(r, "400"), parsed_up_to |-> start_idx]
     ELSE Only({HeaderLines(raw, q, line_end + 2, start_idx) :
                  q \in {ParseReqLine(line, r) :
                           line \in {Between(raw, 0, line_end)}}})

=============================================================================
