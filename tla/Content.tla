------------------------------ MODULE Content -------------------------------
(***************************************************************************)
(* The second stage of http/src/parser.cpp: parse_content, run on what     *)
(* follows the header each time more of it has arrived, and the choice of  *)
(* a response (http/src/routing.cpp, http/src/err.cpp).                    *)
(***************************************************************************)
EXTENDS Encoding

(* config.listening_port; the names of listening_ip and listening_reg_name. *)
ListeningPort == 9000

ListeningNames == {<<"127.0.0.1">>, <<"localhost">>}

(* parse_field_list: the codings before the first unknown one, and whether  *)
(* there is an unknown one.                                                 *)
ParseFieldList(r, name) ==
  IF ~HasField(r, name) THEN [codings |-> <<>>, unknown |-> FALSE]
  ELSE Only({LET bad == {i \in DOMAIN vals : vals[i] = 0}
             IN [codings |-> IF bad = {} THEN vals ELSE SubSeq(vals, 1, Min(bad) - 1),
                 unknown |-> bad # {}] :
               vals \in {[i \in DOMAIN words |-> KeywordVal(words[i])] :
                           words \in {ParseList(Field(r, name))}}})

ParseContentLen(r) ==
  LET value == Field(r, "content-length")
  IN IF ~HasField(r, "content-length") \/ HasField(r, "transfer-encoding") THEN r
     ELSE IF Len(value) # 1 \/ ~IsDigits(value[1]) THEN Fail(r, "400")
     ELSE IF value[1] = "huge" THEN Fail(r, "throw")
     ELSE [r EXCEPT !.content_len = Numbers[value[1]]]

(* The subtype is cut after the semicolon of a parameter, not before it.    *)
CheckContentType(r) ==
  LET value == Field(r, "content-type")
      slash == Find(value, <<"/">>, 0)
      semi  == Find(value, <<";">>, slash)
      type  == IF slash = NPos THEN value ELSE Between(value, 0, slash)
      sub   == IF slash = NPos THEN <<>>
               ELSE IF semi = NPos THEN After(value, slash + 1)
               ELSE Substr(value, slash + 1, semi - slash)
  IN IF KeywordVal(type) = 0 \/ KeywordVal(sub) = 0 THEN Fail(r, "415") ELSE r

ParseContentType(r) ==
  IF HasField(r, "content-type") THEN CheckContentType(r)
  ELSE CheckContentType(
         WithField(r, <<"content-type">>, <<"application", "/", "json">>))

(* The fields that say how the content is delimited and coded; a later      *)
(* error replaces an earlier one.                                           *)
ParseContentFields(r) ==
  LET te == ParseFieldList(r, "transfer-encoding").unknown
      ce == ParseFieldList(r, "content-encoding").unknown
      coded == [r EXCEPT !.err = IF ce THEN "400" ELSE IF te THEN "501" ELSE @]
  IN Only({IF q.err = "throw" THEN q ELSE ParseContentType(q) :
             q \in {ParseContentLen(coded)}})

(* The transfer codings in the order listed, until one needs more.          *)
DecodeAll(raw, r, codings) ==
  Fold(LAMBDA s, enc : IF s.fully_decoded THEN Decode(enc, raw, s.req) ELSE s,
       [req |-> r, fully_decoded |-> TRUE], codings)

(* The content codings are undone one after the other; whether more would   *)
(* be needed is not asked.                                                  *)
DecodeContent(r, codings) ==
  Fold(LAMBDA q, enc : IF q.err = "throw" THEN q ELSE Decode(enc, q.content, q).req,
       r, codings)

(* The transfer codings, or the content-length without them, delimit the    *)
(* content.                                                                 *)
DecodeTransfer(raw, r, codings) ==
  LET chunks == {i \in DOMAIN codings : codings[i] = Chunked}
  IN IF codings # <<>>
     THEN IF \/ HasField(r, "content-length")
             \/ Cardinality(chunks) > 1
             \/ chunks # {} /\ Last(codings) # Chunked
          THEN [req |-> Fail(r, "400"), fully_decoded |-> FALSE]
          ELSE DecodeAll(raw, r, codings)
     ELSE IF HasField(r, "content-length")
     THEN IF r.content_len > Len(raw)
          THEN [req |-> r, fully_decoded |-> FALSE]
          ELSE [req |-> [r EXCEPT !.content = Substr(raw, 0, r.content_len)],
                fully_decoded |-> TRUE]
     ELSE [req |-> IF r.method = Get THEN r ELSE Fail(r, "411"),
           fully_decoded |-> r.method = Get]

(* Both lists of codings are read before the content, and its trailers, are. *)
ReadContent(raw, r) ==
  Only({IF ~d.fully_decoded THEN d.req
        ELSE [DecodeContent(d.req,
                            ParseFieldList(r, "content-encoding").codings)
                EXCEPT !.parse_state = "complete"] :
          d \in {DecodeTransfer(raw, r, codings) :
                   codings \in {ParseFieldList(r, "transfer-encoding").codings}}})

ParseContent(raw, r) ==
  IF r.uri.port # ListeningPort \/ r.uri.reg_name \notin ListeningNames
  THEN Fail(r, "421")
  ELSE IF ~HasField(r, "host")
  THEN Fail(WithField(r, <<"host">>, <<>>), "400")
  ELSE IF r.uri.scheme \notin {<<>>, <<"http">>} \/ r.uri.userinfo # <<>>
  THEN Fail(r, "400")
  ELSE Only({IF HasErr(q) THEN q ELSE ReadContent(raw, q) :
               q \in {ParseContentFields(r)}})

-----------------------------------------------------------------------------
(* Mutant of HeadStage: the header is read again from its start.            *)
HeadStageRestarts(raw, r, parsed_to_idx) ==
  IF IsParsingHeaders(r) THEN ParseHeaders(raw, r, 0)
  ELSE [req |-> r, parsed_up_to |-> parsed_to_idx]

(* The two stages of server::on_rx, each of which runs only if the one      *)
(* before has come far enough.                                              *)
HeadStage(raw, r, parsed_to_idx) ==
  IF IsParsingHeaders(r) THEN ParseHeaders(raw, r, parsed_to_idx)
  ELSE [req |-> r, parsed_up_to |-> parsed_to_idx]

ContentStage(content, head) ==
  IF IsParsingHeaders(head.req) \/ HasErr(head.req) THEN head.req
  ELSE ParseContent(content, head.req)

(* route_to_resource_handler: the statuses it may end with.  Handlers are   *)
(* registered for GET and POST of "/"; one may throw.                       *)
Route(r) ==
  IF r.uri.path # <<"/">> \/ r.method \notin {1, 2} THEN {"404"}
  ELSE {IF r.method = Get THEN "200" ELSE "201", "500"}

(* An error of the parser is answered with its status.                      *)
Statuses(r) == IF HasErr(r) THEN {r.err} ELSE Route(r)

(* resp::to_str.  The empty line is written only in front of content, and   *)
(* the responses of err_builder have none.                                  *)
ToStr(status) ==
  <<status, "fields">> \o
  (IF status \in {"200", "201"} THEN <<"empty line", "content">> ELSE <<>>)

=============================================================================
