------------------------------ MODULE Encoding ------------------------------
(***************************************************************************)
(* http/src/encoding.cpp: the chunked transfer coding.  Four other codings *)
(* are accepted and left undecoded.                                        *)
(***************************************************************************)
EXTENDS Headers

(* The number operator>> reads in hex: white space is skipped, and a text   *)
(* that does not start with a digit gives 0.                                *)
HexDigits == [d \in {"0", "1", "2", "3"} |->
                CASE d = "0" -> 0 [] d = "1" -> 1 [] d = "2" -> 2 [] d = "3" -> 3]

ReadHex(text) ==
  Only({LET word == {i \in 1 .. Len(t) : t[i] \notin {"CR", "LF", "SP"}}
        IN IF word # {} /\ t[Min(word)] \in DOMAIN HexDigits
           THEN HexDigits[t[Min(word)]]
           ELSE 0 :
          t \in {text}})

(* One chunk.  The end of its header is searched for from its start, and    *)
(* need not be there when there is a space.                                 *)
Chunk(raw, s) ==
  LET start      == s.req.chunked_content_len
      space      == Find(raw, <<"SP">>, start)
      header_end == Find(raw, Crlf, start)
      size_end   == IF space = NPos THEN header_end ELSE space
      chunk_size == ReadHex(Between(raw, start, size_end))
  IN IF s.chunks # "more" THEN s
     ELSE IF size_end = NPos \/ chunk_size > Len(raw) - header_end - 2
     THEN [s EXCEPT !.chunks = "incomplete"]
     ELSE [req |-> [s.req EXCEPT
                      !.content = @ \o Substr(raw, header_end + 2, chunk_size),
                      !.content_len = @ + chunk_size,
                      !.chunked_content_len = header_end + 2 + chunk_size + 2],
           chunks |-> IF chunk_size > 0 THEN "more" ELSE "all"]

(* One field line of the trailer section, which is read from its start      *)
(* again whenever more arrives.                                             *)
TrailerLine(raw, s) ==
  LET line_end == Find(raw, Crlf, s.at)
  IN IF s.done # "more" THEN s
     ELSE IF s.at >= Len(raw) \/ line_end = NPos
     THEN [s EXCEPT !.done = "incomplete"]
     ELSE IF s.at = line_end THEN [s EXCEPT !.done = "all"]
     ELSE [s EXCEPT !.req = Only({ParseFieldLine(line, s.req) :
                                    line \in {Between(raw, s.at, line_end)}}),
                    !.at = line_end + 2]

DecodeTrailers(raw, r) ==
  IF r.chunked_content_len = Len(raw) THEN [req |-> r, fully_decoded |-> TRUE]
  ELSE Only({[req |-> s.req, fully_decoded |-> s.done = "all"] :
               s \in {Loop(LAMBDA t : TrailerLine(raw, t),
                           [req  |-> r, at |-> r.chunked_content_len + 1,
                            done |-> "more"],
                           Len(raw) + 1)}})

(* A chunk starts within the content, so that after as many as the content  *)
(* is long, and one, some place has been met twice: the loop then goes on   *)
(* until there is no memory for what it has copied.                         *)
DecodeChunked(raw, r) ==
  Only({IF s.chunks = "more"
        THEN [req |-> Fail(s.req, "throw"), fully_decoded |-> FALSE]
        ELSE IF s.chunks = "incomplete" THEN [req |-> s.req, fully_decoded |-> FALSE]
        ELSE DecodeTrailers(raw, [s.req EXCEPT !.parse_state = "chunk_trailers"]) :
          s \in {IF r.parse_state # "content" THEN [req |-> r, chunks |-> "all"]
                 ELSE Loop(LAMBDA t : Chunk(raw, t),
                           [req |-> r, chunks |-> "more"], Len(raw) + 1)}})

(* identity, gzip, compress and deflate.                                    *)
Undecoded == 2 .. 5

(* decode_map.at(enc)(raw, req).  The table of keywords has values that are *)
(* no coding, for which at throws.                                          *)
Decode(enc, raw, r) ==
  IF enc = Chunked THEN DecodeChunked(raw, r)
  ELSE IF enc \in Undecoded THEN [req |-> r, fully_decoded |-> TRUE]
  ELSE [req |-> Fail(r, "throw"), fully_decoded |-> FALSE]

=============================================================================
