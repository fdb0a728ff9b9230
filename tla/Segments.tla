------------------------------ MODULE Segments ------------------------------
(***************************************************************************)
(* The parser starts anew with each segment, from where and with what it   *)
(* left in the connection (server::on_rx).  Here its results are compared  *)
(* with those for a text that arrives in one piece.                        *)
(***************************************************************************)
EXTENDS Stream

(* What server::on_rx makes of a buffer, with a request and an index.       *)
Piece(raw, r, from) ==
  Only({[req          |-> ContentStage(After(raw, head.parsed_up_to), head),
         parsed_up_to |-> head.parsed_up_to] :
          head \in {HeadStage(raw, r, from)}})

(* The first segment of a connection.                                       *)
OnePiece(raw) == Piece(raw, NewReq, 0)

(* As long as it waits for the rest of the first request, the parser is     *)
(* where it would be, had all that has arrived come in one piece.           *)
AsOnePiece ==
  answers = <<>> /\ interest = "in" /\ io_rx_ # <<>> =>
    OnePiece(io_rx_) = [req |-> req_, parsed_up_to |-> parsed_to_idx_]

-----------------------------------------------------------------------------
(* What is asked of a text and the places where it may be cut               *)

Prefix(s, n) == SubSeq(Texts(s), 1, n)

CutsOf(s) == {n \in 1 .. Len(Texts(s)) : Cut(s, n)}

(* A chunk that starts at p has a size and no space in front of the end of  *)
(* its header, and the next, if there is one, starts at one of starts.      *)
PlainChunk(content, p, starts) ==
  LET header_end == Find(content, Crlf, p)
      header     == IF header_end = NPos THEN After(content, p)
                    ELSE Between(content, p, header_end)
  IN /\ \A i \in 1 .. Len(header) : header[i] # "SP"
     /\ header_end # NPos =>
          /\ header # <<>> /\ header[1] \notin {"CR", "LF"}
          /\ ReadHex(header) > 0 => header_end + 2 + ReadHex(header) + 2 \in starts

PlainChunks(content, starts) ==
  0 \in starts /\ \A p \in starts : PlainChunk(content, p, starts)

(* The parser can go on from raw, the beginning of text: raw does not end   *)
(* with the header, whose empty line the next call would take for content,  *)
(* and chunked content is one of plain chunks.                              *)
Resumable(raw, text, starts) ==
  LET head == HeadStage(raw, NewReq, 0)
  IN ~IsParsingHeaders(head.req) /\ IsParsingIncomplete(OnePiece(raw).req) =>
       /\ After(raw, head.parsed_up_to) # Crlf
       /\ HasField(head.req, "transfer-encoding") =>
            PlainChunks(After(text, head.parsed_up_to), starts)

ResumableCuts ==
  \A s \in Scripts : \A n \in CutsOf(s) :
    \E starts \in SUBSET Nat : Resumable(Prefix(s, n), Texts(s), starts)

(* No line of a trailer section has been read: it would be read again.      *)
NoTrailerRead(raw) ==
  LET one == OnePiece(raw)
  IN one.req.parse_state = "chunk_trailers" /\ IsParsingIncomplete(one.req) =>
       Find(After(raw, one.parsed_up_to), Crlf, one.req.chunked_content_len + 1) = NPos

(* Had raw come in one piece, the first of the requests of s would be       *)
(* answered as it deserves, if at all.                                      *)
RightInOnePiece(raw, s) ==
  LET req == OnePiece(raw).req
  IN ~IsParsingIncomplete(req) /\ req.err # "throw" =>
       \A status \in Statuses(req) :
         RightAnswer(s[1], status, req.content, Len(raw))

=============================================================================
