------------------------------- MODULE Stream -------------------------------
(***************************************************************************)
(* One connection as its peer sees it: the bytes that go in, the requests  *)
(* the parser makes of them and the responses that come out (conn.cpp, the *)
(* callbacks of server.cpp and handle_in, handle_out of ev_epoll.cpp).     *)
(* Module Server shows that one thread at a time works on a connection, so *)
(* that here a handler is one step.                                        *)
(***************************************************************************)
EXTENDS Content

CONSTANTS
  Scripts,        \* the sequences of requests a peer may send
  CutLine,        \* TRUE: a segment may end inside a request line
  CutHead,        \* TRUE: a segment may end between a header and its content
  CutTrailers,    \* TRUE: a segment may end inside a trailer section
  EarlyFin,       \* TRUE: the peer may shut down before it has sent everything
  HandlerFails,   \* TRUE: a resource handler may throw
  CopyCorrupts    \* TRUE: strncpy on overlapping memory may garble what it copies

(* A request a peer sends: its text, how far it goes up to the end of its   *)
(* request line, of its header, and to the first field of its trailer       *)
(* section if it has one; its path, and the status and content that answer  *)
(* it.                                                                      *)
ASSUME ScriptsAssumption ==
  /\ \A script \in Scripts :
       /\ script \in Seq(Range(script)) /\ script # <<>>
       /\ \A i \in DOMAIN script :
            /\ script[i].text \in Seq(Range(script[i].text))
            /\ 0 < script[i].line /\ script[i].line < script[i].head
            /\ script[i].head <= script[i].trailers
            /\ script[i].trailers <= Len(script[i].text)
  /\ {CutLine, CutHead, CutTrailers, EarlyFin, HandlerFails, CopyCorrupts}
       \subseteq BOOLEAN

VARIABLES
  script,         \* what this peer sends
  unsent,         \* what it has not sent yet
  inq,            \* what the kernel has received and the server not read
  peer,           \* the peer's end: "open", "fin" or "rst"
  io_rx_,         \* conn::io_rx_
  parsed_to_idx_, \* conn::parsed_to_idx_
  req_,           \* conn::req_
  keep_alive,     \* conn_keep_alive in conn::status_
  interest,       \* what the connection is registered for; "closed": it is
                  \* gone; "terminated": the process is
  io_tx_,         \* conn::io_tx_ from bytes_tx to bytes_to_tx
  got,            \* what the peer has received
  answers,        \* the responses the server has prepared, and what for
  prepared        \* their texts, one after the other

peerVars == <<script, unsent, peer>>
connVars == <<io_rx_, parsed_to_idx_, req_, keep_alive, interest, io_tx_>>
history  == <<answers, prepared>>
vars == <<peerVars, inq, connVars, got, history>>

Texts(s) == Fold(LAMBDA text, request : text \o request.text, <<>>, s)

Init ==
  /\ script \in Scripts
  /\ unsent = Texts(script)
  /\ inq = <<>>
  /\ peer = "open"
  /\ io_rx_ = <<>>
  /\ parsed_to_idx_ = 0
  /\ req_ = NewReq
  /\ keep_alive = TRUE
  /\ interest = "in"
  /\ io_tx_ = <<>>
  /\ got = <<>>
  /\ answers = <<>>
  /\ prepared = <<>>

-----------------------------------------------------------------------------
(* The peer                                                                 *)

Sent == Len(Texts(script)) - Len(unsent)

(* Where request i of the script s begins in its text.                      *)
Start(s, i) == Len(Texts(SubSeq(s, 1, i - 1)))

(* A segment may end after the first p tokens of s.                         *)
Cut(s, p) ==
  \A i \in DOMAIN s :
    /\ CutLine \/ p <= Start(s, i) \/ p >= Start(s, i) + s[i].line
    /\ \/ CutHead
       \/ p # Start(s, i) + s[i].head
       \/ s[i].head = Len(s[i].text)
    /\ \/ CutTrailers
       \/ p <= Start(s, i) + s[i].trailers
       \/ p >= Start(s, i) + Len(s[i].text)

PeerSend ==
  /\ peer = "open"
  /\ \E n \in 1 .. Len(unsent) :
       /\ Cut(script, Sent + n)
       /\ inq' = inq \o SubSeq(unsent, 1, n)
       /\ unsent' = SubSeq(unsent, n + 1, Len(unsent))
  /\ UNCHANGED <<script, peer, connVars, got, history>>

PeerShutdown ==
  /\ peer = "open"
  /\ EarlyFin \/ unsent = <<>>
  /\ peer' = "fin"
  /\ UNCHANGED <<script, unsent, inq, connVars, got, history>>

PeerReset ==
  /\ peer # "rst"
  /\ peer' = "rst"
  /\ UNCHANGED <<script, unsent, inq, connVars, got, history>>

-----------------------------------------------------------------------------
(* handle_in                                                                *)

OnClose == interest' = "closed"

(* Mutant of HandleErr: a broken connection is logged and left alone.       *)
HandleErrIgnored ==
  /\ interest \in {"in", "out"}
  /\ peer = "rst"
  /\ UNCHANGED vars

(* EPOLLERR, and the ERROR results of do_rx and do_tx.                      *)
HandleErr ==
  /\ interest \in {"in", "out"}
  /\ peer = "rst"
  /\ OnClose
  /\ UNCHANGED <<peerVars, inq, io_rx_, parsed_to_idx_, req_, keep_alive,
                 io_tx_, got, history>>

(* Mutant of Respond: EV_IN for EV_OUT.                                     *)
RespondNotSent(status, r) ==
  /\ answers' = Append(answers, [status |-> status, method |-> r.method,
                                 path |-> r.uri.path, content |-> r.content])
  /\ prepared' = prepared \o ToStr(status)
  /\ io_tx_' = ToStr(status)
  /\ interest' = "in"
  /\ keep_alive' = (keep_alive /\ peer # "fin" /\ status \in {"200", "201"})

(* Prepare a response and register for output.  An error closes the         *)
(* connection once the response is out.                                     *)
Respond(status, r) ==
  /\ answers' = Append(answers, [status |-> status, method |-> r.method,
                                 path |-> r.uri.path, content |-> r.content])
  /\ prepared' = prepared \o ToStr(status)
  /\ io_tx_' = ToStr(status)
  /\ interest' = "out"
  /\ keep_alive' = (keep_alive /\ peer # "fin" /\ status \in {"200", "201"})

(* server::on_rx on the buffer raw.                                         *)
OnRx(raw) ==
  \E head \in {HeadStage(raw, req_, parsed_to_idx_)} :
  \E content \in {After(raw, head.parsed_up_to)} :
  \E r \in {ContentStage(content, head)} :
    /\ io_rx_' = raw
    /\ req_' = r
    /\ parsed_to_idx_' = head.parsed_up_to
    /\ \/ /\ r.err = "throw"
          /\ interest' = "terminated"
          /\ UNCHANGED <<keep_alive, io_tx_, history>>
       \/ /\ IsParsingIncomplete(r)
          /\ interest' = "in"
          /\ keep_alive' = (keep_alive /\ peer # "fin")
          /\ UNCHANGED <<io_tx_, history>>
       \/ /\ ~IsParsingIncomplete(r) /\ r.err # "throw"
          /\ \E s \in Statuses(r) :
               /\ s = "500" => HandlerFails
               /\ Respond(s, r)

(* Mutant of HandleIn: what is read replaces what is in the buffer.         *)
HandleInReplaces ==
  /\ interest = "in"
  /\ peer # "rst"
  /\ inq # <<>> \/ peer = "fin"
  /\ inq' = <<>>
  /\ \/ inq # <<>> /\ OnRx(inq)
     \/ /\ inq = <<>>
        /\ OnClose
        /\ UNCHANGED <<io_rx_, parsed_to_idx_, req_, keep_alive, io_tx_, history>>
  /\ UNCHANGED <<peerVars, got>>

(* do_rx empties the kernel's queue into io_rx_.                            *)
HandleIn ==
  /\ interest = "in"
  /\ peer # "rst"
  /\ inq # <<>> \/ peer = "fin"
  /\ inq' = <<>>
  /\ \/ \E raw \in {io_rx_ \o inq} :
          /\ raw # <<>>
          /\ OnRx(raw)
     \/ /\ io_rx_ \o inq = <<>>
        /\ OnClose
        /\ UNCHANGED <<io_rx_, parsed_to_idx_, req_, keep_alive, io_tx_, history>>
  /\ UNCHANGED <<peerVars, got>>

-----------------------------------------------------------------------------
(* handle_out                                                               *)

(* Mutant of ResetState: the buffer is cleared, the index into it is not.   *)
ResetStateKeepsIdx ==
  /\ io_rx_' = <<>>
  /\ req_' = NewReq
  /\ UNCHANGED parsed_to_idx_

(* conn::reset_state leaves io_rx_ alone.                                   *)
ResetState ==
  /\ parsed_to_idx_' = 0
  /\ req_' = NewReq
  /\ UNCHANGED io_rx_

(* server::on_tx                                                            *)
OnTx ==
  \/ /\ keep_alive
     /\ ResetState
     /\ interest' = "in"
  \/ /\ ~keep_alive
     /\ OnClose
     /\ UNCHANGED <<io_rx_, parsed_to_idx_, req_>>

(* Mutant of WriteBuf: bytes_tx is not set back to 0.                       *)
WriteBufKeepsCount(rest, n) == {SubSeq(rest, n + 1, Len(rest))}

(* A character other than the one that should be there.                     *)
Garbage == "garbage"

(* io_buf::write_buf moves the unsent rest to the front of the buffer it is *)
(* in, by strncpy: where the two overlap the result is undefined.           *)
WriteBuf(rest, n) ==
  {rest} \cup (IF CopyCorrupts /\ n < Len(rest)
               THEN {[i \in DOMAIN rest |-> IF i > n THEN Garbage ELSE rest[i]]}
               ELSE {})

(* do_tx sends until the kernel takes no more, but at least something.      *)
HandleOut ==
  /\ interest = "out"
  /\ peer # "rst"
  /\ \E n \in 1 .. Len(io_tx_) :
       LET rest == SubSeq(io_tx_, n + 1, Len(io_tx_))
       IN /\ got' = got \o SubSeq(io_tx_, 1, n)
          /\ \/ /\ rest = <<>>
                /\ io_tx_' = <<>>
                /\ OnTx
             \/ /\ rest # <<>>
                /\ io_tx_' \in WriteBuf(rest, n)
                /\ UNCHANGED <<io_rx_, parsed_to_idx_, req_, interest>>
  /\ UNCHANGED <<peerVars, inq, keep_alive, history>>

Next ==
  \/ PeerSend \/ PeerShutdown \/ PeerReset
  \/ HandleErr \/ HandleIn \/ HandleOut

Spec == Init /\ [][Next]_vars

(* The workers handle every event epoll reports (module Server).            *)
FairSpec == Spec /\ WF_vars(HandleErr \/ HandleIn \/ HandleOut)

-----------------------------------------------------------------------------
(* Properties                                                               *)

TypeOK ==
  /\ peer \in {"open", "fin", "rst"}
  /\ interest \in {"in", "out", "closed", "terminated"}
  /\ keep_alive \in BOOLEAN
  /\ parsed_to_idx_ \in 0 .. Len(io_rx_)
  /\ req_.parse_state \in {"start_line", "headers", "content",
                           "chunk_trailers", "complete"}

(* What a request deserves, of which so much has arrived.                   *)
RightAnswer(request, status, content, arrived) ==
  /\ status \in {request.status, "500"}
  /\ status \in {"200", "201"} =>
       content = request.content /\ arrived >= Len(request.text)

(* The first request is answered as its text deserves, and its handler gets *)
(* the content that was sent, however the text was cut into segments; a     *)
(* handler is not called before the whole request is there.                 *)
FirstAnswer ==
  answers # <<>> =>
    RightAnswer(script[1], answers[1].status, answers[1].content, Len(io_rx_))

(* What the peer has received and what io_tx_ still holds are the responses *)
(* prepared so far, one after the other: nothing is lost, repeated or       *)
(* reordered when a response goes out in pieces, though the copy may have   *)
(* garbled what went out late.                                              *)
TxIntegrity ==
  /\ Len(got) + Len(io_tx_) = Len(prepared)
  /\ \A i \in DOMAIN got : got[i] \in {prepared[i], Garbage}
  /\ \A i \in DOMAIN io_tx_ : io_tx_[i] \in {prepared[Len(got) + i], Garbage}

(* A request that was sent is answered, and the whole of the first answer   *)
(* arrives, unless the connection breaks or an exception ends the process.  *)
Answered ==
  Sent >= Len(script[1].text) ~>
    \/ answers # <<>> /\ Len(got) >= Len(ToStr(answers[1].status))
    \/ peer = "rst"
    \/ interest = "terminated"

Gone == interest \in {"closed", "terminated"}

(* When the peer has shut down, or the connection is broken, the server     *)
(* closes it.                                                               *)
ClosedInTheEnd == peer # "open" ~> Gone

(* The same of a peer that shuts down when its requests are sent.           *)
ClosedWhenDone == peer = "rst" \/ (peer = "fin" /\ unsent = <<>>) ~> Gone

(* Responses and requests correspond: as many responses as requests that    *)
(* were sent, each to the request in its place.                             *)
AnswersInOrder ==
  \A i \in DOMAIN answers :
    /\ i \in DOMAIN script
    /\ answers[i].path = script[i].path

=============================================================================
