---------------------------- MODULE StreamProofs ----------------------------
(***************************************************************************)
(* Proofs about one connection: its output path loses, repeats and reorders *)
(* nothing, whatever the peer sends and the parser makes of it; and the    *)
(* parser keeps its index in the buffer and its request well-formed,       *)
(* whatever it is given and however that is cut.                           *)
(***************************************************************************)
EXTENDS Stream, TextProofs

(* What is sent and received are sequences over some set.                   *)
TxTyped == \E S : Garbage \in S /\ {io_tx_, got, prepared} \subseteq Seq(S)

(* A response is prepared only when the one before it is out.               *)
TxInv == TxTyped /\ TxIntegrity /\ (interest = "in" => io_tx_ = <<>>)

(* A response is a sequence.                                                *)
LEMMA ResponseIsSeq ==
  ASSUME NEW status
  PROVE  ToStr(status) \in Seq({status, "fields", "empty line", "content"})
<1> DEFINE T == {status, "fields", "empty line", "content"}
<1>1. /\ <<status, "fields">> \in Seq(T)
      /\ <<>> \in Seq(T) /\ <<"empty line", "content">> \in Seq(T)
  OBVIOUS
<1>2. QED
  BY <1>1, ConcatProperties DEF ToStr

(* An event that neither prepares nor sends anything.                       *)
LEMMA TxKept ==
  ASSUME TxInv, UNCHANGED <<io_tx_, got, prepared>>,
         interest' = "in" => interest = "in" \/ io_tx_ = <<>>
  PROVE  TxInv'
BY DEF TxInv, TxTyped, TxIntegrity

(* A new response is prepared in an empty buffer.                           *)
LEMMA RespondStep ==
  ASSUME TxInv, io_tx_ = <<>>, UNCHANGED got, NEW status, NEW r,
         Respond(status, r)
  PROVE  TxInv'
<1> PICK S : Garbage \in S /\ {io_tx_, got, prepared} \subseteq Seq(S)
  BY DEF TxInv, TxTyped
<1> DEFINE T == S \cup {status, "fields", "empty line", "content"}
           text == ToStr(status)
<1>1. /\ Garbage \in T /\ got \in Seq(T) /\ prepared \in Seq(T)
      /\ text \in Seq(T)
  <2>1. S \subseteq T /\ {status, "fields", "empty line", "content"} \subseteq T
    OBVIOUS
  <2>2. /\ got \in Seq(S) /\ prepared \in Seq(S)
        /\ text \in Seq({status, "fields", "empty line", "content"})
    BY ResponseIsSeq
  <2> HIDE DEF T, text
  <2>3. QED
    BY <2>1, <2>2, SeqMonotonic
<1>2. io_tx_' = text /\ prepared' = prepared \o text /\ interest' = "out"
  BY DEF Respond
<1> HIDE DEF text, T
<1>3. Len(got) = Len(prepared)
  <2>1. Len(got) \in Nat /\ Len(io_tx_) = 0
    BY <1>1, LenProperties, EmptySeq
  <2>2. QED
    BY <2>1 DEF TxInv, TxIntegrity
<1>4. /\ prepared \o text \in Seq(T)
      /\ Len(prepared \o text) = Len(prepared) + Len(text)
      /\ \A i \in 1 .. Len(prepared) + Len(text) :
           (prepared \o text)[i] = IF i <= Len(prepared) THEN prepared[i]
                                   ELSE text[i - Len(prepared)]
  BY <1>1, ConcatProperties
<1>5. /\ Len(got) \in Nat /\ DOMAIN got = 1 .. Len(got)
      /\ Len(text) \in Nat /\ DOMAIN text = 1 .. Len(text)
  BY <1>1, LenProperties
<1>6. TxTyped'
  <2>1. {io_tx_', got', prepared'} \subseteq Seq(T)
    BY <1>1, <1>2, <1>4
  <2>2. QED
    BY <1>1, <2>1 DEF TxTyped, Garbage
<1>7. \A i \in DOMAIN got' : got'[i] \in {prepared'[i], Garbage}
  <2> SUFFICES ASSUME NEW i \in 1 .. Len(got)
               PROVE  got[i] \in {(prepared \o text)[i], Garbage}
    BY <1>2, <1>5
  <2>1. got[i] \in {prepared[i], Garbage}
    BY <1>5 DEF TxInv, TxIntegrity
  <2>2. (prepared \o text)[i] = prepared[i]
    BY <1>3, <1>4, <1>5
  <2>3. QED
    BY <2>1, <2>2
<1>8. \A i \in DOMAIN io_tx_' : io_tx_'[i] \in {prepared'[Len(got') + i], Garbage}
  <2> SUFFICES ASSUME NEW i \in 1 .. Len(text)
               PROVE  text[i] \in {(prepared \o text)[Len(got) + i], Garbage}
    BY <1>2, <1>5
  <2>1. (prepared \o text)[Len(got) + i] = text[i]
    BY <1>3, <1>4, <1>5
  <2>2. QED
    BY <2>1
<1>9. Len(got') + Len(io_tx_') = Len(prepared')
  BY <1>2, <1>3, <1>4
<1>10. QED
  BY <1>2, <1>6, <1>7, <1>8, <1>9 DEF TxInv, TxIntegrity, Garbage

(* send takes the first n tokens, and the rest moves to the front of the    *)
(* buffer, garbled or not.                                                  *)
LEMMA HandleOutStep ==
  ASSUME TxInv, HandleOut
  PROVE  TxInv'
<1> PICK S : Garbage \in S /\ {io_tx_, got, prepared} \subseteq Seq(S)
  BY DEF TxInv, TxTyped
<1>1. /\ Len(io_tx_) \in Nat /\ DOMAIN io_tx_ = 1 .. Len(io_tx_)
      /\ io_tx_ \in [1 .. Len(io_tx_) -> S]
      /\ Len(got) \in Nat /\ DOMAIN got = 1 .. Len(got)
  BY LenProperties
<1>0. /\ Len(got) + Len(io_tx_) = Len(prepared)
      /\ \A i \in 1 .. Len(got) : got[i] \in {prepared[i], Garbage}
      /\ \A i \in 1 .. Len(io_tx_) : io_tx_[i] \in {prepared[Len(got) + i], Garbage}
  BY <1>1 DEF TxInv, TxIntegrity
<1> PICK n \in 1 .. Len(io_tx_) :
      LET rest == SubSeq(io_tx_, n + 1, Len(io_tx_))
      IN /\ got' = got \o SubSeq(io_tx_, 1, n)
         /\ \/ /\ rest = <<>>
               /\ io_tx_' = <<>>
            \/ /\ rest # <<>>
               /\ io_tx_' \in WriteBuf(rest, n)
               /\ interest' = interest
  BY DEF HandleOut
<1> DEFINE sent == SubSeq(io_tx_, 1, n)
           rest == SubSeq(io_tx_, n + 1, Len(io_tx_))
<1>2. /\ sent \in Seq(S) /\ Len(sent) = n
      /\ \A i \in 1 .. n : sent[i] = io_tx_[i]
  BY <1>1, SubSeqProperties
<1>3. /\ rest \in Seq(S) /\ Len(rest) = Len(io_tx_) - n
      /\ DOMAIN rest = 1 .. Len(io_tx_) - n
      /\ \A i \in 1 .. Len(io_tx_) - n : rest[i] = io_tx_[n + i]
  <2>1. n + 1 \in Int /\ Len(io_tx_) \in Int /\ n <= Len(io_tx_)
    BY <1>1
  <2>2. \A i \in n + 1 .. Len(io_tx_) : io_tx_[i] \in S
    BY <1>1
  <2>3. /\ rest \in Seq(S)
        /\ Len(rest) = IF n + 1 <= Len(io_tx_) THEN Len(io_tx_) - (n + 1) + 1 ELSE 0
        /\ \A i \in 1 .. Len(io_tx_) - (n + 1) + 1 : rest[i] = io_tx_[n + 1 + i - 1]
    BY <2>1, <2>2, SubSeqProperties
  <2> HIDE DEF rest
  <2>4. Len(rest) = Len(io_tx_) - n
    BY <2>1, <2>3
  <2>5. \A i \in 1 .. Len(io_tx_) - n : rest[i] = io_tx_[n + i]
    BY <2>1, <2>3
  <2>6. QED
    BY <2>3, <2>4, <2>5, LenProperties
<1>4. /\ got' = got \o sent
      /\ \/ rest = <<>> /\ io_tx_' = <<>>
         \/ rest # <<>> /\ io_tx_' \in WriteBuf(rest, n) /\ interest' = interest
  OBVIOUS
<1>5. prepared' = prepared /\ interest = "out"
  BY DEF HandleOut, history
<1> HIDE DEF sent, rest
<1>6. /\ io_tx_' \in Seq(S) /\ Len(io_tx_') = Len(io_tx_) - n
      /\ DOMAIN io_tx_' = 1 .. Len(io_tx_) - n
      /\ \A i \in DOMAIN io_tx_' : io_tx_'[i] \in {io_tx_[n + i], Garbage}
  <2>1. CASE io_tx_' = rest
    BY <1>3, <2>1
  <2>2. CASE io_tx_' = [i \in DOMAIN rest |-> IF i > n THEN Garbage ELSE rest[i]]
    <3>1. /\ io_tx_' = [i \in 1 .. Len(rest) |-> IF i > n THEN Garbage ELSE rest[i]]
          /\ Len(rest) \in Nat /\ rest \in [1 .. Len(rest) -> S]
      BY <1>3, <2>2, LenProperties
    <3>2. io_tx_' \in [1 .. Len(rest) -> S]
      BY <3>1
    <3>3. io_tx_' \in Seq(S) /\ Len(io_tx_') = Len(rest)
      <4>1. io_tx_' \in Seq(S)
        BY <3>1, <3>2, SeqDef
      <4>2. DOMAIN io_tx_' = 1 .. Len(io_tx_') /\ Len(io_tx_') \in Nat
        BY <4>1, LenProperties
      <4>3. 1 .. Len(io_tx_') = 1 .. Len(rest)
        BY <3>1, <4>2
      <4>4. QED
        BY <3>1, <4>1, <4>2, <4>3
    <3>4. QED
      BY <1>1, <1>3, <3>1, <3>3
  <2>3. QED
    BY <1>3, <1>4, <2>1, <2>2 DEF WriteBuf
<1>7. /\ got' \in Seq(S) /\ Len(got') = Len(got) + n
      /\ DOMAIN got' = 1 .. Len(got) + n
      /\ \A i \in DOMAIN got' :
           got'[i] = IF i <= Len(got) THEN got[i] ELSE io_tx_[i - Len(got)]
  BY <1>1, <1>2, <1>4, ConcatProperties, LenProperties
<1>8. TxTyped'
  BY <1>5, <1>6, <1>7 DEF TxTyped, Garbage
<1>9. Len(got') + Len(io_tx_') = Len(prepared')
  <2>1. (Len(got) + n) + (Len(io_tx_) - n) = Len(got) + Len(io_tx_)
    BY <1>1
  <2>2. Len(got') = Len(got) + n /\ Len(io_tx_') = Len(io_tx_) - n
    BY <1>6, <1>7
  <2>3. QED
    BY <1>0, <1>5, <2>1, <2>2
<1>10. \A i \in DOMAIN got' : got'[i] \in {prepared'[i], Garbage}
  <2> SUFFICES ASSUME NEW i \in 1 .. Len(got) + n
               PROVE  got'[i] \in {prepared[i], Garbage}
    BY <1>5, <1>7
  <2>1. CASE i <= Len(got)
    BY <1>0, <1>1, <1>7, <2>1
  <2>2. CASE i > Len(got)
    <3>1. i - Len(got) \in 1 .. Len(io_tx_) /\ Len(got) + (i - Len(got)) = i
      BY <1>1, <2>2
    <3>2. got'[i] = io_tx_[i - Len(got)]
      BY <1>1, <1>7, <2>2
    <3>3. QED
      BY <1>0, <3>1, <3>2
  <2>3. QED
    BY <1>1, <2>1, <2>2
<1>11. \A i \in DOMAIN io_tx_' : io_tx_'[i] \in {prepared'[Len(got') + i], Garbage}
  <2> SUFFICES ASSUME NEW i \in 1 .. Len(io_tx_) - n
               PROVE  io_tx_'[i] \in {prepared[Len(got) + n + i], Garbage}
    BY <1>5, <1>6, <1>7
  <2>1. n + i \in 1 .. Len(io_tx_) /\ Len(got) + (n + i) = Len(got) + n + i
    BY <1>1
  <2>2. QED
    BY <1>0, <1>6, <2>1
<1>12. interest' = "in" => io_tx_' = <<>>
  BY <1>4, <1>5
<1>13. QED
  BY <1>8, <1>9, <1>10, <1>11, <1>12 DEF TxInv, TxIntegrity, Garbage

(* What the peer receives is what the server prepared, in its order, for    *)
(* every script, cut and copy.                                              *)
THEOREM NothingLost == Spec => []TxIntegrity
<1>1. Init => TxInv
  <2> SUFFICES ASSUME Init PROVE TxInv
    OBVIOUS
  <2>1. {io_tx_, got, prepared} \subseteq Seq({Garbage})
    BY DEF Init
  <2>2. Len(<<>>) = 0 /\ DOMAIN <<>> = {}
    OBVIOUS
  <2>3. TxTyped
    BY <2>1 DEF TxTyped
  <2>4. io_tx_ = <<>> /\ got = <<>> /\ prepared = <<>>
    BY DEF Init
  <2>5. TxIntegrity
    BY <2>2, <2>4 DEF TxIntegrity
  <2>6. QED
    BY <2>3, <2>4, <2>5 DEF TxInv
<1>2. TxInv /\ [Next]_vars => TxInv'
  <2> SUFFICES ASSUME TxInv, [Next]_vars PROVE TxInv'
    OBVIOUS
  <2>1. CASE PeerSend \/ PeerShutdown \/ PeerReset
    BY <2>1, TxKept DEF PeerSend, PeerShutdown, PeerReset, connVars, history
  <2>2. CASE HandleErr
    BY <2>2, TxKept DEF HandleErr, OnClose, history
  <2>3. CASE HandleIn
    <3>1. interest = "in" /\ io_tx_ = <<>> /\ got' = got
      BY <2>3 DEF HandleIn, TxInv
    <3>2. ASSUME NEW raw, OnRx(raw) PROVE TxInv'
      BY <3>1, <3>2, RespondStep, TxKept DEF OnRx, history
    <3>3. CASE UNCHANGED <<io_tx_, history>>
      BY <3>1, <3>3, TxKept DEF history
    <3>4. QED
      BY <2>3, <3>2, <3>3 DEF HandleIn
  <2>4. CASE HandleOut
    BY <2>4, HandleOutStep
  <2>5. CASE UNCHANGED vars
    BY <2>5, TxKept DEF vars, connVars, history
  <2>6. QED
    BY <2>1, <2>2, <2>3, <2>4, <2>5 DEF Next
<1>3. TxInv => TxIntegrity
  BY DEF TxInv
<1>4. QED
  BY <1>1, <1>2, <1>3, PTL DEF Spec

-----------------------------------------------------------------------------
(* The tokens that texts and fields consist of.                             *)
Symbols ==
  {"application", "/", "json"} \cup
  UNION {UNION {Range(s[i].text) : i \in DOMAIN s} : s \in Scripts}

Strings == Seq(Symbols)

(* The states of parser.h, and what is always true of a request: its fields *)
(* and its content are strings, its lengths are not negative.               *)
ParseStates == {"start_line", "headers", "content", "chunk_trailers", "complete"}

IsReq(r) ==
  /\ {"parse_state", "err", "method", "target_form", "uri", "fields", "content_len",
      "chunked_content_len", "content"} \subseteq DOMAIN r
  /\ r.parse_state \in ParseStates
  /\ r.content \in Strings
  /\ r.content_len \in Nat /\ r.chunked_content_len \in Nat
  /\ \A name \in DOMAIN r.fields : r.fields[name] \in Strings

(* The request before anything is parsed.                                   *)
LEMMA NewReqTyped == IsReq(NewReq)
BY EmptySeq DEF IsReq, NewReq, ParseStates, Strings

(* An error, and a step to another state, keep the rest of a request.       *)
LEMMA FailTyped == ASSUME NEW r, IsReq(r), NEW status PROVE IsReq(Fail(r, status))
BY DEF Fail, IsReq

(* A step to another state of the parser.                                   *)
LEMMA MovedTyped ==
  ASSUME NEW r, IsReq(r), NEW state \in ParseStates
  PROVE  IsReq([r EXCEPT !.parse_state = state])
BY DEF IsReq

(* A field is a string.                                                     *)
LEMMA FieldTyped ==
  ASSUME NEW r, IsReq(r), NEW name, NEW value \in Strings
  PROVE  IsReq(WithField(r, name, value))
<1> DEFINE fields == [n \in DOMAIN r.fields \cup {name} |->
                        IF n = name THEN value ELSE r.fields[n]]
<1>1. \A n \in DOMAIN fields : fields[n] \in Strings
  BY DEF IsReq
<1>2. WithField(r, name, value) = [r EXCEPT !.fields = fields]
  BY DEF WithField
<1> HIDE DEF fields
<1>3. QED
  BY <1>1, <1>2 DEF IsReq

(* What the URI parser returns changes neither fields nor content.          *)
LEMMA UriTyped ==
  ASSUME NEW r, IsReq(r), NEW text, NEW flags
  PROVE  IsReq(WithUri(r, text, flags))
<1> DEFINE Stored(u) == [r EXCEPT !.uri = u,
                           !.err = IF u.threw THEN "throw" ELSE IF u.has_err THEN "400" ELSE @]
           Parsed == {ParseUri(r.uri, raw, flags) : raw \in {text}}
<1>1. \A u : IsReq(Stored(u))
  BY DEF IsReq
<1>2. WithUri(r, text, flags) = Only({Stored(u) : u \in Parsed})
  BY Zenon DEF WithUri
<1>3. {Stored(u) : u \in Parsed} = {Stored(ParseUri(r.uri, text, flags))}
  OBVIOUS
<1>4. Only({Stored(ParseUri(r.uri, text, flags))}) = Stored(ParseUri(r.uri, text, flags))
  BY Zenon DEF Only
<1> HIDE DEF Stored, Parsed
<1>5. QED
  BY <1>1, <1>2, <1>3, <1>4

(* The element of a set of one.                                             *)
LEMMA OnlyOne == \A x : Only({x}) = x
BY DEF Only

-----------------------------------------------------------------------------

(* Parts of a string are strings.                                           *)
LEMMA AfterTyped ==
  ASSUME NEW raw \in Strings, NEW from \in Nat
  PROVE  After(raw, from) \in Strings
BY AfterProperties DEF Strings

(* The same of the text from one place to another.                          *)
LEMMA BetweenTyped ==
  ASSUME NEW raw \in Strings, NEW from \in Nat, NEW to \in Int, to <= Len(raw)
  PROVE  Between(raw, from, to) \in Strings
BY BetweenProperties DEF Strings

(* And of substr, which ends where the text ends.                           *)
LEMMA SubstrTyped ==
  ASSUME NEW raw \in Strings, NEW from \in Nat, NEW n \in Nat
  PROVE  Substr(raw, from, n) \in Strings
<1> DEFINE to == from + n
           end == IF to <= Len(raw) THEN to ELSE Len(raw)
<1>1. Len(raw) \in Nat
  BY LenProperties DEF Strings
<1>2. Min({to, Len(raw)}) = end
  BY <1>1, MinOfTwo
<1>3. Substr(raw, from, n) = Between(raw, from, end)
  BY <1>2 DEF Substr, Between
<1>4. end \in Int /\ end <= Len(raw)
  BY <1>1
<1> HIDE DEF end
<1>5. QED
  BY <1>3, <1>4, BetweenTyped

(* The request line, from its parts to the whole.                           *)
LEMMA ReqTargetTyped ==
  ASSUME NEW r, IsReq(r), NEW target
  PROVE  IsReq(ParseReqTarget(target, r))
<1> DEFINE Formed(form) == [r EXCEPT !.target_form = form]
           Result(form) == IF form # "asterik"
             THEN WithUri(Formed(form), target, TargetParts[form])
             ELSE [r EXCEPT !.target_form = form,
                            !.err = IF Len(target) > 1 THEN "400" ELSE @]
<1>1. \A form : IsReq(Formed(form))
  BY DEF IsReq
<1>2. \A form : IsReq([r EXCEPT !.target_form = form,
                            !.err = IF Len(target) > 1 THEN "400" ELSE @])
  BY DEF IsReq
<1>3. \A form : IsReq(WithUri(Formed(form), target, TargetParts[form]))
  <2> HIDE DEF Formed
  <2>1. QED
    BY <1>1, UriTyped
<1>4. \A form : IsReq(Result(form))
  <2> HIDE DEF Formed
  <2>1. QED
    BY <1>2, <1>3
<1>5. ParseReqTarget(target, r) =
        IF target = <<>> THEN Fail(r, "throw")
        ELSE Only({Result(form) : form \in {TargetForm(target)}})
  BY Zenon DEF ParseReqTarget
<1>6. {Result(form) : form \in {TargetForm(target)}} = {Result(TargetForm(target))}
  OBVIOUS
<1> HIDE DEF Result
<1>7. QED
  BY <1>4, <1>5, <1>6, OnlyOne, FailTyped

(* The version changes nothing but the error.                               *)
LEMMA VersionTyped ==
  ASSUME NEW r, IsReq(r), NEW version
  PROVE  IsReq(ParseVersion(version, r))
BY FailTyped DEF ParseVersion

(* The request line.                                                        *)
LEMMA ReqLineTyped ==
  ASSUME NEW r, IsReq(r), NEW line
  PROVE  IsReq(ParseReqLine(line, r))
<1>1. ASSUME NEW q, IsReq(q), NEW start
      PROVE  IsReq(ParseTargetVersion(line, start, q))
  <2> DEFINE end == Find(line, <<"SP">>, start)
             target == ParseReqTarget(Between(line, start, end), q)
             Moved(p) == [ParseVersion(After(line, end + 1), p) EXCEPT !.parse_state = "headers"]
             Result(p) == IF p.err = "throw" THEN p
                          ELSE IF end + 1 >= Len(line) THEN Fail(p, "400")
                          ELSE Moved(p)
  <2>1. IsReq(target)
    BY <1>1, ReqTargetTyped
  <2>2. ASSUME NEW p, IsReq(p) PROVE IsReq(Moved(p))
    <3>1. IsReq(ParseVersion(After(line, end + 1), p))
      BY <2>2, VersionTyped
    <3>2. "headers" \in ParseStates
      BY DEF ParseStates
    <3>3. QED
      BY <3>1, <3>2, MovedTyped
  <2>3. ParseTargetVersion(line, start, q) =
          IF q.method = 0 THEN Fail(q, "501")
          ELSE IF end = NPos THEN Fail(q, "400")
          ELSE Only({Result(p) : p \in {target}})
    BY Zenon DEF ParseTargetVersion
  <2>4. {Result(p) : p \in {target}} = {Result(target)}
    OBVIOUS
  <2> HIDE DEF Moved
  <2>5. IsReq(Result(target))
    <3> HIDE DEF target, end
    <3>1. QED
      BY <2>1, <2>2, FailTyped
  <2> HIDE DEF Result
  <2>6. QED
    BY <1>1, <2>3, <2>4, <2>5, FailTyped, OnlyOne
<1>2. \A method : IsReq([r EXCEPT !.method = method])
  BY DEF IsReq
<1>3. QED
  BY <1>1, <1>2, FailTyped DEF ParseReqLine

(* The value of a field starts after its colon, inside the line.            *)
LEMMA FieldLineTyped ==
  ASSUME NEW r, IsReq(r), NEW line \in Strings
  PROVE  IsReq(ParseFieldLine(line, r))
<1> DEFINE colon == Find(line, <<":">>, 0)
           name  == Between(line, 0, colon)
           start == FindNotOf(line, "SP", colon + 1)
           value == After(line, start)
           added == WithField(r, name, value)
<1>1. colon # NPos /\ start # NPos => IsReq(added)
  <2> SUFFICES ASSUME colon # NPos, start # NPos PROVE IsReq(added)
    OBVIOUS
  <2>1. colon \in Nat
    BY FindToken, LenProperties DEF Strings
  <2> HIDE DEF colon
  <2>2. start \in Nat
    <3> DEFINE from == colon + 1
    <3>1. from \in Nat /\ Len(line) \in Nat
      BY <2>1, LenProperties DEF Strings
    <3> HIDE DEF from
    <3>2. FindNotOf(line, "SP", from) = NPos \/ FindNotOf(line, "SP", from) \in from .. Len(line) - 1
      BY <3>1, FindNotOfProperties DEF Strings
    <3>3. QED
      BY <3>1, <3>2 DEF from
  <2> HIDE DEF start
  <2>3. QED
    BY <2>2, AfterTyped, FieldTyped
<1>2. IsReq(added) => IsReq(ParseHost(value, added))
  <2> HIDE DEF added, value
  <2>1. QED
    BY UriTyped DEF ParseHost
<1>3. ParseFieldLine(line, r) =
        IF colon = NPos \/ name \in DOMAIN r.fields \/ start = NPos THEN Fail(r, "400")
        ELSE IF name = <<"host">> THEN ParseHost(value, added) ELSE added
  BY Zenon DEF ParseFieldLine
<1> HIDE DEF colon, name, start, value, added
<1>4. QED
  BY <1>1, <1>2, <1>3, FailTyped

-----------------------------------------------------------------------------
(* parse_headers                                                            *)

HeaderBody(raw, none, i, s) == HeaderLine(raw, s)

HeaderGood(raw, none, i, s) ==
  /\ {"req", "line_start", "parsed_up_to", "done"} \subseteq DOMAIN s
  /\ IsReq(s.req)
  /\ s.line_start \in 0 .. Len(raw) /\ s.parsed_up_to \in 0 .. Len(raw)

HeaderLoop == INSTANCE LoopProofs WITH Body <- HeaderBody, Good <- HeaderGood

(* A field line, or the empty line, is found inside the text, and what      *)
(* follows it starts there too.                                             *)
LEMMA HeaderLineTyped ==
  ASSUME NEW raw \in Strings, NEW i, NEW s, HeaderGood(raw, 0, i - 1, s)
  PROVE  HeaderGood(raw, 0, i, HeaderLine(raw, s))
<1> DEFINE line_end == Find(raw, Crlf, s.line_start)
           past == IF s.line_start + 2 < Len(raw) THEN 2 ELSE 0
           line == Between(raw, s.line_start, line_end)
           field == ParseFieldLine(line, s.req)
           ended == [s.req EXCEPT !.parse_state = "content"]
<1>1. /\ Len(raw) \in Nat /\ s.line_start \in Nat /\ s.line_start <= Len(raw)
      /\ s.parsed_up_to \in 0 .. Len(raw) /\ IsReq(s.req)
      /\ line_end = NPos \/ line_end \in s.line_start .. Len(raw) - 2
  BY FindPair, LenProperties DEF HeaderGood, Strings, Crlf
<1>2. line_end # NPos => IsReq(field)
  <2> SUFFICES ASSUME line_end # NPos PROVE IsReq(field)
    OBVIOUS
  <2>1. line_end \in Int /\ line_end <= Len(raw)
    BY <1>1
  <2> HIDE DEF line_end
  <2>2. line \in Strings
    BY <1>1, <2>1, BetweenTyped
  <2>3. QED
    BY <1>1, <2>2, FieldLineTyped
<1>3. IsReq(ended)
  BY <1>1, MovedTyped DEF ParseStates
<1>4. {ParseFieldLine(l, s.req) : l \in {line}} = {field}
  OBVIOUS
<1>5. \/ HeaderLine(raw, s) = s
      \/ HeaderLine(raw, s) = [s EXCEPT !.parsed_up_to = s.line_start, !.done = TRUE]
      \/ /\ line_end # NPos /\ line_end = s.line_start
         /\ HeaderLine(raw, s) = [s EXCEPT !.req = ended, !.parsed_up_to = s.line_start + past]
      \/ /\ line_end # NPos
         /\ HeaderLine(raw, s) = [s EXCEPT !.req = field, !.line_start = line_end + 2]
  <2>1. HeaderLine(raw, s) =
          IF s.done \/ s.req.parse_state # "headers" \/ HasErr(s.req)
          THEN s
          ELSE IF line_end = NPos
          THEN [s EXCEPT !.parsed_up_to = s.line_start, !.done = TRUE]
          ELSE IF line_end = s.line_start
          THEN [s EXCEPT !.req.parse_state = "content",
                         !.parsed_up_to = s.line_start + past]
          ELSE [s EXCEPT !.req = Only({ParseFieldLine(l, s.req) : l \in {line}}),
                         !.line_start = line_end + 2]
    BY Zenon DEF HeaderLine
  <2>2. Only({ParseFieldLine(l, s.req) : l \in {line}}) = field
    BY <1>4, OnlyOne
  <2>3. [s EXCEPT !.req.parse_state = "content", !.parsed_up_to = s.line_start + past]
          = [s EXCEPT !.req = ended, !.parsed_up_to = s.line_start + past]
    OBVIOUS
  <2> HIDE DEF line_end, past, field, ended
  <2>4. QED
    BY <2>1, <2>2, <2>3
<1> HIDE DEF line_end, field, ended
<1>6. past \in Nat /\ s.line_start + past <= Len(raw)
  BY <1>1
<1>7. line_end # NPos => line_end + 2 \in 0 .. Len(raw)
  BY <1>1
<1> DEFINE next == s.line_start + past
<1>8. next \in 0 .. Len(raw)
  BY <1>1, <1>6
<1> HIDE DEF past, next
<1>9. QED
  BY <1>1, <1>2, <1>3, <1>5, <1>7, <1>8 DEF HeaderGood, next

(* The index parse_headers returns is in the text, whatever the text is.    *)
LEMMA HeadersTyped ==
  ASSUME NEW raw \in Strings, NEW r, IsReq(r), NEW start \in 0 .. Len(raw)
  PROVE  LET head == ParseHeaders(raw, r, start)
         IN IsReq(head.req) /\ head.parsed_up_to \in 0 .. Len(raw)
<1>1. Len(raw) \in Nat
  BY LenProperties DEF Strings
<1>2. ASSUME NEW q, IsReq(q), NEW from \in 0 .. Len(raw)
      PROVE  LET head == HeaderLines(raw, q, from, start)
             IN IsReq(head.req) /\ head.parsed_up_to \in 0 .. Len(raw)
  <2> DEFINE first == [req |-> q, line_start |-> from, parsed_up_to |-> start, done |-> FALSE]
  <2>1. HeaderLines(raw, q, from, start) = HeaderLoop!Iterate(raw, 0, first, Len(raw))
    BY Zenon DEF HeaderLines, Loop, HeaderLoop!Iterate, HeaderLoop!StatesOf,
                 HeaderLoop!Once, HeaderBody, Only, HeaderLoop!Only
  <2>2. HeaderGood(raw, 0, 0, first)
    BY <1>2 DEF HeaderGood
  <2> HIDE DEF first
  <2>3. \A i \in 1 .. Len(raw) : \A s :
          HeaderGood(raw, 0, i - 1, s) => HeaderGood(raw, 0, i, HeaderBody(raw, 0, i, s))
    BY HeaderLineTyped DEF HeaderBody
  <2>4. HeaderGood(raw, 0, Len(raw), HeaderLoop!Iterate(raw, 0, first, Len(raw)))
    BY <1>1, <2>2, <2>3, HeaderLoop!LoopInvariant
  <2>5. QED
    BY <2>1, <2>4 DEF HeaderGood
<1> DEFINE line_end == Find(raw, Crlf, 0)
           line == Between(raw, 0, line_end)
           Result(q) == HeaderLines(raw, q, line_end + 2, start)
           req == ParseReqLine(line, r)
<1>3. ParseHeaders(raw, r, start) =
        IF r.parse_state # "start_line" THEN HeaderLines(raw, r, start, start)
        ELSE IF line_end = NPos THEN [req |-> Fail(r, "400"), parsed_up_to |-> start]
        ELSE Only({Result(q) : q \in {ParseReqLine(l, r) : l \in {line}}})
  BY Zenon DEF ParseHeaders
<1>4. {Result(q) : q \in {ParseReqLine(l, r) : l \in {line}}} = {Result(req)}
  OBVIOUS
<1>5. line_end # NPos =>
        IsReq(Result(req).req) /\ Result(req).parsed_up_to \in 0 .. Len(raw)
  <2> SUFFICES ASSUME line_end # NPos
               PROVE  IsReq(Result(req).req) /\ Result(req).parsed_up_to \in 0 .. Len(raw)
    OBVIOUS
  <2>1. line_end \in 0 .. Len(raw) - 2
    BY FindPair DEF Strings, Crlf
  <2>2. IsReq(req)
    BY ReqLineTyped
  <2> HIDE DEF req, line_end
  <2>3. line_end + 2 \in 0 .. Len(raw)
    BY <1>1, <2>1
  <2>4. QED
    BY <1>2, <2>2, <2>3
<1>6. IsReq(Fail(r, "400"))
  BY FailTyped
<1> DEFINE refused == [req |-> Fail(r, "400"), parsed_up_to |-> start]
<1>7. IsReq(refused.req) /\ refused.parsed_up_to \in 0 .. Len(raw)
  <2> DEFINE failed == Fail(r, "400")
  <2>1. refused.req = failed /\ refused.parsed_up_to = start
    OBVIOUS
  <2> HIDE DEF failed, refused
  <2>2. QED
    BY <1>6, <2>1 DEF failed
<1> DEFINE head == ParseHeaders(raw, r, start)
<1>8. \/ head = HeaderLines(raw, r, start, start)
      \/ head = refused
      \/ line_end # NPos /\ head = Result(req)
  <2> DEFINE Results == {Result(q) : q \in {ParseReqLine(l, r) : l \in {line}}}
  <2>1. Results = {Result(req)}
    BY <1>4
  <2>2. Only(Results) = Result(req)
    BY <2>1, OnlyOne
  <2> HIDE DEF Result, req, refused, line_end
  <2>3. QED
    BY <1>3, <2>2 DEF refused
<1>9. head = HeaderLines(raw, r, start, start) =>
         IsReq(head.req) /\ head.parsed_up_to \in 0 .. Len(raw)
  BY <1>2
<1> HIDE DEF Result, req, line_end, line, refused, head
<1>10. IsReq(head.req) /\ head.parsed_up_to \in 0 .. Len(raw)
  BY <1>5, <1>7, <1>8, <1>9
<1>11. QED
  BY <1>10 DEF head

-----------------------------------------------------------------------------
(* The chunked coding                                                       *)

(* The size of a chunk is not negative.                                     *)
LEMMA HexTyped == \A t : ReadHex(t) \in Nat
<1> DEFINE Number(t) ==
             LET word == {i \in 1 .. Len(t) : t[i] \notin {"CR", "LF", "SP"}}
             IN IF word # {} /\ t[Min(word)] \in DOMAIN HexDigits
                THEN HexDigits[t[Min(word)]]
                ELSE 0
<1>1. \A d \in DOMAIN HexDigits : HexDigits[d] \in Nat
  BY DEF HexDigits
<1>2. \A t : Number(t) \in Nat
  BY <1>1, Zenon
<1>3. ASSUME NEW t PROVE ReadHex(t) = Number(t)
  <2>1. ReadHex(t) = Only({Number(u) : u \in {t}})
    BY Zenon DEF ReadHex
  <2> HIDE DEF Number
  <2>2. {Number(u) : u \in {t}} = {Number(t)}
    OBVIOUS
  <2>3. QED
    BY <2>1, <2>2, OnlyOne
<1>4. QED
  BY <1>2, <1>3

ChunkBody(raw, none, i, s) == Chunk(raw, s)

ChunkGood(raw, none, i, s) == {"req", "chunks"} \subseteq DOMAIN s /\ IsReq(s.req)

ChunkLoop == INSTANCE LoopProofs WITH Body <- ChunkBody, Good <- ChunkGood

(* Every chunk header found, or none, leaves a place to read content from.  *)
LEMMA ChunkTyped ==
  ASSUME NEW raw \in Strings, NEW i, NEW s, ChunkGood(raw, 0, i - 1, s)
  PROVE  ChunkGood(raw, 0, i, Chunk(raw, s))
<1> DEFINE start      == s.req.chunked_content_len
           space      == Find(raw, <<"SP">>, start)
           header_end == Find(raw, Crlf, start)
           size_end   == IF space = NPos THEN header_end ELSE space
           chunk_size == ReadHex(Between(raw, start, size_end))
           data       == header_end + 2
           taken      == Substr(raw, data, chunk_size)
           next       == [s.req EXCEPT
                            !.content = @ \o taken,
                            !.content_len = @ + chunk_size,
                            !.chunked_content_len = data + chunk_size + 2]
           more       == IF chunk_size > 0 THEN "more" ELSE "all"
<1>1. IsReq(s.req) /\ start \in Nat
  BY DEF ChunkGood, IsReq
<1>2. data \in Nat /\ chunk_size \in Nat
  <2>1. header_end = NPos \/ header_end \in start .. Len(raw) - 2
    BY <1>1, FindPair DEF Strings, Crlf
  <2>2. chunk_size \in Nat
    BY HexTyped
  <2> HIDE DEF header_end, chunk_size
  <2>3. data \in Nat
    BY <1>1, <2>1, LenProperties DEF NPos, Strings
  <2>4. QED
    BY <2>2, <2>3
<1>3. \/ Chunk(raw, s) = s
      \/ Chunk(raw, s) = [s EXCEPT !.chunks = "incomplete"]
      \/ Chunk(raw, s) = [req |-> next, chunks |-> more]
  BY Zenon DEF Chunk
<1> HIDE DEF header_end, size_end, chunk_size, data
<1>4. taken \in Strings
  BY <1>2, SubstrTyped
<1> HIDE DEF taken
<1>5. IsReq(next)
  <2>1. s.req.content \o taken \in Strings
    BY <1>1, <1>4, ConcatProperties DEF IsReq, Strings
  <2>2. s.req.content_len + chunk_size \in Nat /\ data + chunk_size + 2 \in Nat
    BY <1>1, <1>2 DEF IsReq
  <2> DEFINE content == s.req.content \o taken
             content_len == s.req.content_len + chunk_size
             at == data + chunk_size + 2
  <2>3. next = [s.req EXCEPT !.content = content, !.content_len = content_len,
                             !.chunked_content_len = at]
    OBVIOUS
  <2> HIDE DEF content, content_len, at, next
  <2>4. QED
    BY <1>1, <2>1, <2>2, <2>3 DEF IsReq, content, content_len, at
<1> HIDE DEF next, more
<1>6. QED
  BY <1>1, <1>3, <1>5 DEF ChunkGood

(* The trailer section                                                      *)

TrailerBody(raw, none, i, s) == TrailerLine(raw, s)

TrailerGood(raw, none, i, s) ==
  {"req", "at", "done"} \subseteq DOMAIN s /\ IsReq(s.req) /\ s.at \in Nat

TrailerLoop == INSTANCE LoopProofs WITH Body <- TrailerBody, Good <- TrailerGood

(* A line of the trailer section.                                           *)
LEMMA TrailerTyped ==
  ASSUME NEW raw \in Strings, NEW i, NEW s, TrailerGood(raw, 0, i - 1, s)
  PROVE  TrailerGood(raw, 0, i, TrailerLine(raw, s))
<1> DEFINE line_end == Find(raw, Crlf, s.at)
           line == Between(raw, s.at, line_end)
           field == ParseFieldLine(line, s.req)
<1>1. IsReq(s.req) /\ s.at \in Nat /\ Len(raw) \in Nat
  BY LenProperties DEF TrailerGood, Strings
<1>2. line_end = NPos \/ line_end \in s.at .. Len(raw) - 2
  BY <1>1, FindPair DEF Strings, Crlf
<1>3. \/ TrailerLine(raw, s) = s
      \/ TrailerLine(raw, s) = [s EXCEPT !.done = "incomplete"]
      \/ TrailerLine(raw, s) = [s EXCEPT !.done = "all"]
      \/ /\ line_end # NPos
         /\ TrailerLine(raw, s) = [s EXCEPT !.req = field, !.at = line_end + 2]
  <2>1. {ParseFieldLine(l, s.req) : l \in {line}} = {field}
    OBVIOUS
  <2>2. Only({ParseFieldLine(l, s.req) : l \in {line}}) = field
    BY <2>1, OnlyOne
  <2>3. TrailerLine(raw, s) =
          IF s.done # "more" THEN s
          ELSE IF s.at >= Len(raw) \/ line_end = NPos
          THEN [s EXCEPT !.done = "incomplete"]
          ELSE IF s.at = line_end THEN [s EXCEPT !.done = "all"]
          ELSE [s EXCEPT !.req = Only({ParseFieldLine(l, s.req) : l \in {line}}),
                         !.at = line_end + 2]
    BY Zenon DEF TrailerLine
  <2> HIDE DEF line_end, field, line
  <2>4. QED
    BY <2>2, <2>3
<1>4. line_end # NPos => IsReq(field) /\ line_end + 2 \in Nat
  <2> SUFFICES ASSUME line_end # NPos PROVE IsReq(field) /\ line_end + 2 \in Nat
    OBVIOUS
  <2>1. line_end \in Int /\ line_end <= Len(raw) /\ line_end + 2 \in Nat
    BY <1>1, <1>2
  <2> HIDE DEF line_end
  <2>2. line \in Strings
    BY <1>1, <2>1, BetweenTyped
  <2>3. QED
    BY <1>1, <2>1, <2>2, FieldLineTyped
<1> DEFINE next == line_end + 2
<1>5. \/ TrailerLine(raw, s) = s
      \/ TrailerLine(raw, s) = [s EXCEPT !.done = "incomplete"]
      \/ TrailerLine(raw, s) = [s EXCEPT !.done = "all"]
      \/ /\ IsReq(field) /\ next \in Nat
         /\ TrailerLine(raw, s) = [s EXCEPT !.req = field, !.at = next]
  BY <1>3, <1>4
<1> HIDE DEF line_end, field, next
<1>6. QED
  BY <1>1, <1>5 DEF TrailerGood

(* The trailer section, the chunked content, any coding.                    *)
LEMMA TrailersTyped ==
  ASSUME NEW raw \in Strings, NEW r, IsReq(r)
  PROVE  IsReq(DecodeTrailers(raw, r).req)
<1> DEFINE first == [req |-> r, at |-> r.chunked_content_len + 1, done |-> "more"]
           n == Len(raw) + 1
           last == TrailerLoop!Iterate(raw, 0, first, n)
           Looped == Loop(LAMBDA t : TrailerLine(raw, t), first, n)
           Result(s) == [req |-> s.req, fully_decoded |-> s.done = "all"]
<1>1. n \in Nat
  BY LenProperties DEF Strings
<1>2. TrailerGood(raw, 0, 0, first)
  BY DEF TrailerGood, IsReq
<1>3. \A i \in 1 .. n : \A s :
        TrailerGood(raw, 0, i - 1, s) => TrailerGood(raw, 0, i, TrailerBody(raw, 0, i, s))
  BY TrailerTyped DEF TrailerBody
<1>4. Looped = last
  <2> HIDE DEF first
  <2>1. QED
    BY Zenon DEF Loop, TrailerLoop!Iterate, TrailerLoop!StatesOf,
                 TrailerLoop!Once, TrailerBody, Only, TrailerLoop!Only
<1>5. TrailerGood(raw, 0, n, last)
  <2> HIDE DEF n, first
  <2>1. QED
    BY <1>1, <1>2, <1>3, TrailerLoop!LoopInvariant
<1>6. IsReq(Result(last).req)
  BY <1>5 DEF TrailerGood
<1>7. DecodeTrailers(raw, r) =
        IF r.chunked_content_len = Len(raw) THEN [req |-> r, fully_decoded |-> TRUE]
        ELSE Only({Result(s) : s \in {Looped}})
  BY Zenon DEF DecodeTrailers
<1>8. {Result(s) : s \in {Looped}} = {Result(last)}
  BY <1>4
<1>9. Only({Result(s) : s \in {Looped}}) = Result(last)
  BY <1>8, OnlyOne
<1> HIDE DEF Result, last, Looped
<1>10. QED
  BY <1>6, <1>7, <1>9

(* The chunks, and the trailer section after the last.                      *)
LEMMA ChunkedTyped ==
  ASSUME NEW raw \in Strings, NEW r, IsReq(r)
  PROVE  IsReq(DecodeChunked(raw, r).req)
<1> DEFINE first == [req |-> r, chunks |-> "more"]
           n == Len(raw) + 1
           last == ChunkLoop!Iterate(raw, 0, first, n)
           Looped == Loop(LAMBDA t : Chunk(raw, t), first, n)
           start == IF r.parse_state # "content" THEN [req |-> r, chunks |-> "all"]
                    ELSE Looped
           Moved(s) == [s.req EXCEPT !.parse_state = "chunk_trailers"]
           Result(s) == IF s.chunks = "more"
                        THEN [req |-> Fail(s.req, "throw"), fully_decoded |-> FALSE]
                        ELSE IF s.chunks = "incomplete"
                        THEN [req |-> s.req, fully_decoded |-> FALSE]
                        ELSE DecodeTrailers(raw, Moved(s))
<1>1. n \in Nat
  BY LenProperties DEF Strings
<1>2. ChunkGood(raw, 0, 0, first)
  BY DEF ChunkGood
<1>3. \A i \in 1 .. n : \A s :
        ChunkGood(raw, 0, i - 1, s) => ChunkGood(raw, 0, i, ChunkBody(raw, 0, i, s))
  BY ChunkTyped DEF ChunkBody
<1>4. Looped = last
  <2> HIDE DEF first
  <2>1. QED
    BY Zenon DEF Loop, ChunkLoop!Iterate, ChunkLoop!StatesOf,
                 ChunkLoop!Once, ChunkBody, Only, ChunkLoop!Only
<1>5. ChunkGood(raw, 0, n, last)
  <2> HIDE DEF n, first
  <2>1. QED
    BY <1>1, <1>2, <1>3, ChunkLoop!LoopInvariant
<1>6. IsReq(start.req)
  <2>1. IsReq(last.req)
    BY <1>5 DEF ChunkGood
  <2> HIDE DEF Looped, last
  <2>2. QED
    BY <1>4, <2>1
<1> HIDE DEF start
<1>7. IsReq(Result(start).req)
  <2>1. IsReq(Moved(start))
    BY <1>6, MovedTyped DEF ParseStates
  <2> HIDE DEF Moved
  <2>2. QED
    BY <1>6, <2>1, FailTyped, TrailersTyped
<1>8. DecodeChunked(raw, r) = Only({Result(s) : s \in {start}})
  BY Zenon DEF DecodeChunked, start
<1>9. {Result(s) : s \in {start}} = {Result(start)}
  OBVIOUS
<1> HIDE DEF Result
<1>10. QED
  BY <1>7, <1>8, <1>9, OnlyOne

(* Any coding: those but chunked leave the request as it is, or throw.      *)
LEMMA DecodeTyped ==
  ASSUME NEW raw \in Strings, NEW r, IsReq(r), NEW enc
  PROVE  IsReq(Decode(enc, raw, r).req)
BY ChunkedTyped, FailTyped DEF Decode

-----------------------------------------------------------------------------
(* Lists of codings                                                         *)

ListBody(list, none, i, s) == ListElement(list, s)

ListGood(list, none, i, s) ==
  /\ {"at", "parsed", "done"} \subseteq DOMAIN s
  /\ s.at \in Nat
  /\ s.parsed \in Seq(Strings)

ListLoop == INSTANCE LoopProofs WITH Body <- ListBody, Good <- ListGood

(* An element of a list, and the list.                                      *)
LEMMA ElementTyped ==
  ASSUME NEW list \in Strings, NEW i, NEW s, ListGood(list, 0, i - 1, s)
  PROVE  ListGood(list, 0, i, ListElement(list, s))
<1> DEFINE comma == Find(list, <<",">>, s.at)
           end   == IF comma = NPos THEN Len(list) ELSE comma
           skip  == IF end + 1 < Len(list) /\ list[end + 2] = "SP" THEN 2 ELSE 1
           at    == IF comma = NPos THEN end ELSE end + skip
           word  == Between(list, s.at, end)
           parsed == Append(s.parsed, word)
           next  == [at |-> at, parsed |-> parsed, done |-> FALSE]
<1>1. s.at \in Nat /\ s.parsed \in Seq(Strings) /\ Len(list) \in Nat
  BY LenProperties DEF ListGood, Strings
<1>2. end \in Nat /\ end <= Len(list)
  <2>1. comma = NPos \/ comma \in s.at .. Len(list) - 1
    BY <1>1, FindToken DEF Strings
  <2> HIDE DEF comma
  <2>2. QED
    BY <1>1, <2>1
<1>3. \/ ListElement(list, s) = [s EXCEPT !.done = TRUE]
      \/ ListElement(list, s) = next
  BY Zenon DEF ListElement
<1> HIDE DEF end, comma
<1>4. at \in Nat
  BY <1>2
<1>5. word \in Strings
  BY <1>1, <1>2, BetweenTyped
<1> HIDE DEF at, word
<1>6. parsed \in Seq(Strings)
  BY <1>1, <1>5, AppendProperties
<1> HIDE DEF parsed
<1>7. ListGood(list, 0, i, next)
  BY <1>4, <1>6 DEF ListGood
<1> HIDE DEF next
<1>8. QED
  BY <1>1, <1>3, <1>7 DEF ListGood

(* A list is split into strings.                                            *)
LEMMA ListTyped ==
  ASSUME NEW list \in Strings
  PROVE  ParseList(list) \in Seq(Strings)
<1> DEFINE first == [at |-> 0, parsed |-> <<>>, done |-> FALSE]
           last == ListLoop!Iterate(list, 0, first, Len(list))
<1>1. Len(list) \in Nat
  BY LenProperties DEF Strings
<1>2. ListGood(list, 0, 0, first)
  <2>1. <<>> \in Seq(Strings)
    OBVIOUS
  <2>2. QED
    BY <2>1 DEF ListGood
<1>3. \A i \in 1 .. Len(list) : \A s :
        ListGood(list, 0, i - 1, s) => ListGood(list, 0, i, ListBody(list, 0, i, s))
  BY ElementTyped DEF ListBody
<1>4. ParseList(list) = last.parsed
  <2> HIDE DEF first
  <2>1. ParseList(list) = Loop(LAMBDA s : ListElement(list, s), first, Len(list)).parsed
    BY Zenon DEF ParseList, Loop, first
  <2>2. QED
    BY <2>1, Zenon DEF Loop, ListLoop!Iterate, ListLoop!StatesOf,
                 ListLoop!Once, ListBody, Only, ListLoop!Only
<1>5. ListGood(list, 0, Len(list), last)
  <2> HIDE DEF first
  <2>1. QED
    BY <1>1, <1>2, <1>3, ListLoop!LoopInvariant
<1> HIDE DEF last
<1>6. QED
  BY <1>4, <1>5 DEF ListGood

IsList(seq) == Len(seq) \in Nat /\ DOMAIN seq = 1 .. Len(seq)

(* The codings of a field are a list.                                       *)
LEMMA CodingsTyped ==
  ASSUME NEW r, IsReq(r), NEW name
  PROVE  IsList(ParseFieldList(r, name).codings)
<1> DEFINE words == ParseList(Field(r, name))
           Vals(w) == [i \in DOMAIN w |-> KeywordVal(w[i])]
           Bad(v) == {i \in DOMAIN v : v[i] = 0}
           Result(v) == [codings |-> IF Bad(v) = {} THEN v ELSE SubSeq(v, 1, Min(Bad(v)) - 1),
                         unknown |-> Bad(v) # {}]
           vals == Vals(words)
<1>1. ParseFieldList(r, name) =
        IF ~HasField(r, name) THEN [codings |-> <<>>, unknown |-> FALSE]
        ELSE Only({Result(v) : v \in {Vals(w) : w \in {words}}})
  BY Zenon DEF ParseFieldList
<1>2. {Result(v) : v \in {Vals(w) : w \in {words}}} = {Result(vals)}
  OBVIOUS
<1>3. Only({Result(v) : v \in {Vals(w) : w \in {words}}}) = Result(vals)
  BY <1>2, OnlyOne
<1>4. HasField(r, name) => words \in Seq(Strings)
  BY ListTyped DEF IsReq, HasField, Field
<1> HIDE DEF words
<1>5. words \in Seq(Strings) => IsList(Result(vals).codings)
  <2> SUFFICES ASSUME words \in Seq(Strings) PROVE IsList(Result(vals).codings)
    OBVIOUS
  <2> DEFINE T == {KeywordVal(words[i]) : i \in DOMAIN words}
  <2>1. Len(words) \in Nat /\ DOMAIN words = 1 .. Len(words)
    BY LenProperties
  <2>2. vals \in Seq(T)
    <3>1. vals \in [1 .. Len(words) -> T]
      BY <2>1
    <3> HIDE DEF vals, T
    <3>2. QED
      BY <2>1, <3>1, SeqDef
  <2>3. Len(vals) \in Nat /\ DOMAIN vals = 1 .. Len(vals)
    <3> HIDE DEF vals, T
    <3>1. QED
      BY <2>2, LenProperties
  <2> HIDE DEF vals, T
  <2>4. Bad(vals) # {} => Min(Bad(vals)) \in 1 .. Len(vals)
    <3> DEFINE bad == Bad(vals)
    <3>1. bad \in SUBSET Nat /\ bad \subseteq 1 .. Len(vals)
      BY <2>3
    <3> HIDE DEF bad
    <3>2. bad # {} => Min(bad) \in 1 .. Len(vals)
      BY <3>1, MinOfNumbers
    <3>3. QED
      BY <3>2 DEF bad
  <2> DEFINE to == Min(Bad(vals)) - 1
  <2>5. Bad(vals) # {} => to \in Int /\ to <= Len(vals)
    BY <2>3, <2>4
  <2> HIDE DEF to
  <2>6. Bad(vals) # {} => IsList(SubSeq(vals, 1, to))
    <3> SUFFICES ASSUME Bad(vals) # {} PROVE IsList(SubSeq(vals, 1, to))
      OBVIOUS
    <3>1. \A i \in 1 .. to : vals[i] \in T
      BY <2>2, <2>3, <2>5, LenProperties
    <3>2. SubSeq(vals, 1, to) \in Seq(T)
      BY <2>5, <3>1, SubSeqProperties
    <3>3. QED
      BY <3>2, LenProperties DEF IsList
  <2>7. IsList(vals)
    BY <2>3 DEF IsList
  <2>8. QED
    BY <2>6, <2>7 DEF to
<1> HIDE DEF Result, vals
<1>6. IsList([codings |-> <<>>, unknown |-> FALSE].codings)
  BY DEF IsList
<1>7. QED
  BY <1>1, <1>3, <1>4, <1>5, <1>6

-----------------------------------------------------------------------------
(* parse_content                                                            *)

AllBody(raw, codings, i, s) ==
  IF s.fully_decoded THEN Decode(codings[i], raw, s.req) ELSE s

AllGood(raw, codings, i, s) == IsReq(s.req)

AllLoop == INSTANCE LoopProofs WITH Body <- AllBody, Good <- AllGood

(* The codings, one after the other.                                        *)
LEMMA DecodeAllTyped ==
  ASSUME NEW raw \in Strings, NEW r, IsReq(r), NEW codings, Len(codings) \in Nat
  PROVE  IsReq(DecodeAll(raw, r, codings).req)
<1> DEFINE first == [req |-> r, fully_decoded |-> TRUE]
           last == AllLoop!Iterate(raw, codings, first, Len(codings))
<1>1. AllGood(raw, codings, 0, first)
  BY DEF AllGood
<1>2. \A i \in 1 .. Len(codings) : \A s :
        AllGood(raw, codings, i - 1, s) => AllGood(raw, codings, i, AllBody(raw, codings, i, s))
  BY DecodeTyped DEF AllGood, AllBody
<1> HIDE DEF first
<1>3. DecodeAll(raw, r, codings) = last
  BY Zenon DEF DecodeAll, Fold, AllLoop!Iterate, AllLoop!StatesOf,
               AllLoop!Once, AllBody, Only, AllLoop!Only, first
<1>4. AllGood(raw, codings, Len(codings), last)
  BY <1>1, <1>2, AllLoop!LoopInvariant
<1> HIDE DEF last
<1>5. QED
  BY <1>3, <1>4 DEF AllGood

ContentBody(none, codings, i, r) ==
  IF r.err = "throw" THEN r ELSE Decode(codings[i], r.content, r).req

ContentGood(none, codings, i, r) == IsReq(r)

ContentLoop == INSTANCE LoopProofs WITH Body <- ContentBody, Good <- ContentGood

(* The content codings.                                                     *)
LEMMA DecodeContentTyped ==
  ASSUME NEW r, IsReq(r), NEW codings, Len(codings) \in Nat
  PROVE  IsReq(DecodeContent(r, codings))
<1> DEFINE last == ContentLoop!Iterate(0, codings, r, Len(codings))
<1>1. ContentGood(0, codings, 0, r)
  BY DEF ContentGood
<1>2. \A i \in 1 .. Len(codings) : \A q :
        ContentGood(0, codings, i - 1, q) =>
          ContentGood(0, codings, i, ContentBody(0, codings, i, q))
  <2>1. \A q : IsReq(q) => q.content \in Strings
    BY DEF IsReq
  <2>2. QED
    BY <2>1, DecodeTyped DEF ContentGood, ContentBody
<1>3. DecodeContent(r, codings) = last
  BY Zenon DEF DecodeContent, Fold, ContentLoop!Iterate, ContentLoop!StatesOf,
               ContentLoop!Once, ContentBody, Only, ContentLoop!Only
<1>4. ContentGood(0, codings, Len(codings), last)
  BY <1>1, <1>2, ContentLoop!LoopInvariant
<1> HIDE DEF last
<1>5. QED
  BY <1>3, <1>4 DEF ContentGood

(* The fields that say how the content is delimited and coded.              *)
LEMMA ContentLenTyped ==
  ASSUME NEW r, IsReq(r)
  PROVE  IsReq(ParseContentLen(r))
<1> DEFINE token == Field(r, "content-length")[1]
           number == Numbers[token]
           parsed == [r EXCEPT !.content_len = number]
<1>1. token \in DOMAIN Numbers => number \in Nat
  BY DEF Numbers
<1>2. \/ ParseContentLen(r) = r
      \/ \E status : ParseContentLen(r) = Fail(r, status)
      \/ IsDigits(token) /\ token # "huge" /\ ParseContentLen(r) = parsed
  BY Zenon DEF ParseContentLen
<1> HIDE DEF token
<1>a. IsDigits(token) /\ token # "huge" => token \in DOMAIN Numbers
  BY DEF IsDigits
<1> HIDE DEF number
<1>3. number \in Nat => IsReq(parsed)
  BY DEF IsReq
<1> HIDE DEF parsed
<1>4. QED
  BY <1>1, <1>2, <1>a, <1>3, FailTyped

(* The content type, which is added when it is missing.                     *)
LEMMA ContentTypeTyped ==
  ASSUME NEW r, IsReq(r)
  PROVE  IsReq(ParseContentType(r))
<1> DEFINE added == WithField(r, <<"content-type">>, <<"application", "/", "json">>)
<1>1. \A q : IsReq(q) => IsReq(CheckContentType(q))
  <2>1. \A q : CheckContentType(q) = q \/ CheckContentType(q) = Fail(q, "415")
    BY Zenon DEF CheckContentType
  <2>2. QED
    BY <2>1, FailTyped
<1>2. <<"application", "/", "json">> \in Strings
  <2>1. {"application", "/", "json"} \subseteq Symbols
    BY DEF Symbols
  <2> HIDE DEF Symbols
  <2>2. QED
    BY <2>1 DEF Strings
<1>3. IsReq(added)
  BY <1>2, FieldTyped
<1> HIDE DEF added
<1>4. ParseContentType(r) = CheckContentType(r) \/ ParseContentType(r) = CheckContentType(added)
  BY Zenon DEF ParseContentType, added
<1>5. QED
  BY <1>1, <1>3, <1>4

(* All of them.                                                             *)
LEMMA ContentFieldsTyped ==
  ASSUME NEW r, IsReq(r)
  PROVE  IsReq(ParseContentFields(r))
<1> DEFINE te == ParseFieldList(r, "transfer-encoding").unknown
           ce == ParseFieldList(r, "content-encoding").unknown
           status == IF ce THEN "400" ELSE IF te THEN "501" ELSE r.err
           Result(q) == IF q.err = "throw" THEN q ELSE ParseContentType(q)
           coded == [r EXCEPT !.err = IF ce THEN "400" ELSE IF te THEN "501" ELSE @]
           sized == ParseContentLen(coded)
<1>1. IsReq(coded)
  <2>1. coded = [r EXCEPT !.err = status]
    OBVIOUS
  <2> HIDE DEF status
  <2>2. QED
    BY <2>1 DEF IsReq
<1>2. IsReq(sized)
  <2> HIDE DEF coded
  <2>1. QED
    BY <1>1, ContentLenTyped
<1>3. ParseContentFields(r) = Only({Result(q) : q \in {ParseContentLen(coded)}})
  BY Zenon DEF ParseContentFields
<1>4. {Result(q) : q \in {ParseContentLen(coded)}} = {Result(sized)}
  OBVIOUS
<1> HIDE DEF sized
<1>5. IsReq(Result(sized))
  BY <1>2, ContentTypeTyped
<1> HIDE DEF Result, coded
<1>6. QED
  BY <1>3, <1>4, <1>5, OnlyOne

(* The content, from its parts to the two stages of on_rx.                  *)
LEMMA TransferTyped ==
  ASSUME NEW raw \in Strings, NEW r, IsReq(r), NEW codings, Len(codings) \in Nat
  PROVE  IsReq(DecodeTransfer(raw, r, codings).req)
<1> DEFINE taken == Substr(raw, 0, r.content_len)
           read == [r EXCEPT !.content = taken]
<1>1. taken \in Strings
  BY SubstrTyped DEF IsReq
<1> HIDE DEF taken
<1>2. IsReq(read)
  BY <1>1 DEF IsReq
<1>3. \/ DecodeTransfer(raw, r, codings) = DecodeAll(raw, r, codings)
      \/ \E q, d : /\ q = r \/ q = read \/ \E status : q = Fail(r, status)
                  /\ DecodeTransfer(raw, r, codings) = [req |-> q, fully_decoded |-> d]
  <2> HIDE DEF read
  <2>1. DecodeTransfer(raw, r, codings) =
          IF codings # <<>>
          THEN IF \/ HasField(r, "content-length")
                  \/ Cardinality({i \in DOMAIN codings : codings[i] = Chunked}) > 1
                  \/ {i \in DOMAIN codings : codings[i] = Chunked} # {} /\ Last(codings) # Chunked
               THEN [req |-> Fail(r, "400"), fully_decoded |-> FALSE]
               ELSE DecodeAll(raw, r, codings)
          ELSE IF HasField(r, "content-length")
          THEN IF r.content_len > Len(raw)
               THEN [req |-> r, fully_decoded |-> FALSE]
               ELSE [req |-> read, fully_decoded |-> TRUE]
          ELSE [req |-> IF r.method = Get THEN r ELSE Fail(r, "411"),
                fully_decoded |-> r.method = Get]
    BY Zenon DEF DecodeTransfer, read, taken
  <2>2. QED
    BY <2>1, Zenon
<1> HIDE DEF read
<1>4. ASSUME NEW q, q = r \/ q = read \/ \E status : q = Fail(r, status) PROVE IsReq(q)
  BY <1>2, <1>4, FailTyped
<1>5. QED
  BY <1>3, <1>4, DecodeAllTyped

(* The content once its length or its codings are known.                    *)
LEMMA ReadContentTyped ==
  ASSUME NEW raw \in Strings, NEW r, IsReq(r)
  PROVE  IsReq(ReadContent(raw, r))
<1> DEFINE codings == ParseFieldList(r, "transfer-encoding").codings
           read == DecodeTransfer(raw, r, codings)
           Decoded(d) == DecodeContent(d.req, ParseFieldList(r, "content-encoding").codings)
           Result(d) == IF ~d.fully_decoded THEN d.req
                        ELSE [Decoded(d) EXCEPT !.parse_state = "complete"]
<1>1. Len(codings) \in Nat
  BY CodingsTyped DEF IsList
<1>2. ReadContent(raw, r) =
        Only({Result(d) : d \in {DecodeTransfer(raw, r, c) : c \in {codings}}})
  BY Zenon DEF ReadContent
<1>3. {Result(d) : d \in {DecodeTransfer(raw, r, c) : c \in {codings}}} = {Result(read)}
  OBVIOUS
<1> HIDE DEF codings
<1>4. IsReq(read.req)
  BY <1>1, TransferTyped
<1> HIDE DEF read
<1>5. IsReq(Decoded(read))
  BY <1>4, CodingsTyped, DecodeContentTyped DEF IsList
<1> HIDE DEF Decoded
<1>6. IsReq(Result(read))
  BY <1>4, <1>5, MovedTyped DEF ParseStates
<1> HIDE DEF Result
<1>7. QED
  BY <1>2, <1>3, <1>6, OnlyOne

(* parse_content.                                                           *)
LEMMA ContentTyped ==
  ASSUME NEW raw \in Strings, NEW r, IsReq(r)
  PROVE  IsReq(ParseContent(raw, r))
<1> DEFINE Result(q) == IF HasErr(q) THEN q ELSE ReadContent(raw, q)
           fields == ParseContentFields(r)
           hosted == WithField(r, <<"host">>, <<>>)
<1>1. \/ \E status : ParseContent(raw, r) = Fail(r, status)
      \/ ParseContent(raw, r) = Fail(hosted, "400")
      \/ ParseContent(raw, r) = Only({Result(q) : q \in {fields}})
  BY Zenon DEF ParseContent
<1>2. {Result(q) : q \in {fields}} = {Result(fields)}
  OBVIOUS
<1>3. IsReq(hosted)
  <2>1. <<>> \in Strings
    BY DEF Strings
  <2>2. QED
    BY <2>1, FieldTyped
<1>4. IsReq(fields)
  BY ContentFieldsTyped
<1> HIDE DEF fields, hosted
<1>5. IsReq(Result(fields))
  BY <1>4, ReadContentTyped
<1> HIDE DEF Result
<1>6. QED
  BY <1>1, <1>2, <1>3, <1>5, FailTyped, OnlyOne

(* The second stage of on_rx.                                               *)
LEMMA ContentStageTyped ==
  ASSUME NEW raw \in Strings, NEW head, IsReq(head.req)
  PROVE  IsReq(ContentStage(raw, head))
BY ContentTyped DEF ContentStage

(* The first.                                                               *)
LEMMA HeadStageTyped ==
  ASSUME NEW raw \in Strings, NEW r, IsReq(r), NEW from \in 0 .. Len(raw)
  PROVE  LET head == HeadStage(raw, r, from)
         IN IsReq(head.req) /\ head.parsed_up_to \in 0 .. Len(raw)
<1>1. \/ HeadStage(raw, r, from) = ParseHeaders(raw, r, from)
      \/ HeadStage(raw, r, from) = [req |-> r, parsed_up_to |-> from]
  BY Zenon DEF HeadStage
<1>2. QED
  BY <1>1, HeadersTyped

-----------------------------------------------------------------------------
(* The connection                                                           *)

(* The type invariant and what keeps it: the parser takes strings and leaves *)
(* a request with the fields it reads.                                      *)
StreamInv ==
  /\ TypeOK
  /\ IsReq(req_)
  /\ {io_rx_, inq, unsent} \subseteq Strings

TextsBody(none, requests, i, text) == text \o requests[i].text

TextsGood(none, requests, i, text) == text \in Strings

TextsLoop == INSTANCE LoopProofs WITH Body <- TextsBody, Good <- TextsGood

(* The text of a script.                                                    *)
LEMMA ScriptTyped ==
  ASSUME NEW s \in Scripts
  PROVE  Texts(s) \in Strings
<1> DEFINE last == TextsLoop!Iterate(0, s, <<>>, Len(s))
<1>1. Len(s) \in Nat /\ DOMAIN s = 1 .. Len(s)
  BY ScriptsAssumption, LenProperties
<1>2. \A i \in 1 .. Len(s) : s[i].text \in Strings
  <2> SUFFICES ASSUME NEW i \in DOMAIN s PROVE s[i].text \in Strings
    BY <1>1
  <2> DEFINE T == Range(s[i].text)
  <2>1. s[i].text \in Seq(T)
    BY ScriptsAssumption
  <2>2. T \subseteq Symbols
    BY DEF Symbols
  <2> HIDE DEF T
  <2>3. QED
    BY <2>1, <2>2, SeqMonotonic DEF Strings
<1>3. TextsGood(0, s, 0, <<>>)
  BY DEF TextsGood, Strings
<1>4. \A i \in 1 .. Len(s) : \A text :
        TextsGood(0, s, i - 1, text) => TextsGood(0, s, i, TextsBody(0, s, i, text))
  BY <1>2, ConcatProperties DEF TextsGood, TextsBody, Strings
<1>5. Texts(s) = last
  BY Zenon DEF Texts, Fold, TextsLoop!Iterate, TextsLoop!StatesOf,
               TextsLoop!Once, TextsBody, Only, TextsLoop!Only
<1>6. TextsGood(0, s, Len(s), last)
  BY <1>1, <1>3, <1>4, TextsLoop!LoopInvariant
<1> HIDE DEF last
<1>7. QED
  BY <1>5, <1>6 DEF TextsGood

(* on_rx on a buffer that extends the one before.                           *)
LEMMA OnRxTyped ==
  ASSUME StreamInv, NEW raw \in Strings, Len(raw) >= Len(io_rx_), OnRx(raw),
         UNCHANGED peer
  PROVE  TypeOK' /\ IsReq(req_)' /\ io_rx_' \in Strings
<1> PICK head \in {HeadStage(raw, req_, parsed_to_idx_)} :
    \E content \in {After(raw, head.parsed_up_to)} :
    \E r \in {ContentStage(content, head)} :
      /\ io_rx_' = raw
      /\ req_' = r
      /\ parsed_to_idx_' = head.parsed_up_to
      /\ \/ /\ interest' = "terminated"
            /\ UNCHANGED keep_alive
         \/ /\ interest' = "in"
            /\ keep_alive' = (keep_alive /\ peer # "fin")
         \/ \E s : Respond(s, r)
  BY Zenon DEF OnRx
<1>1. Len(raw) \in Nat /\ Len(io_rx_) \in Nat
  BY LenProperties DEF StreamInv, Strings
<1>2. IsReq(head.req) /\ head.parsed_up_to \in 0 .. Len(raw)
  <2>1. parsed_to_idx_ \in 0 .. Len(raw) /\ IsReq(req_)
    BY <1>1 DEF StreamInv, TypeOK
  <2>2. QED
    BY <2>1, HeadStageTyped
<1> DEFINE content == After(raw, head.parsed_up_to)
           r == ContentStage(content, head)
<1>3. IsReq(r)
  <2>1. content \in Strings
    BY <1>2, AfterTyped
  <2> HIDE DEF content
  <2>2. QED
    BY <1>2, <2>1, ContentStageTyped
<1>4. io_rx_' = raw /\ req_' = r /\ parsed_to_idx_' = head.parsed_up_to
  OBVIOUS
<1> HIDE DEF r
<1>5. IsReq(req_')
  BY <1>3, <1>4
<1>6. keep_alive' \in BOOLEAN /\ interest' \in {"in", "out", "closed", "terminated"}
  BY DEF StreamInv, TypeOK, Respond
<1>7. peer' \in {"open", "fin", "rst"}
  BY DEF StreamInv, TypeOK
<1>8. req_'.parse_state \in ParseStates
  BY <1>5 DEF IsReq
<1>9. TypeOK'
  BY <1>2, <1>4, <1>6, <1>7, <1>8 DEF TypeOK, ParseStates
<1>10. QED
  BY <1>4, <1>5, <1>9 DEF IsReq, ParseStates

(* What is sent moves to the queue of the kernel.                           *)
LEMMA PeerSendTyped ==
  ASSUME StreamInv, PeerSend
  PROVE  StreamInv'
<1> PICK n \in 1 .. Len(unsent) :
      /\ inq' = inq \o SubSeq(unsent, 1, n)
      /\ unsent' = SubSeq(unsent, n + 1, Len(unsent))
  BY DEF PeerSend
<1>1. unsent \in Strings /\ inq \in Strings /\ Len(unsent) \in Nat
  BY LenProperties DEF StreamInv, Strings
<1>2. SubSeq(unsent, 1, n) \in Strings
  <2>1. Between(unsent, 0, n) \in Strings
    BY <1>1, BetweenTyped
  <2>2. Between(unsent, 0, n) = SubSeq(unsent, 1, n)
    BY DEF Between
  <2>3. QED
    BY <2>1, <2>2
<1>3. SubSeq(unsent, n + 1, Len(unsent)) \in Strings
  BY <1>1, AfterTyped DEF After
<1>4. inq' \in Strings /\ unsent' \in Strings
  BY <1>1, <1>2, <1>3, ConcatProperties DEF Strings
<1>5. UNCHANGED <<peer, io_rx_, parsed_to_idx_, req_, keep_alive, interest>>
  BY DEF PeerSend, connVars
<1>6. QED
  BY <1>4, <1>5 DEF StreamInv, TypeOK, IsReq, ParseStates

(* Reading appends to the buffer, and the parser leaves its index in it.    *)
LEMMA HandleInTyped ==
  ASSUME StreamInv, HandleIn
  PROVE  StreamInv'
<1> DEFINE raw == io_rx_ \o inq
<1>1. /\ io_rx_ \in Strings /\ inq \in Strings
      /\ Len(io_rx_) \in Nat /\ Len(inq) \in Nat
  BY LenProperties DEF StreamInv, Strings
<1>2. raw \in Strings /\ Len(raw) >= Len(io_rx_)
  <2>1. raw \in Strings /\ Len(raw) = Len(io_rx_) + Len(inq)
    BY <1>1, ConcatProperties DEF Strings
  <2> HIDE DEF raw
  <2>2. QED
    BY <1>1, <2>1
<1>3. inq' = <<>> /\ UNCHANGED <<peer, unsent>>
  BY DEF HandleIn, peerVars
<1>4. inq' \in Strings /\ unsent' \in Strings
  BY <1>3 DEF StreamInv, Strings
<1> HIDE DEF raw
<1>5. CASE OnRx(raw)
  <2>1. TypeOK' /\ IsReq(req_)' /\ io_rx_' \in Strings
    BY <1>2, <1>3, <1>5, OnRxTyped
  <2>2. QED
    BY <1>4, <2>1 DEF StreamInv
<1>6. CASE OnClose /\ UNCHANGED <<io_rx_, parsed_to_idx_, req_, keep_alive>>
  BY <1>3, <1>4, <1>6 DEF OnClose, StreamInv, TypeOK, IsReq, ParseStates
<1>7. QED
  BY <1>5, <1>6 DEF HandleIn, raw

(* The request and the index are reset together, the buffer stays.          *)
LEMMA HandleOutTyped ==
  ASSUME StreamInv, HandleOut
  PROVE  StreamInv'
<1>1. UNCHANGED <<peer, unsent, inq, keep_alive, io_rx_>>
  BY DEF HandleOut, peerVars, OnTx, ResetState
<1>2. \/ /\ interest' \in {"in", "closed"}
         /\ parsed_to_idx_' = 0 /\ req_' = NewReq
      \/ /\ interest' \in {interest, "closed"}
         /\ UNCHANGED <<parsed_to_idx_, req_>>
  BY DEF HandleOut, OnTx, ResetState, OnClose
<1>3. 0 \in 0 .. Len(io_rx_)
  BY LenProperties DEF StreamInv, Strings
<1>4. IsReq(req_)'
  BY <1>2, NewReqTyped DEF StreamInv, IsReq, ParseStates
<1>5. QED
  BY <1>1, <1>2, <1>3, <1>4 DEF StreamInv, TypeOK, IsReq, ParseStates

(* It is an invariant.                                                      *)
LEMMA StreamInvHolds == Spec => []StreamInv
<1>1. Init => StreamInv
  <2> SUFFICES ASSUME Init PROVE StreamInv
    OBVIOUS
  <2>1. unsent \in Strings
    BY ScriptTyped DEF Init
  <2>2. <<>> \in Strings /\ Len(<<>>) = 0
    BY DEF Strings
  <2>3. IsReq(req_)
    BY NewReqTyped DEF Init
  <2>4. QED
    BY <2>1, <2>2, <2>3 DEF Init, StreamInv, TypeOK, IsReq, ParseStates
<1>2. StreamInv /\ [Next]_vars => StreamInv'
  <2> SUFFICES ASSUME StreamInv, [Next]_vars PROVE StreamInv'
    OBVIOUS
  <2>1. CASE PeerSend
    BY <2>1, PeerSendTyped
  <2>2. CASE PeerShutdown \/ PeerReset
    BY <2>2 DEF PeerShutdown, PeerReset, connVars, StreamInv, TypeOK, IsReq
  <2>3. CASE HandleErr
    BY <2>3 DEF HandleErr, OnClose, peerVars, StreamInv, TypeOK, IsReq
  <2>4. CASE HandleIn
    BY <2>4, HandleInTyped
  <2>5. CASE HandleOut
    BY <2>5, HandleOutTyped
  <2>6. CASE UNCHANGED vars
    BY <2>6 DEF vars, peerVars, connVars, StreamInv, TypeOK, IsReq
  <2>7. QED
    BY <2>1, <2>2, <2>3, <2>4, <2>5, <2>6 DEF Next
<1>3. QED
  BY <1>1, <1>2, PTL DEF Spec

(* The index of a connection is always in its buffer and its request always *)
(* in a state of the parser, for every script and every cut.                *)
THEOREM StreamTyped == Spec => []TypeOK
<1>1. StreamInv => TypeOK
  BY DEF StreamInv
<1>2. QED
  BY <1>1, StreamInvHolds, PTL

=============================================================================
