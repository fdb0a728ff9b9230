---------------------------- MODULE SegmentProofs ----------------------------
(***************************************************************************)
(* How the text of a request is cut into segments makes no difference.     *)
(*                                                                         *)
(* Each loop of the parser is compared with the same loop over a text that *)
(* goes on: they agree until the first has read what there is, and where   *)
(* it stops the next call goes on (header lines, then chunks, then the     *)
(* trailer section).  Then so do the stages of server::on_rx, and the      *)
(* connection is where it would be, had the text come in one piece.        *)
(***************************************************************************)
EXTENDS Segments, StreamProofs, FiniteSetTheorems

(* raw2 is raw1 with more text behind it.                                   *)
Begins(raw1, raw2) ==
  Len(raw1) <= Len(raw2) /\ \A i \in 1 .. Len(raw1) : raw1[i] = raw2[i]

(* Where the first pair of tokens c, d after from is.                       *)
PairAt(raw, c, d, from, p) ==
  /\ p \in from .. Len(raw) - 2
  /\ raw[p + 1] = c /\ raw[p + 2] = d
  /\ \A i \in from + 1 .. p : ~(raw[i] = c /\ raw[i + 1] = d)

NoPair(raw, c, d, from) ==
  \A i \in from + 1 .. Len(raw) - 1 : ~(raw[i] = c /\ raw[i + 1] = d)

(* Find finds the first such pair, or says that there is none.              *)
LEMMA FoundPair ==
  ASSUME NEW raw \in Strings, NEW c, NEW d, NEW from \in Nat
  PROVE  \/ Find(raw, <<c, d>>, from) = NPos /\ NoPair(raw, c, d, from)
         \/ PairAt(raw, c, d, from, Find(raw, <<c, d>>, from))
<1> DEFINE found == Find(raw, <<c, d>>, from)
<1>1. \/ found = NPos /\ NoPair(raw, c, d, from)
      \/ /\ found \in from .. Len(raw) - 2
         /\ raw[found + 1] = c /\ raw[found + 2] = d
         /\ \A i \in from + 1 .. found : ~(raw[i] = c /\ raw[i + 1] = d)
  BY FindPair DEF Strings, NoPair
<1> HIDE DEF found
<1>2. QED
  BY <1>1 DEF PairAt, found

(* What is found in a text is found in the same place when more arrives.    *)
LEMMA PairKept ==
  ASSUME NEW raw1 \in Strings, NEW raw2 \in Strings, Begins(raw1, raw2),
         NEW c, NEW d, NEW from \in Nat, Find(raw1, <<c, d>>, from) # NPos
  PROVE  Find(raw2, <<c, d>>, from) = Find(raw1, <<c, d>>, from)
<1> DEFINE p == Find(raw1, <<c, d>>, from)
           q == Find(raw2, <<c, d>>, from)
<1>1. Len(raw1) \in Nat /\ Len(raw2) \in Nat /\ Len(raw1) <= Len(raw2)
  BY LenProperties DEF Strings, Begins
<1>2. PairAt(raw1, c, d, from, p)
  BY FoundPair
<1>3. (q = NPos /\ NoPair(raw2, c, d, from)) \/ PairAt(raw2, c, d, from, q)
  BY FoundPair
<1> HIDE DEF p, q
<1>4. /\ p \in from .. Len(raw1) - 2
      /\ p + 1 \in 1 .. Len(raw1) /\ p + 2 \in 1 .. Len(raw1)
      /\ p + 1 \in from + 1 .. Len(raw2) - 1 /\ (p + 1) + 1 = p + 2
  BY <1>1, <1>2 DEF PairAt
<1>5. raw2[p + 1] = c /\ raw2[p + 2] = d
  BY <1>2, <1>4 DEF PairAt, Begins
<1>6. ~NoPair(raw2, c, d, from)
  BY <1>4, <1>5 DEF NoPair
<1>7. q \in Nat /\ q \in from .. Len(raw2) - 2
  BY <1>1, <1>3, <1>6 DEF PairAt
<1>8. ASSUME q < p PROVE FALSE
  <2>1. /\ q + 1 \in from + 1 .. p /\ (q + 1) + 1 = q + 2
        /\ q + 1 \in 1 .. Len(raw1) /\ q + 2 \in 1 .. Len(raw1)
    BY <1>1, <1>4, <1>7, <1>8
  <2>2. raw1[q + 1] = c /\ raw1[q + 2] = d
    BY <1>3, <1>6, <2>1 DEF PairAt, Begins
  <2>3. QED
    BY <1>2, <2>1, <2>2 DEF PairAt
<1>9. ASSUME p < q PROVE FALSE
  <2>1. p + 1 \in from + 1 .. q
    BY <1>4, <1>7, <1>9
  <2>2. QED
    BY <1>3, <1>4, <1>5, <1>6, <2>1 DEF PairAt
<1>10. p = q
  BY <1>4, <1>7, <1>8, <1>9
<1>11. QED
  BY <1>10 DEF p, q

(* A part of a text is the same part when more arrives.                     *)
LEMMA BetweenKept ==
  ASSUME NEW raw1 \in Strings, NEW raw2 \in Strings, Begins(raw1, raw2),
         NEW from \in Nat, NEW to \in Int, to <= Len(raw1)
  PROVE  Between(raw2, from, to) = Between(raw1, from, to)
<1> DEFINE part1 == Between(raw1, from, to)
           part2 == Between(raw2, from, to)
           n == IF from <= to THEN to - from ELSE 0
<1>1. Len(raw1) \in Nat /\ Len(raw2) \in Nat /\ to <= Len(raw2)
  BY LenProperties DEF Strings, Begins
<1>2. /\ part1 \in Seq(Symbols) /\ Len(part1) = n
      /\ \A i \in 1 .. to - from : part1[i] = raw1[from + i]
  BY BetweenProperties DEF Strings
<1>3. /\ part2 \in Seq(Symbols) /\ Len(part2) = n
      /\ \A i \in 1 .. to - from : part2[i] = raw2[from + i]
  BY <1>1, BetweenProperties DEF Strings
<1> HIDE DEF part1, part2
<1>4. ASSUME NEW i \in 1 .. n PROVE part1[i] = part2[i]
  <2>1. i \in 1 .. to - from /\ from + i \in 1 .. Len(raw1)
    BY <1>1
  <2>2. QED
    BY <1>2, <1>3, <2>1 DEF Begins
<1>5. part1 = part2
  BY <1>2, <1>3, <1>4, SeqEqual
<1>6. QED
  BY <1>5 DEF part1, part2

(* The same of what comes after a place in it.                              *)
LEMMA AfterKept ==
  ASSUME NEW raw1 \in Strings, NEW raw2 \in Strings, Begins(raw1, raw2),
         NEW from \in 0 .. Len(raw1)
  PROVE  Begins(After(raw1, from), After(raw2, from))
<1>1. Len(raw1) \in Nat /\ Len(raw2) \in Nat /\ from \in Nat
      /\ from <= Len(raw1) /\ from <= Len(raw2)
  BY LenProperties DEF Strings, Begins
<1>2. /\ Len(After(raw1, from)) = Len(raw1) - from
      /\ \A i \in 1 .. Len(raw1) - from : After(raw1, from)[i] = raw1[from + i]
  BY <1>1, AfterProperties DEF Strings
<1>3. /\ Len(After(raw2, from)) = Len(raw2) - from
      /\ \A i \in 1 .. Len(raw2) - from : After(raw2, from)[i] = raw2[from + i]
  BY <1>1, AfterProperties DEF Strings
<1>4. ASSUME NEW i \in 1 .. Len(raw1) - from
      PROVE  After(raw1, from)[i] = After(raw2, from)[i]
  <2>1. i \in 1 .. Len(raw2) - from /\ from + i \in 1 .. Len(raw1)
    BY <1>1 DEF Begins
  <2>2. QED
    BY <1>2, <1>3, <2>1 DEF Begins
<1>5. QED
  BY <1>1, <1>2, <1>3, <1>4 DEF Begins

-----------------------------------------------------------------------------
(* What a function that adds to a request leaves alone: how far the parser  *)
(* is, and the errors and fields that are there.                            *)
Grown(r, q) ==
  /\ q.parse_state = r.parse_state
  /\ q.chunked_content_len = r.chunked_content_len
  /\ HasErr(r) => HasErr(q)
  /\ \A name \in DOMAIN r.fields :
       name \in DOMAIN q.fields /\ q.fields[name] = r.fields[name]

(* Fail adds an error and changes nothing else.                             *)
LEMMA FailGrown ==
  ASSUME NEW r, IsReq(r), NEW status, status # "none"
  PROVE  Grown(r, Fail(r, status)) /\ HasErr(Fail(r, status))
BY DEF Fail, IsReq, Grown, HasErr

(* So does reading a URI, which adds to the URI of the request or fails.    *)
LEMMA UriGrown ==
  ASSUME NEW r, IsReq(r), NEW text, NEW flags
  PROVE  Grown(r, WithUri(r, text, flags))
<1> DEFINE Stored(u) == [r EXCEPT !.uri = u,
                           !.err = IF u.threw THEN "throw" ELSE IF u.has_err THEN "400" ELSE @]
           Parsed == {ParseUri(r.uri, raw, flags) : raw \in {text}}
<1>1. \A u : Grown(r, Stored(u))
  BY DEF IsReq, Grown, HasErr
<1>2. WithUri(r, text, flags) = Only({Stored(u) : u \in Parsed})
  BY Zenon DEF WithUri
<1>3. {Stored(u) : u \in Parsed} = {Stored(ParseUri(r.uri, text, flags))}
  OBVIOUS
<1> HIDE DEF Stored, Parsed
<1>4. QED
  BY <1>1, <1>2, <1>3, OnlyOne

(* So does a field that is not there yet.                                   *)
LEMMA FieldGrown ==
  ASSUME NEW r, IsReq(r), NEW name, name \notin DOMAIN r.fields, NEW value
  PROVE  /\ Grown(r, WithField(r, name, value))
         /\ name \in DOMAIN WithField(r, name, value).fields
<1> DEFINE fields == [n \in DOMAIN r.fields \cup {name} |->
                        IF n = name THEN value ELSE r.fields[n]]
<1>1. /\ DOMAIN fields = DOMAIN r.fields \cup {name}
      /\ \A n \in DOMAIN r.fields : fields[n] = r.fields[n]
  OBVIOUS
<1>2. WithField(r, name, value) = [r EXCEPT !.fields = fields]
  BY DEF WithField
<1> HIDE DEF fields
<1>3. QED
  BY <1>1, <1>2 DEF IsReq, Grown, HasErr

(* The name of a field line, and the field.                                 *)
NameOf(line) == Between(line, 0, Find(line, <<":">>, 0))

(* A field line adds a field, or fails.                                     *)
LEMMA FieldLineGrown ==
  ASSUME NEW r, IsReq(r), NEW line \in Strings
  PROVE  LET q == ParseFieldLine(line, r)
         IN /\ Grown(r, q)
            /\ HasErr(q) \/ NameOf(line) \in DOMAIN q.fields
            /\ NameOf(line) \in DOMAIN r.fields => HasErr(q)
<1> DEFINE colon == Find(line, <<":">>, 0)
           name  == Between(line, 0, colon)
           start == FindNotOf(line, "SP", colon + 1)
           value == After(line, start)
           added == WithField(r, name, value)
           q     == ParseFieldLine(line, r)
<1>1. q = IF colon = NPos \/ name \in DOMAIN r.fields \/ start = NPos THEN Fail(r, "400")
          ELSE IF name = <<"host">> THEN ParseHost(value, added) ELSE added
  BY Zenon DEF ParseFieldLine
<1>2. name \notin DOMAIN r.fields => Grown(r, added) /\ name \in DOMAIN added.fields
  BY FieldGrown
<1>3. name = NameOf(line)
  BY DEF NameOf
<1>4. /\ Grown(r, Fail(r, "400")) /\ HasErr(Fail(r, "400"))
  BY FailGrown
<1>5. CASE colon = NPos \/ name \in DOMAIN r.fields \/ start = NPos
  <2> HIDE DEF colon, start, name, added, value
  <2>1. q = Fail(r, "400")
    BY <1>1, <1>5
  <2> HIDE DEF q
  <2>2. Grown(r, q) /\ HasErr(q)
    BY <1>4, <2>1
  <2>3. QED
    BY <2>2 DEF q
<1>6. CASE ~(colon = NPos \/ name \in DOMAIN r.fields \/ start = NPos)
  <2>1. IsReq(added)
    <3>1. colon \in Nat
      BY <1>6, FindToken, LenProperties DEF Strings
    <3> HIDE DEF colon
    <3>2. start \in Nat
      <4> DEFINE from == colon + 1
      <4>1. from \in Nat /\ Len(line) \in Nat
        BY <3>1, LenProperties DEF Strings
      <4> HIDE DEF from
      <4>2. FindNotOf(line, "SP", from) = NPos \/ FindNotOf(line, "SP", from) \in from .. Len(line) - 1
        BY <4>1, FindNotOfProperties DEF Strings
      <4>3. QED
        BY <1>6, <4>1, <4>2 DEF from
    <3> HIDE DEF start
    <3>3. QED
      BY <3>2, AfterTyped, FieldTyped
  <2> HIDE DEF colon, start, name, added, value
  <2>2. Grown(added, ParseHost(value, added))
    <3>1. Grown(added, added)
      BY DEF Grown
    <3>2. QED
      BY <2>1, <3>1, UriGrown DEF ParseHost
  <2>3. q = added \/ q = ParseHost(value, added)
    BY <1>1, <1>6
  <2> HIDE DEF q
  <2>4. Grown(r, q) /\ name \in DOMAIN q.fields
    <3>1. Grown(r, added) /\ name \in DOMAIN added.fields
      BY <1>2, <1>6
    <3>2. q = added \/ Grown(added, q)
      BY <2>2, <2>3
    <3>3. QED
      BY <3>1, <3>2 DEF Grown
  <2>5. QED
    BY <1>3, <1>6, <2>4 DEF q
<1>7. QED
  BY <1>5, <1>6

(* A request line leads to the header, unless it is refused.                *)
LEMMA ReqLineGrown ==
  ASSUME NEW r, IsReq(r), NEW line
  PROVE  LET q == ParseReqLine(line, r)
         IN /\ q.chunked_content_len = r.chunked_content_len
            /\ HasErr(q) \/ q.parse_state = "headers"
<1> DEFINE Led(p, q) == /\ q.chunked_content_len = p.chunked_content_len
                        /\ HasErr(q) \/ q.parse_state = "headers"
<1>1. ASSUME NEW p, IsReq(p), NEW status, status # "none" PROVE Led(p, Fail(p, status))
  BY <1>1, FailGrown DEF Grown
<1>2. ASSUME NEW p, IsReq(p), NEW target
      PROVE  Grown(p, ParseReqTarget(target, p))
  <2> DEFINE Formed(form) == [p EXCEPT !.target_form = form]
             Starred(form) == [p EXCEPT !.target_form = form,
                                        !.err = IF Len(target) > 1 THEN "400" ELSE @]
             Result(form) == IF form # "asterik"
               THEN WithUri(Formed(form), target, TargetParts[form])
               ELSE Starred(form)
  <2>1. \A form : IsReq(Formed(form)) /\ Grown(p, Formed(form))
    BY <1>2 DEF IsReq, Grown, HasErr
  <2>2. \A form : Grown(p, Starred(form))
    BY <1>2 DEF IsReq, Grown, HasErr
  <2>3. \A form : Grown(Formed(form), WithUri(Formed(form), target, TargetParts[form]))
    <3> HIDE DEF Formed
    <3>1. QED
      BY <2>1, UriGrown
  <2>4. \A form : Grown(p, Result(form))
    <3> HIDE DEF Formed, Starred
    <3>1. \A form : Grown(p, WithUri(Formed(form), target, TargetParts[form]))
      BY <2>1, <2>3 DEF Grown
    <3>2. QED
      BY <2>2, <3>1
  <2>5. ParseReqTarget(target, p) =
          IF target = <<>> THEN Fail(p, "throw")
          ELSE Only({Result(form) : form \in {TargetForm(target)}})
    BY Zenon DEF ParseReqTarget
  <2>6. {Result(form) : form \in {TargetForm(target)}} = {Result(TargetForm(target))}
    OBVIOUS
  <2> HIDE DEF Result, Led
  <2>7. Grown(p, Fail(p, "throw"))
    BY <1>2, FailGrown
  <2>8. ParseReqTarget(target, p) = Fail(p, "throw") \/
        ParseReqTarget(target, p) = Result(TargetForm(target))
    BY <2>5, <2>6, OnlyOne
  <2>9. QED
    BY <2>4, <2>7, <2>8
<1>3. ASSUME NEW p, IsReq(p), NEW start
      PROVE  Led(p, ParseTargetVersion(line, start, p))
  <2> DEFINE end == Find(line, <<"SP">>, start)
             target == ParseReqTarget(Between(line, start, end), p)
             Version(q) == ParseVersion(After(line, end + 1), q)
             Moved(q) == [Version(q) EXCEPT !.parse_state = "headers"]
             Result(q) == IF q.err = "throw" THEN q
                          ELSE IF end + 1 >= Len(line) THEN Fail(q, "400")
                          ELSE Moved(q)
  <2>1. IsReq(target) /\ Grown(p, target)
    BY <1>2, <1>3, ReqTargetTyped
  <2>2. ASSUME NEW q, IsReq(q) PROVE Led(q, Moved(q))
    <3>1. IsReq(Version(q))
      BY <2>2, VersionTyped
    <3>2. Version(q).chunked_content_len = q.chunked_content_len
      BY <2>2, FailGrown DEF ParseVersion, Grown
    <3> HIDE DEF Version
    <3>3. QED
      BY <3>1, <3>2 DEF IsReq
  <2>3. ParseTargetVersion(line, start, p) =
          IF p.method = 0 THEN Fail(p, "501")
          ELSE IF end = NPos THEN Fail(p, "400")
          ELSE Only({Result(q) : q \in {target}})
    BY Zenon DEF ParseTargetVersion
  <2>4. {Result(q) : q \in {target}} = {Result(target)}
    OBVIOUS
  <2>5. Led(target, Result(target))
    <3>1. target.err = "throw" => Led(target, target)
      BY DEF HasErr
    <3> HIDE DEF target, end, Moved, Led
    <3>2. QED
      BY <1>1, <2>1, <2>2, <3>1
  <2> HIDE DEF Moved, target, end
  <2>6. Led(p, Result(target))
    BY <2>1, <2>5 DEF Grown
  <2> HIDE DEF Result, Led
  <2>7. QED
    BY <1>1, <1>3, <2>3, <2>4, <2>6, OnlyOne
<1> DEFINE Named(method) == [r EXCEPT !.method = method]
<1>4. \A method : IsReq(Named(method)) /\ Named(method).chunked_content_len = r.chunked_content_len
  BY DEF IsReq
<1>5. ParseReqLine(line, r) = Fail(r, "400") \/
      \E method, start : ParseReqLine(line, r) = ParseTargetVersion(line, start, Named(method))
  BY DEF ParseReqLine
<1> HIDE DEF Named
<1>6. \A method, start : Led(r, ParseTargetVersion(line, start, Named(method)))
  BY <1>3, <1>4
<1>7. Led(r, ParseReqLine(line, r))
  <2> HIDE DEF Led
  <2>1. QED
    BY <1>1, <1>5, <1>6
<1>8. QED
  BY <1>7

-----------------------------------------------------------------------------
(* The loop of parse_headers goes on as long as there are lines.            *)
Live(s) == ~s.done /\ s.req.parse_state = "headers" /\ ~HasErr(s.req)

LineEnd(raw, s) == Find(raw, Crlf, s.line_start)

(* The loop before it has read the whole header, and when it has.           *)
Waiting(s) == [s EXCEPT !.parsed_up_to = s.line_start, !.done = TRUE]

HeaderEnds(s, past) ==
  [s EXCEPT !.req = [s.req EXCEPT !.parse_state = "content"],
            !.parsed_up_to = s.line_start + past]

Past(raw, s) == IF s.line_start + 2 < Len(raw) THEN 2 ELSE 0

WithLine(raw, s) ==
  [s EXCEPT !.req = ParseFieldLine(Between(raw, s.line_start, LineEnd(raw, s)), s.req),
            !.line_start = LineEnd(raw, s) + 2]

(* What one iteration does.                                                 *)
LEMMA HeaderLineCases ==
  ASSUME NEW raw, NEW s
  PROVE  HeaderLine(raw, s) =
           IF ~Live(s) THEN s
           ELSE IF LineEnd(raw, s) = NPos THEN Waiting(s)
           ELSE IF LineEnd(raw, s) = s.line_start THEN HeaderEnds(s, Past(raw, s))
           ELSE WithLine(raw, s)
<1> DEFINE line_end == Find(raw, Crlf, s.line_start)
           past == IF s.line_start + 2 < Len(raw) THEN 2 ELSE 0
           line == Between(raw, s.line_start, line_end)
           field == ParseFieldLine(line, s.req)
<1>1. {ParseFieldLine(l, s.req) : l \in {line}} = {field}
  OBVIOUS
<1>2. Only({ParseFieldLine(l, s.req) : l \in {line}}) = field
  BY <1>1, OnlyOne
<1>3. HeaderLine(raw, s) =
        IF s.done \/ s.req.parse_state # "headers" \/ HasErr(s.req) THEN s
        ELSE IF line_end = NPos
        THEN [s EXCEPT !.parsed_up_to = s.line_start, !.done = TRUE]
        ELSE IF line_end = s.line_start
        THEN [s EXCEPT !.req.parse_state = "content",
                       !.parsed_up_to = s.line_start + past]
        ELSE [s EXCEPT !.req = Only({ParseFieldLine(l, s.req) : l \in {line}}),
                       !.line_start = line_end + 2]
  BY Zenon DEF HeaderLine
<1>4. [s EXCEPT !.req.parse_state = "content", !.parsed_up_to = s.line_start + past]
        = HeaderEnds(s, past)
  BY DEF HeaderEnds
<1>5. line_end = LineEnd(raw, s) /\ past = Past(raw, s)
  BY DEF LineEnd, Past
<1>6. WithLine(raw, s) = [s EXCEPT !.req = field, !.line_start = line_end + 2]
  BY DEF WithLine, LineEnd
<1>7. ~Live(s) <=> s.done \/ s.req.parse_state # "headers" \/ HasErr(s.req)
  BY DEF Live
<1>8. Waiting(s) = [s EXCEPT !.parsed_up_to = s.line_start, !.done = TRUE]
  BY DEF Waiting
<1> HIDE DEF line_end, past, field
<1>9. QED
  BY <1>2, <1>3, <1>4, <1>5, <1>6, <1>7, <1>8

(* Where a line ends.                                                       *)
LEMMA LineEndPlace ==
  ASSUME NEW raw \in Strings, NEW i, NEW s, HeaderGood(raw, 0, i, s)
  PROVE  /\ LineEnd(raw, s) = NPos \/ LineEnd(raw, s) \in s.line_start .. Len(raw) - 2
         /\ Len(raw) \in Nat /\ s.line_start \in Nat
<1>1. Len(raw) \in Nat /\ s.line_start \in Nat
  BY LenProperties DEF Strings, HeaderGood
<1>2. QED
  BY <1>1, FindPair DEF Strings, LineEnd, Crlf

(* While the loop goes on, each line takes two characters at least; what it *)
(* has read is a header, or content follows.                                *)
Progress(raw, i, s) ==
  /\ HeaderGood(raw, 0, i, s)
  /\ s.req.parse_state \in {"headers", "content"}
  /\ Live(s) => s.line_start >= 2 * i + 2
  /\ s.done => s.req.parse_state = "headers"
  /\ s.req.chunked_content_len = 0

(* An iteration keeps Progress.                                             *)
LEMMA ProgressMade ==
  ASSUME NEW raw \in Strings, NEW i \in Nat, NEW s, Progress(raw, i, s)
  PROVE  Progress(raw, i + 1, HeaderLine(raw, s))
<1> DEFINE next == HeaderLine(raw, s)
<1>1. HeaderGood(raw, 0, i + 1, next)
  <2> DEFINE j == i + 1
  <2>1. HeaderGood(raw, 0, j - 1, s)
    BY DEF Progress, HeaderGood
  <2> HIDE DEF j
  <2>2. HeaderGood(raw, 0, j, next)
    BY <2>1, HeaderLineTyped
  <2>3. QED
    BY <2>2 DEF HeaderGood
<1>2. /\ {"req", "line_start", "parsed_up_to", "done"} \subseteq DOMAIN s
      /\ IsReq(s.req)
  BY DEF Progress, HeaderGood
<1>3. /\ LineEnd(raw, s) = NPos \/ LineEnd(raw, s) \in s.line_start .. Len(raw) - 2
      /\ Len(raw) \in Nat /\ s.line_start \in Nat
  BY LineEndPlace DEF Progress
<1>4. CASE ~Live(s)
  <2>1. next = s
    BY <1>4, HeaderLineCases
  <2>2. QED
    BY <1>1, <1>4, <2>1 DEF Progress
<1>5. CASE Live(s) /\ LineEnd(raw, s) = NPos
  <2>1. next = Waiting(s)
    BY <1>5, HeaderLineCases
  <2>2. next.req = s.req /\ next.done
    BY <1>2, <2>1 DEF Waiting
  <2> HIDE DEF next
  <2>3. QED
    BY <1>1, <1>5, <2>2 DEF Progress, Live, next
<1>6. CASE Live(s) /\ LineEnd(raw, s) # NPos /\ LineEnd(raw, s) = s.line_start
  <2>1. next = HeaderEnds(s, Past(raw, s))
    BY <1>6, HeaderLineCases
  <2>2. next.req = [s.req EXCEPT !.parse_state = "content"] /\ next.done = s.done
    BY <1>2, <2>1 DEF HeaderEnds
  <2>3. /\ next.req.parse_state = "content"
        /\ next.req.chunked_content_len = s.req.chunked_content_len
    BY <1>2, <2>2 DEF IsReq
  <2> HIDE DEF next
  <2>4. QED
    BY <1>1, <1>6, <2>2, <2>3 DEF Progress, Live, next
<1>7. CASE Live(s) /\ LineEnd(raw, s) # NPos /\ LineEnd(raw, s) # s.line_start
  <2> DEFINE line == Between(raw, s.line_start, LineEnd(raw, s))
  <2>1. next = WithLine(raw, s)
    BY <1>7, HeaderLineCases
  <2>2. /\ next.req = ParseFieldLine(line, s.req)
        /\ next.line_start = LineEnd(raw, s) + 2 /\ next.done = s.done
    BY <1>2, <2>1 DEF WithLine
  <2>3. line \in Strings
    <3>1. LineEnd(raw, s) \in Int /\ LineEnd(raw, s) <= Len(raw) /\ s.line_start \in Nat
      BY <1>3, <1>7, LenProperties DEF Strings
    <3>2. QED
      BY <3>1, BetweenTyped
  <2> HIDE DEF line
  <2>4. Grown(s.req, next.req)
    BY <1>2, <2>2, <2>3, FieldLineGrown
  <2>5. next.line_start >= 2 * (i + 1) + 2
    BY <1>3, <1>7, <2>2 DEF Progress
  <2> HIDE DEF next
  <2>6. QED
    BY <1>1, <1>7, <2>2, <2>4, <2>5 DEF Progress, Live, Grown, next
<1>8. QED
  BY <1>4, <1>5, <1>6, <1>7

(* The loop has as many iterations as it needs.                             *)
LEMMA HeaderLoopEnds ==
  ASSUME NEW raw \in Strings, NEW first, NEW f,
         HeaderLoop!IsRun(f, raw, 0, first, Len(raw)), Progress(raw, 0, first)
  PROVE  /\ \A i \in 0 .. Len(raw) : Progress(raw, i, f[i])
         /\ ~Live(f[Len(raw)])
<1>1. Len(raw) \in Nat
  BY LenProperties DEF Strings
<1> DEFINE S == {i \in Nat : i <= Len(raw) => Progress(raw, i, f[i])}
<1>2. 0 \in S
  BY DEF HeaderLoop!IsRun
<1>3. ASSUME NEW i \in Nat, i \in S PROVE i + 1 \in S
  <2> SUFFICES ASSUME i + 1 <= Len(raw) PROVE Progress(raw, i + 1, f[i + 1])
    OBVIOUS
  <2>1. Progress(raw, i, f[i]) /\ i + 1 \in 1 .. Len(raw) /\ (i + 1) - 1 = i
    BY <1>1, <1>3
  <2>2. f[i + 1] = HeaderLine(raw, f[i])
    BY <2>1 DEF HeaderLoop!IsRun, HeaderBody
  <2>3. QED
    BY <2>1, <2>2, ProgressMade
<1> HIDE DEF S
<1>4. Nat \subseteq S
  BY <1>2, <1>3, HeaderLoop!Induction
<1>5. \A i \in 0 .. Len(raw) : Progress(raw, i, f[i])
  BY <1>4 DEF S
<1>6. ASSUME Live(f[Len(raw)]) PROVE FALSE
  <2>1. Progress(raw, Len(raw), f[Len(raw)])
    BY <1>1, <1>5
  <2>2. f[Len(raw)].line_start >= 2 * Len(raw) + 2 /\ f[Len(raw)].line_start \in 0 .. Len(raw)
    BY <1>6, <2>1 DEF Progress, HeaderGood
  <2>3. QED
    BY <1>1, <2>2
<1>7. QED
  BY <1>5, <1>6

(* The loops over a text and over the beginning of it: they agree until the *)
(* beginning has been read, as far as it goes, or its header is known to be *)
(* all there is of it.                                                      *)
Agree(raw1, f, g, n, i) ==
  \/ ~f[i].done /\ f[i] = g[i]
  \/ \E k \in 0 .. n : Live(f[k]) /\ f[k] = g[k] /\ f[i] = Waiting(f[k])
  \/ f[i].req.parse_state = "content" /\ After(raw1, f[i].parsed_up_to) = Crlf

(* What is left of a text that ends with the empty line of its header.      *)
LEMMA AfterIsCrlf ==
  ASSUME NEW raw \in Strings, NEW at \in Nat, at + 2 = Len(raw),
         raw[at + 1] = "CR", raw[at + 2] = "LF"
  PROVE  After(raw, at) = Crlf
<1> DEFINE rest == After(raw, at)
<1>1. /\ rest \in Seq(Symbols)
      /\ Len(rest) = IF at <= Len(raw) THEN Len(raw) - at ELSE 0
      /\ \A i \in 1 .. Len(raw) - at : rest[i] = raw[at + i]
  BY AfterProperties DEF Strings
<1>2. Len(raw) \in Nat
  BY LenProperties DEF Strings
<1> HIDE DEF rest
<1>3. Len(rest) = 2 /\ rest[1] = "CR" /\ rest[2] = "LF"
  BY <1>1, <1>2
<1>4. rest = <<"CR", "LF">>
  BY <1>1, <1>3
<1>5. QED
  BY <1>4 DEF rest, Crlf

(* An iteration of both loops keeps the agreement.                          *)
LEMMA AgreementKept ==
  ASSUME NEW raw1 \in Strings, NEW raw2 \in Strings, Begins(raw1, raw2),
         NEW f, NEW g, NEW n \in Nat, NEW i \in 0 .. n - 1,
         f[i + 1] = HeaderLine(raw1, f[i]), g[i + 1] = HeaderLine(raw2, g[i]),
         HeaderGood(raw1, 0, i, f[i]),
         Agree(raw1, f, g, n, i)
  PROVE  Agree(raw1, f, g, n, i + 1)
<1> DEFINE s == f[i]
           end == LineEnd(raw1, s)
<1>1. /\ {"req", "line_start", "parsed_up_to", "done"} \subseteq DOMAIN s
      /\ IsReq(s.req) /\ s.line_start \in Nat /\ s.line_start <= Len(raw1)
      /\ Len(raw1) \in Nat /\ Len(raw2) \in Nat /\ Len(raw1) <= Len(raw2)
  BY LenProperties DEF HeaderGood, Strings, Begins
<1>2. end = NPos \/ end \in s.line_start .. Len(raw1) - 2
  BY LineEndPlace
<1>3. CASE ~Live(s) \/ s.done
  <2>1. ~Live(s)
    BY <1>3 DEF Live
  <2>2. f[i + 1] = s
    BY <2>1, HeaderLineCases
  <2>3. s = g[i] => g[i + 1] = s
    BY <2>1, HeaderLineCases
  <2>4. QED
    BY <2>2, <2>3 DEF Agree
<1>4. CASE s.req.parse_state = "content"
  BY <1>3, <1>4 DEF Live
<1>5. CASE Live(s) /\ s.req.parse_state # "content"
  <2>1. ~s.done
    BY <1>5 DEF Live
  <2>2. \A k : ~(s = Waiting(f[k]) /\ Live(f[k]) /\ f[k] = g[k] /\ "done" \in DOMAIN f[k])
    BY <2>1 DEF Waiting
  <2>3. \A k : s = Waiting(f[k]) => "done" \in DOMAIN f[k]
    BY <1>1 DEF Waiting
  <2>4. s = g[i]
    BY <1>5, <2>2, <2>3 DEF Agree
  <2>5. CASE end = NPos
    <3>1. f[i + 1] = Waiting(s)
      BY <1>5, <2>5, HeaderLineCases
    <3>2. i \in 0 .. n
      OBVIOUS
    <3>3. QED
      BY <1>5, <2>4, <3>1, <3>2 DEF Agree
  <2>6. CASE end # NPos
    <3>1. LineEnd(raw2, s) = end
      BY <1>1, <2>6, PairKept DEF LineEnd, Crlf
    <3>2. CASE end = s.line_start
      <4>1. f[i + 1] = HeaderEnds(s, Past(raw1, s)) /\ g[i + 1] = HeaderEnds(s, Past(raw2, s))
        BY <1>5, <2>4, <2>6, <3>1, <3>2, HeaderLineCases
      <4>2. \A past : HeaderEnds(s, past).done = s.done
        BY <1>1 DEF HeaderEnds
      <4>3. CASE s.line_start + 2 < Len(raw1)
        <5>1. Past(raw1, s) = 2 /\ Past(raw2, s) = 2
          BY <1>1, <4>3 DEF Past
        <5>2. QED
          BY <2>1, <4>1, <4>2, <5>1 DEF Agree
      <4>4. CASE ~(s.line_start + 2 < Len(raw1))
        <5>1. Past(raw1, s) = 0 /\ s.line_start + 0 = s.line_start
          BY <1>1, <4>4 DEF Past
        <5>2. /\ f[i + 1].req = [s.req EXCEPT !.parse_state = "content"]
              /\ f[i + 1].parsed_up_to = s.line_start
          BY <1>1, <4>1, <5>1 DEF HeaderEnds
        <5>3. f[i + 1].req.parse_state = "content"
          BY <1>1, <5>2 DEF IsReq
        <5>4. s.line_start + 2 = Len(raw1)
          BY <1>1, <1>2, <2>6, <3>2, <4>4
        <5>5. raw1[s.line_start + 1] = "CR" /\ raw1[s.line_start + 2] = "LF"
          <6>1. PairAt(raw1, "CR", "LF", s.line_start, end)
            BY <1>1, <2>6, FoundPair DEF LineEnd, Crlf
          <6>2. QED
            BY <3>2, <6>1 DEF PairAt
        <5>6. After(raw1, s.line_start) = Crlf
          BY <1>1, <5>4, <5>5, AfterIsCrlf
        <5>7. QED
          BY <5>2, <5>3, <5>6 DEF Agree
      <4>5. QED
        BY <4>3, <4>4
    <3>3. CASE end # s.line_start
      <4>1. f[i + 1] = WithLine(raw1, s) /\ g[i + 1] = WithLine(raw2, s)
        BY <1>5, <2>4, <2>6, <3>1, <3>3, HeaderLineCases
      <4>2. Between(raw2, s.line_start, end) = Between(raw1, s.line_start, end)
        <5>1. end \in Int /\ end <= Len(raw1)
          BY <1>1, <1>2, <2>6
        <5>2. QED
          BY <1>1, <5>1, BetweenKept
      <4>3. WithLine(raw1, s) = WithLine(raw2, s)
        BY <3>1, <4>2 DEF WithLine
      <4>4. WithLine(raw1, s).done = s.done
        BY <1>1 DEF WithLine
      <4>5. QED
        BY <2>1, <4>1, <4>3, <4>4 DEF Agree
    <3>4. QED
      BY <3>2, <3>3
  <2>7. QED
    BY <2>5, <2>6
<1>6. QED
  BY <1>3, <1>4, <1>5

(* The loops over both texts from the same start.                           *)
LEMMA LoopsAgree ==
  ASSUME NEW raw1 \in Strings, NEW raw2 \in Strings, Begins(raw1, raw2),
         NEW first, NEW f, NEW g,
         HeaderLoop!IsRun(f, raw1, 0, first, Len(raw1)),
         HeaderLoop!IsRun(g, raw2, 0, first, Len(raw2)),
         Progress(raw1, 0, first), ~first.done
  PROVE  Agree(raw1, f, g, Len(raw1), Len(raw1))
<1> DEFINE n == Len(raw1)
           S == {i \in Nat : i <= n => Agree(raw1, f, g, n, i)}
<1>1. n \in Nat /\ Len(raw2) \in Nat /\ n <= Len(raw2)
  BY LenProperties DEF Strings, Begins
<1>2. \A i \in 0 .. n : Progress(raw1, i, f[i])
  BY HeaderLoopEnds
<1>3. 0 \in S
  BY DEF HeaderLoop!IsRun, Agree
<1>4. ASSUME NEW i \in Nat, i \in S PROVE i + 1 \in S
  <2> SUFFICES ASSUME i + 1 <= n PROVE Agree(raw1, f, g, n, i + 1)
    OBVIOUS
  <2>1. /\ Agree(raw1, f, g, n, i) /\ i \in 0 .. n - 1
        /\ i + 1 \in 1 .. n /\ i + 1 \in 1 .. Len(raw2) /\ (i + 1) - 1 = i
    BY <1>1, <1>4
  <2>2. f[i + 1] = HeaderLine(raw1, f[i]) /\ g[i + 1] = HeaderLine(raw2, g[i])
    BY <2>1 DEF HeaderLoop!IsRun, HeaderBody
  <2>3. HeaderGood(raw1, 0, i, f[i])
    BY <1>2, <2>1 DEF Progress
  <2> HIDE DEF n
  <2>4. QED
    BY <1>1, <2>1, <2>2, <2>3, AgreementKept
<1> HIDE DEF S
<1>5. Nat \subseteq S
  BY <1>3, <1>4, HeaderLoop!Induction
<1>6. QED
  BY <1>1, <1>5 DEF S

(* Two states of the loop that differ only in what the loop returns if it   *)
(* fails.                                                                   *)
Alike(s, t) ==
  /\ s.req = t.req /\ s.line_start = t.line_start /\ (s.done <=> t.done)
  /\ Live(s) \/ HasErr(s.req) \/ s.parsed_up_to = t.parsed_up_to

(* They stay so.                                                            *)
LEMMA AlikeKept ==
  ASSUME NEW raw \in Strings, NEW s, NEW t,
         HeaderGood(raw, 0, 0, s), HeaderGood(raw, 0, 0, t), Alike(s, t)
  PROVE  Alike(HeaderLine(raw, s), HeaderLine(raw, t))
<1>1. /\ {"req", "line_start", "parsed_up_to", "done"} \subseteq DOMAIN s
      /\ {"req", "line_start", "parsed_up_to", "done"} \subseteq DOMAIN t
  BY DEF HeaderGood
<1>2. Live(s) <=> Live(t)
  BY DEF Alike, Live
<1>3. LineEnd(raw, t) = LineEnd(raw, s) /\ Past(raw, t) = Past(raw, s)
  BY DEF Alike, LineEnd, Past
<1>4. CASE ~Live(s)
  BY <1>2, <1>4, HeaderLineCases
<1>5. CASE Live(s) /\ LineEnd(raw, s) = NPos
  <2>1. HeaderLine(raw, s) = Waiting(s) /\ HeaderLine(raw, t) = Waiting(t)
    BY <1>2, <1>3, <1>5, HeaderLineCases
  <2>2. Alike(Waiting(s), Waiting(t))
    BY <1>1 DEF Alike, Waiting
  <2>3. QED
    BY <2>1, <2>2
<1>6. CASE Live(s) /\ LineEnd(raw, s) # NPos /\ LineEnd(raw, s) = s.line_start
  <2> DEFINE past == Past(raw, s)
  <2>1. HeaderLine(raw, s) = HeaderEnds(s, past) /\ HeaderLine(raw, t) = HeaderEnds(t, past)
    BY <1>2, <1>3, <1>6, HeaderLineCases DEF Alike
  <2> HIDE DEF past
  <2>2. Alike(HeaderEnds(s, past), HeaderEnds(t, past))
    BY <1>1 DEF Alike, HeaderEnds
  <2>3. QED
    BY <2>1, <2>2
<1>7. CASE Live(s) /\ LineEnd(raw, s) # NPos /\ LineEnd(raw, s) # s.line_start
  <2>1. HeaderLine(raw, s) = WithLine(raw, s) /\ HeaderLine(raw, t) = WithLine(raw, t)
    BY <1>2, <1>3, <1>7, HeaderLineCases DEF Alike
  <2> DEFINE field == ParseFieldLine(Between(raw, s.line_start, LineEnd(raw, s)), s.req)
             next == LineEnd(raw, s) + 2
  <2>2. /\ WithLine(raw, s) = [s EXCEPT !.req = field, !.line_start = next]
        /\ WithLine(raw, t) = [t EXCEPT !.req = field, !.line_start = next]
    BY <1>3 DEF WithLine, Alike
  <2>3. field.parse_state = "headers"
    <3>1. LineEnd(raw, s) \in Int /\ LineEnd(raw, s) <= Len(raw) /\ s.line_start \in Nat
      BY <1>7, LineEndPlace, LenProperties DEF Strings
    <3>2. Grown(s.req, field)
      BY <3>1, BetweenTyped, FieldLineGrown DEF HeaderGood
    <3>3. QED
      BY <1>7, <3>2 DEF Grown, Live
  <2> HIDE DEF field, next
  <2>4. Alike(WithLine(raw, s), WithLine(raw, t))
    BY <1>1, <1>7, <2>2, <2>3 DEF Alike, Live
  <2>5. QED
    BY <2>1, <2>4
<1>8. QED
  BY <1>4, <1>5, <1>6, <1>7

(* A loop that starts from a state of another ends as that does.            *)
LEMMA LoopResumed ==
  ASSUME NEW raw \in Strings, NEW first, NEW g, NEW again, NEW h,
         HeaderLoop!IsRun(g, raw, 0, first, Len(raw)), Progress(raw, 0, first),
         HeaderLoop!IsRun(h, raw, 0, again, Len(raw)), HeaderGood(raw, 0, 0, again),
         NEW k \in 0 .. Len(raw), Alike(again, g[k])
  PROVE  Alike(h[Len(raw)], g[Len(raw)])
<1> DEFINE n == Len(raw)
           S == {j \in Nat : k + j <= n => Alike(h[j], g[k + j]) /\ HeaderGood(raw, 0, 0, h[j])}
<1>1. n \in Nat
  BY LenProperties DEF Strings
<1>2. (\A i \in 0 .. n : Progress(raw, i, g[i])) /\ ~Live(g[n])
  BY HeaderLoopEnds
<1>3. 0 \in S
  BY DEF HeaderLoop!IsRun
<1>4. ASSUME NEW j \in Nat, j \in S PROVE j + 1 \in S
  <2> SUFFICES ASSUME k + (j + 1) <= n
               PROVE  Alike(h[j + 1], g[k + (j + 1)]) /\ HeaderGood(raw, 0, 0, h[j + 1])
    OBVIOUS
  <2>1. /\ Alike(h[j], g[k + j]) /\ HeaderGood(raw, 0, 0, h[j]) /\ k + j \in 0 .. n
        /\ k + (j + 1) \in 1 .. n /\ (k + (j + 1)) - 1 = k + j
        /\ j + 1 \in 1 .. n /\ (j + 1) - 1 = j
    BY <1>1, <1>4
  <2>2. /\ g[k + (j + 1)] = HeaderLine(raw, g[k + j])
        /\ h[j + 1] = HeaderLine(raw, h[j])
    BY <2>1 DEF HeaderLoop!IsRun, HeaderBody
  <2>3. HeaderGood(raw, 0, 0, g[k + j])
    BY <1>2, <2>1 DEF Progress, HeaderGood
  <2>4. HeaderGood(raw, 0, 0, HeaderLine(raw, h[j]))
    <3>1. HeaderGood(raw, 0, 1 - 1, h[j])
      BY <2>1 DEF HeaderGood
    <3>2. HeaderGood(raw, 0, 1, HeaderLine(raw, h[j]))
      BY <3>1, HeaderLineTyped
    <3>3. QED
      BY <3>2 DEF HeaderGood
  <2>5. QED
    BY <2>1, <2>2, <2>3, <2>4, AlikeKept
<1> HIDE DEF S
<1>5. Nat \subseteq S
  BY <1>3, <1>4, HeaderLoop!Induction
<1>6. n - k \in Nat /\ k + (n - k) = n /\ n - k \in 0 .. n
  BY <1>1
<1>7. Alike(h[n - k], g[n])
  BY <1>1, <1>5, <1>6 DEF S
<1>8. ~Live(h[n - k])
  BY <1>2, <1>7 DEF Alike, Live
<1>9. \A i \in 1 .. n : HeaderBody(raw, 0, i, h[n - k]) = h[n - k]
  BY <1>8, HeaderLineCases DEF HeaderBody
<1> DEFINE m == n - k
<1>10. m \in 0 .. n /\ \A i \in 1 .. n : HeaderBody(raw, 0, i, h[m]) = h[m]
  BY <1>6, <1>9
<1>11. HeaderLoop!IsRun(h, raw, 0, again, n)
  OBVIOUS
<1> HIDE DEF m, n
<1>12. h[n] = h[m]
  BY <1>1, <1>10, <1>11, HeaderLoop!RunSettles
<1>13. QED
  BY <1>7, <1>12 DEF m, n

(* HeaderLines is the end of such a loop.                                   *)
LineState(q, from, at) == [req |-> q, line_start |-> from, parsed_up_to |-> at, done |-> FALSE]

(* So its states can be spoken of.                                          *)
LEMMA HeaderRun ==
  ASSUME NEW raw \in Strings, NEW q, NEW from, NEW at
  PROVE  \E f : /\ HeaderLoop!IsRun(f, raw, 0, LineState(q, from, at), Len(raw))
                /\ HeaderLines(raw, q, from, at) = f[Len(raw)]
<1> DEFINE first == LineState(q, from, at)
           n == Len(raw)
<1>1. HeaderLines(raw, q, from, at) = HeaderLoop!Iterate(raw, 0, first, n)
  BY Zenon DEF HeaderLines, Loop, HeaderLoop!Iterate, HeaderLoop!StatesOf,
               HeaderLoop!Once, HeaderBody, Only, HeaderLoop!Only, LineState
<1>2. n \in Nat
  BY LenProperties DEF Strings
<1> HIDE DEF first, n
<1>3. PICK f : HeaderLoop!IsRun(f, raw, 0, first, n)
  BY <1>2, HeaderLoop!States, Zenon
<1>4. HeaderLoop!Iterate(raw, 0, first, n) = f[n]
  BY <1>3 DEF HeaderLoop!IsRun
<1>5. QED
  BY <1>1, <1>3, <1>4 DEF first, n

(* The lines of a header, of which some have been read before, and of one   *)
(* that has been read to its end.                                           *)
LEMMA HeaderLinesResumed ==
  ASSUME NEW raw1 \in Strings, NEW raw2 \in Strings, Begins(raw1, raw2),
         NEW q, IsReq(q), q.parse_state = "headers", q.chunked_content_len = 0,
         NEW from \in 2 .. Len(raw1)
  PROVE  LET h1 == HeaderLines(raw1, q, from, 0)
             h2 == HeaderLines(raw2, q, from, 0)
             again == HeaderLines(raw2, h1.req, h1.parsed_up_to, h1.parsed_up_to)
         IN /\ h1.req.parse_state \in {"headers", "content"}
            /\ h1.req.chunked_content_len = 0
            /\ ~HasErr(h1.req) /\ h1.req.parse_state = "content"
               /\ After(raw1, h1.parsed_up_to) # Crlf =>
                 h2.req = h1.req /\ h2.parsed_up_to = h1.parsed_up_to
            /\ ~HasErr(h1.req) /\ h1.req.parse_state = "headers" =>
                 /\ again.req = h2.req
                 /\ HasErr(h2.req) \/ again.parsed_up_to = h2.parsed_up_to
<1> DEFINE h1 == HeaderLines(raw1, q, from, 0)
           h2 == HeaderLines(raw2, q, from, 0)
           again == HeaderLines(raw2, h1.req, h1.parsed_up_to, h1.parsed_up_to)
           first == LineState(q, from, 0)
           second == LineState(h1.req, h1.parsed_up_to, h1.parsed_up_to)
           n1 == Len(raw1)
           n2 == Len(raw2)
<1>1. n1 \in Nat /\ n2 \in Nat /\ n1 <= n2
  BY LenProperties DEF Strings, Begins
<1>2. PICK f : HeaderLoop!IsRun(f, raw1, 0, first, n1) /\ h1 = f[n1]
  BY HeaderRun
<1>3. PICK g : HeaderLoop!IsRun(g, raw2, 0, first, n2) /\ h2 = g[n2]
  BY HeaderRun
<1>4. PICK h : HeaderLoop!IsRun(h, raw2, 0, second, n2) /\ again = h[n2]
  BY HeaderRun
<1>5. Progress(raw1, 0, first) /\ Progress(raw2, 0, first) /\ ~first.done
  BY <1>1 DEF Progress, HeaderGood, LineState
<1> HIDE DEF h1, h2, again, first, second
<1>6. (\A i \in 0 .. n1 : Progress(raw1, i, f[i])) /\ ~Live(f[n1])
  BY <1>2, <1>5, HeaderLoopEnds
<1>7. (\A i \in 0 .. n2 : Progress(raw2, i, g[i])) /\ ~Live(g[n2])
  BY <1>3, <1>5, HeaderLoopEnds
<1>8. Agree(raw1, f, g, n1, n1)
  BY <1>2, <1>3, <1>5, LoopsAgree
<1>9. Progress(raw1, n1, h1)
  BY <1>1, <1>2, <1>6
<1>10. ASSUME ~HasErr(h1.req), h1.req.parse_state = "content",
              After(raw1, h1.parsed_up_to) # Crlf
       PROVE  h2 = h1
  <2>1. ~h1.done
    BY <1>9, <1>10 DEF Progress
  <2>2. ASSUME NEW k \in 0 .. n1, Live(f[k]), f[n1] = Waiting(f[k]) PROVE FALSE
    <3>1. {"req", "parsed_up_to", "done"} \subseteq DOMAIN f[k]
      BY <1>6 DEF Progress, HeaderGood
    <3>2. f[n1].done
      BY <2>2, <3>1 DEF Waiting
    <3>3. QED
      BY <1>2, <2>1, <3>2
  <2>3. g[n1] = h1
    BY <1>2, <1>8, <1>10, <2>2 DEF Agree
  <2>4. n1 \in 0 .. n2
    BY <1>1
  <2>5. ~Live(g[n1])
    BY <1>2, <1>6, <2>3
  <2>6. \A i \in 1 .. n2 : HeaderBody(raw2, 0, i, g[n1]) = g[n1]
    BY <2>5, HeaderLineCases DEF HeaderBody
  <2> HIDE DEF n1, n2
  <2>7. g[n2] = g[n1]
    BY <1>1, <1>3, <2>4, <2>6, HeaderLoop!RunSettles
  <2>8. QED
    BY <1>3, <2>3, <2>7
<1>11. ASSUME ~HasErr(h1.req), h1.req.parse_state = "headers"
       PROVE  Alike(again, h2)
  <2>1. h1.done
    BY <1>2, <1>6, <1>11 DEF Live
  <2>2. PICK k \in 0 .. n1 : Live(f[k]) /\ f[k] = g[k] /\ f[n1] = Waiting(f[k])
    BY <1>2, <1>8, <1>11, <2>1 DEF Agree
  <2>3. k \in 0 .. n2 /\ HeaderGood(raw2, 0, k, g[k])
    BY <1>1, <1>7 DEF Progress
  <2>4. h1.req = g[k].req /\ h1.parsed_up_to = g[k].line_start
    BY <1>2, <2>2, <2>3 DEF Waiting, HeaderGood
  <2>5. Alike(second, g[k])
    BY <2>2, <2>4 DEF Alike, Live, second, LineState
  <2>6. HeaderGood(raw2, 0, 0, second)
    BY <2>3, <2>4 DEF HeaderGood, second, LineState
  <2>7. Alike(h[n2], g[n2])
    BY <1>3, <1>4, <1>5, <2>3, <2>5, <2>6, LoopResumed
  <2>8. QED
    BY <1>3, <1>4, <2>7
<1>12. ASSUME ~HasErr(h1.req), h1.req.parse_state = "headers"
       PROVE  again.req = h2.req /\ (HasErr(h2.req) \/ again.parsed_up_to = h2.parsed_up_to)
  <2>1. Alike(again, h2) /\ ~Live(h2)
    BY <1>3, <1>7, <1>11, <1>12
  <2>2. ~Live(again) /\ again.req = h2.req
    BY <2>1 DEF Alike, Live
  <2>3. QED
    BY <2>1, <2>2 DEF Alike
<1>13. QED
  BY <1>9, <1>10, <1>12 DEF Progress, h1, h2, again

(* A request that is refused stays so.                                      *)
LEMMA HeaderLinesFailed ==
  ASSUME NEW raw \in Strings, NEW q, HasErr(q), NEW from, NEW at
  PROVE  HasErr(HeaderLines(raw, q, from, at).req)
<1> DEFINE n == Len(raw)
           first == LineState(q, from, at)
<1>1. PICK f : HeaderLoop!IsRun(f, raw, 0, first, n) /\ HeaderLines(raw, q, from, at) = f[n]
  BY HeaderRun
<1>2. n \in Nat /\ 0 \in 0 .. n
  BY LenProperties DEF Strings
<1>3. f[0] = first /\ first.req = q
  BY <1>1 DEF HeaderLoop!IsRun, LineState
<1>4. \A i \in 1 .. n : HeaderBody(raw, 0, i, f[0]) = f[0]
  BY <1>3, HeaderLineCases DEF HeaderBody, Live
<1> HIDE DEF n, first
<1>5. f[n] = f[0]
  BY <1>1, <1>2, <1>4, HeaderLoop!RunSettles
<1>6. QED
  BY <1>1, <1>3, <1>5

(* The first stage on a new request.                                        *)
LEMMA FirstHead ==
  ASSUME NEW raw \in Strings, Find(raw, Crlf, 0) # NPos
  PROVE  HeadStage(raw, NewReq, 0) =
           HeaderLines(raw, ParseReqLine(Between(raw, 0, Find(raw, Crlf, 0)), NewReq),
                       Find(raw, Crlf, 0) + 2, 0)
<1> DEFINE line_end == Find(raw, Crlf, 0)
           line == Between(raw, 0, line_end)
           Result(q) == HeaderLines(raw, q, line_end + 2, 0)
           q1 == ParseReqLine(line, NewReq)
<1>1. NewReq.parse_state = "start_line" /\ IsParsingHeaders(NewReq)
  BY DEF NewReq, IsParsingHeaders, HasErr
<1>2. HeadStage(raw, NewReq, 0) = ParseHeaders(raw, NewReq, 0)
  BY <1>1, Zenon DEF HeadStage
<1>3. ParseHeaders(raw, NewReq, 0) =
        IF NewReq.parse_state # "start_line" THEN HeaderLines(raw, NewReq, 0, 0)
        ELSE IF line_end = NPos THEN [req |-> Fail(NewReq, "400"), parsed_up_to |-> 0]
        ELSE Only({Result(q) : q \in {ParseReqLine(l, NewReq) : l \in {line}}})
  BY Zenon DEF ParseHeaders
<1>4. {Result(q) : q \in {ParseReqLine(l, NewReq) : l \in {line}}} = {Result(q1)}
  OBVIOUS
<1>5. Only({Result(q) : q \in {ParseReqLine(l, NewReq) : l \in {line}}}) = Result(q1)
  BY <1>4, OnlyOne
<1>6. HeadStage(raw, NewReq, 0) = Result(q1)
  <2> HIDE DEF Result, q1
  <2>1. QED
    BY <1>1, <1>2, <1>3, <1>5
<1>7. QED
  BY <1>6

(* Without the end of the request line it fails.                            *)
LEMMA NoFirstLine ==
  ASSUME NEW raw, Find(raw, Crlf, 0) = NPos
  PROVE  HasErr(HeadStage(raw, NewReq, 0).req)
<1>1. NewReq.parse_state = "start_line" /\ IsParsingHeaders(NewReq)
  BY DEF NewReq, IsParsingHeaders, HasErr
<1>2. HeadStage(raw, NewReq, 0) = ParseHeaders(raw, NewReq, 0)
  BY <1>1, Zenon DEF HeadStage
<1>3. ParseHeaders(raw, NewReq, 0) = [req |-> Fail(NewReq, "400"), parsed_up_to |-> 0]
  BY <1>1, Zenon DEF ParseHeaders
<1>4. HasErr(Fail(NewReq, "400"))
  BY FailGrown, NewReqTyped
<1>5. QED
  BY <1>2, <1>3, <1>4

(* The first stage on a text, after it was run on the beginning of it.      *)
LEMMA HeadResumed ==
  ASSUME NEW raw1 \in Strings, NEW raw2 \in Strings, Begins(raw1, raw2),
         ~HasErr(HeadStage(raw1, NewReq, 0).req)
  PROVE  LET head1 == HeadStage(raw1, NewReq, 0)
             head2 == HeadStage(raw2, NewReq, 0)
             again == HeadStage(raw2, head1.req, head1.parsed_up_to)
         IN /\ head1.req.parse_state \in {"headers", "content"}
            /\ head1.req.chunked_content_len = 0
            /\ ~IsParsingHeaders(head1.req) /\ After(raw1, head1.parsed_up_to) # Crlf =>
                 head2.req = head1.req /\ head2.parsed_up_to = head1.parsed_up_to
            /\ IsParsingHeaders(head1.req) =>
                 /\ again.req = head2.req
                 /\ HasErr(head2.req) \/ again.parsed_up_to = head2.parsed_up_to
<1> DEFINE head1 == HeadStage(raw1, NewReq, 0)
           head2 == HeadStage(raw2, NewReq, 0)
           again == HeadStage(raw2, head1.req, head1.parsed_up_to)
           end == Find(raw1, Crlf, 0)
           line == Between(raw1, 0, end)
           q == ParseReqLine(line, NewReq)
           from == end + 2
<1>1. Len(raw1) \in Nat /\ Len(raw2) \in Nat /\ Len(raw1) <= Len(raw2)
  BY LenProperties DEF Strings, Begins
<1>2. end # NPos
  BY NoFirstLine
<1>3. Find(raw2, Crlf, 0) = end
  BY <1>2, PairKept DEF Crlf
<1>4. end \in 0 .. Len(raw1) - 2
  BY <1>1, <1>2, FindPair DEF Strings, Crlf
<1>5. Between(raw2, 0, end) = line
  <2> HIDE DEF end
  <2>1. end \in Int /\ end <= Len(raw1)
    BY <1>1, <1>4
  <2>2. QED
    BY <2>1, BetweenKept
<1>6. head1 = HeaderLines(raw1, q, from, 0) /\ head2 = HeaderLines(raw2, q, from, 0)
  BY <1>2, <1>3, <1>5, FirstHead
<1>7. from \in 2 .. Len(raw1)
  BY <1>1, <1>4
<1>8. IsReq(q)
  BY NewReqTyped, ReqLineTyped
<1>9. q.chunked_content_len = 0 /\ (HasErr(q) \/ q.parse_state = "headers")
  <2>1. NewReq.chunked_content_len = 0
    BY DEF NewReq
  <2>2. QED
    BY <2>1, NewReqTyped, ReqLineGrown
<1> HIDE DEF head2, from, q, line, end
<1>10. ~HasErr(q)
  BY <1>6, HeaderLinesFailed
<1>11. q.parse_state = "headers"
  BY <1>9, <1>10
<1> DEFINE next == HeaderLines(raw2, head1.req, head1.parsed_up_to, head1.parsed_up_to)
<1>12. /\ head1.req.parse_state \in {"headers", "content"}
       /\ head1.req.chunked_content_len = 0
       /\ ~HasErr(head1.req) /\ head1.req.parse_state = "content"
          /\ After(raw1, head1.parsed_up_to) # Crlf =>
            head2.req = head1.req /\ head2.parsed_up_to = head1.parsed_up_to
       /\ ~HasErr(head1.req) /\ head1.req.parse_state = "headers" =>
            /\ next.req = head2.req
            /\ HasErr(head2.req) \/ next.parsed_up_to = head2.parsed_up_to
  BY <1>6, <1>7, <1>8, <1>9, <1>11, HeaderLinesResumed
<1>13. IsParsingHeaders(head1.req) <=> head1.req.parse_state = "headers"
  BY <1>12 DEF IsParsingHeaders
<1>14. head1.req.parse_state = "headers" => again = next
  BY <1>13, Zenon DEF HeadStage, ParseHeaders
<1> HIDE DEF head1, again, next
<1>15. ~HasErr(head1.req)
  BY DEF head1
<1>16. /\ head1.req.parse_state \in {"headers", "content"}
       /\ head1.req.chunked_content_len = 0
       /\ ~IsParsingHeaders(head1.req) /\ After(raw1, head1.parsed_up_to) # Crlf =>
            head2.req = head1.req /\ head2.parsed_up_to = head1.parsed_up_to
       /\ IsParsingHeaders(head1.req) =>
            /\ again.req = head2.req
            /\ HasErr(head2.req) \/ again.parsed_up_to = head2.parsed_up_to
  BY <1>12, <1>13, <1>14, <1>15
<1>17. QED
  BY <1>16 DEF head1, head2, again

-----------------------------------------------------------------------------
(* The number a word stands for, and a text that starts with one.           *)
HexOf(word) == IF word \in DOMAIN HexDigits THEN HexDigits[word] ELSE 0

(* The number read is that of the first word.                               *)
LEMMA HexOfFirst ==
  ASSUME NEW text, Len(text) \in Nat, Len(text) > 0,
         text[1] \notin {"CR", "LF", "SP"}
  PROVE  ReadHex(text) = HexOf(text[1])
<1> DEFINE word == {i \in 1 .. Len(text) : text[i] \notin {"CR", "LF", "SP"}}
<1>1. 1 \in word /\ word \in SUBSET Nat /\ \A i \in word : 1 <= i
  OBVIOUS
<1> DEFINE Number(t) ==
             LET places == {i \in 1 .. Len(t) : t[i] \notin {"CR", "LF", "SP"}}
             IN IF places # {} /\ t[Min(places)] \in DOMAIN HexDigits
                THEN HexDigits[t[Min(places)]]
                ELSE 0
<1>0. ReadHex(text) = Only({Number(t) : t \in {text}})
  BY Zenon DEF ReadHex
<1>2. ReadHex(text) =
        IF word # {} /\ text[Min(word)] \in DOMAIN HexDigits
        THEN HexDigits[text[Min(word)]] ELSE 0
  <2>1. Number(text) =
          IF word # {} /\ text[Min(word)] \in DOMAIN HexDigits
          THEN HexDigits[text[Min(word)]] ELSE 0
    BY Zenon
  <2> HIDE DEF Number
  <2>2. {Number(t) : t \in {text}} = {Number(text)}
    OBVIOUS
  <2>3. QED
    BY <1>0, <2>1, <2>2, OnlyOne
<1> HIDE DEF word, Number
<1>3. Min(word) \in word /\ \A i \in word : Min(word) <= i
  BY <1>1, MinOfNumbers
<1>4. Min(word) = 1
  <2> DEFINE least == Min(word)
  <2>1. least \in Nat /\ 1 <= least /\ least <= 1
    BY <1>1, <1>3
  <2> HIDE DEF least
  <2>2. least = 1
    BY <2>1
  <2>3. QED
    BY <2>2 DEF least
<1>5. QED
  BY <1>1, <1>2, <1>4 DEF HexOf

(* Find finds a space, or there is none.                                    *)
LEMMA FoundSpace ==
  ASSUME NEW raw \in Strings, NEW from \in Nat
  PROVE  LET found == Find(raw, <<"SP">>, from)
         IN found = NPos \/ (found \in from .. Len(raw) - 1 /\ raw[found + 1] = "SP")
BY FindToken DEF Strings

(* The header of a chunk in the beginning raw of a content whose chunks are *)
(* plain: there is no space in it, and it says how long the chunk is.       *)
LEMMA PlainHeader ==
  ASSUME NEW raw \in Strings, NEW content \in Strings, Begins(raw, content),
         NEW starts, NEW p \in Nat, PlainChunk(content, p, starts)
  PROVE  LET header_end == Find(raw, Crlf, p)
             space == Find(raw, <<"SP">>, p)
             size_end == IF space = NPos THEN header_end ELSE space
             size == HexOf(raw[p + 1])
         IN /\ header_end = NPos => size_end = NPos
            /\ header_end # NPos =>
                 /\ header_end \in p + 1 .. Len(raw) - 2
                 /\ size_end # NPos
                 /\ ReadHex(Between(raw, p, size_end)) = size
                 /\ Find(content, Crlf, p) = header_end
                 /\ content[p + 1] = raw[p + 1]
                 /\ size > 0 => header_end + 2 + size + 2 \in starts
<1> DEFINE header_end == Find(raw, Crlf, p)
           space == Find(raw, <<"SP">>, p)
           size_end == IF space = NPos THEN header_end ELSE space
           size == HexOf(raw[p + 1])
           full_end == Find(content, Crlf, p)
           header == IF full_end = NPos THEN After(content, p)
                     ELSE Between(content, p, full_end)
<1>1. Len(raw) \in Nat /\ Len(content) \in Nat /\ Len(raw) <= Len(content)
  BY LenProperties DEF Strings, Begins
<1>2. /\ \A i \in 1 .. Len(header) : header[i] # "SP"
      /\ full_end # NPos =>
           /\ header # <<>> /\ header[1] \notin {"CR", "LF"}
           /\ ReadHex(header) > 0 => full_end + 2 + ReadHex(header) + 2 \in starts
  BY DEF PlainChunk
<1>3. \/ full_end = NPos
      \/ PairAt(content, "CR", "LF", p, full_end)
  BY FoundPair DEF Crlf
<1>4. \/ header_end = NPos /\ NoPair(raw, "CR", "LF", p)
      \/ PairAt(raw, "CR", "LF", p, header_end)
  BY FoundPair DEF Crlf
<1>5. space = NPos \/ (space \in p .. Len(raw) - 1 /\ raw[space + 1] = "SP")
  BY FoundSpace
<1>6. header_end # NPos => full_end = header_end
  BY PairKept DEF Crlf
<1>7. full_end = NPos =>
        /\ Len(header) = IF p <= Len(content) THEN Len(content) - p ELSE 0
        /\ \A i \in 1 .. Len(content) - p : header[i] = content[p + i]
  BY AfterProperties DEF Strings
<1>8. full_end # NPos =>
        /\ header \in Seq(Symbols)
        /\ Len(header) = full_end - p
        /\ \A i \in 1 .. full_end - p : header[i] = content[p + i]
  <2> SUFFICES ASSUME full_end # NPos
               PROVE  /\ header \in Seq(Symbols)
                      /\ Len(header) = full_end - p
                      /\ \A i \in 1 .. full_end - p : header[i] = content[p + i]
    OBVIOUS
  <2>1. full_end \in p .. Len(content) - 2
    BY <1>3 DEF PairAt
  <2> HIDE DEF full_end
  <2>2. full_end \in Int /\ full_end <= Len(content) /\ p <= full_end
    BY <1>1, <2>1
  <2>3. /\ Between(content, p, full_end) \in Seq(Symbols)
        /\ Len(Between(content, p, full_end)) = IF p <= full_end THEN full_end - p ELSE 0
        /\ \A i \in 1 .. full_end - p : Between(content, p, full_end)[i] = content[p + i]
    BY <2>2, BetweenProperties DEF Strings
  <2>4. QED
    BY <2>2, <2>3
<1> HIDE DEF header, full_end, header_end, space
<1>9. ASSUME space # NPos
      PROVE  header_end # NPos /\ header_end <= space
  <2> DEFINE j == space + 1 - p
  <2>1. /\ space \in p .. Len(raw) - 1 /\ raw[space + 1] = "SP"
        /\ p + j = space + 1 /\ j \in 1 .. Len(content) - p
        /\ space + 1 \in 1 .. Len(raw)
    BY <1>1, <1>5, <1>9
  <2>2. content[space + 1] = "SP"
    BY <2>1 DEF Begins
  <2>3. full_end # NPos
    <3> SUFFICES ASSUME full_end = NPos PROVE FALSE
      OBVIOUS
    <3>1. j \in 1 .. Len(header) /\ header[j] = "SP"
      BY <1>1, <1>7, <2>1, <2>2
    <3>2. QED
      BY <1>2, <3>1
  <2>4. PairAt(content, "CR", "LF", p, full_end)
    BY <1>3, <2>3
  <2>5. full_end <= space
    <3> SUFFICES ASSUME space < full_end PROVE FALSE
      BY <1>1, <2>1, <2>4 DEF PairAt
    <3>1. j \in 1 .. full_end - p /\ j \in 1 .. Len(header)
      BY <1>1, <1>8, <2>1, <2>3, <2>4 DEF PairAt
    <3>2. header[j] = "SP"
      BY <1>8, <2>1, <2>2, <2>3, <3>1
    <3>3. QED
      BY <1>2, <3>1, <3>2
  <2>6. full_end # space
    BY <2>2, <2>4 DEF PairAt
  <2>7. /\ full_end + 1 \in p + 1 .. Len(raw) - 1 /\ full_end + 1 \in 1 .. Len(raw)
        /\ full_end + 2 \in 1 .. Len(raw) /\ (full_end + 1) + 1 = full_end + 2
    BY <1>1, <2>1, <2>4, <2>5, <2>6 DEF PairAt
  <2>8. raw[full_end + 1] = "CR" /\ raw[full_end + 2] = "LF"
    BY <2>4, <2>7 DEF PairAt, Begins
  <2>9. header_end # NPos
    <3> SUFFICES ASSUME header_end = NPos PROVE FALSE
      OBVIOUS
    <3>1. ~PairAt(raw, "CR", "LF", p, header_end)
      BY <1>1 DEF PairAt, NPos
    <3>2. NoPair(raw, "CR", "LF", p)
      BY <1>4, <3>1
    <3>3. QED
      BY <2>7, <2>8, <3>2 DEF NoPair
  <2>10. QED
    BY <1>6, <2>5, <2>9
<1>10. ASSUME header_end # NPos
       PROVE  /\ header_end \in p + 1 .. Len(raw) - 2
              /\ size_end # NPos
              /\ ReadHex(Between(raw, p, size_end)) = size
              /\ full_end = header_end
              /\ content[p + 1] = raw[p + 1]
              /\ size > 0 => header_end + 2 + size + 2 \in starts
  <2>1. full_end = header_end /\ full_end # NPos /\ PairAt(raw, "CR", "LF", p, header_end)
    BY <1>4, <1>6, <1>10
  <2>2. Len(header) # 0
    BY <1>2, <1>8, <2>1, EmptySeq
  <2>3. header_end \in p + 1 .. Len(raw) - 2
    BY <1>1, <1>8, <2>1, <2>2 DEF PairAt
  <2>4. 1 \in 1 .. Len(header) /\ header[1] = content[p + 1] /\ p + 1 \in 1 .. Len(raw)
    BY <1>1, <1>8, <2>1, <2>3
  <2>5. content[p + 1] = raw[p + 1] /\ raw[p + 1] \notin {"CR", "LF", "SP"}
    BY <1>2, <2>1, <2>4 DEF Begins
  <2>6. size_end \in header_end .. Len(raw) - 1
    BY <1>1, <1>5, <1>9, <2>3
  <2> HIDE DEF size_end
  <2> DEFINE part == Between(raw, p, size_end)
  <2>7. Len(part) \in Nat /\ Len(part) > 0 /\ part[1] = raw[p + 1]
    <3>1. /\ size_end \in Int /\ size_end <= Len(raw) /\ p < size_end /\ 1 \in 1 .. size_end - p
      BY <1>1, <2>3, <2>6
    <3>2. /\ Len(part) = IF p <= size_end THEN size_end - p ELSE 0
          /\ \A i \in 1 .. size_end - p : part[i] = raw[p + i]
      BY <3>1, BetweenProperties DEF Strings
    <3> HIDE DEF part
    <3>3. QED
      BY <3>1, <3>2
  <2> HIDE DEF part
  <2>8. ReadHex(part) = size
    BY <2>5, <2>7, HexOfFirst
  <2>9. ReadHex(header) = size
    <3>1. Len(header) \in Nat /\ Len(header) > 0 /\ header[1] = raw[p + 1]
      BY <1>1, <1>8, <2>1, <2>3, <2>4, <2>5
    <3>2. QED
      BY <2>5, <3>1, HexOfFirst
  <2>10. size_end # NPos
    BY <1>1, <2>3, <2>6 DEF NPos
  <2> HIDE DEF size
  <2>11. QED
    BY <1>2, <2>1, <2>3, <2>5, <2>8, <2>9, <2>10 DEF part
<1>11. header_end = NPos => size_end = NPos
  BY <1>9
<1> HIDE DEF size_end, size
<1>12. QED
  BY <1>10, <1>11 DEF header_end, size_end, space, size, full_end

(* What one iteration does with a chunk: it has not arrived, or is taken.   *)
StuckChunk(s) == [s EXCEPT !.chunks = "incomplete"]

TakenChunk(raw, s, end, size) ==
  [req    |-> [s.req EXCEPT !.content = s.req.content \o Substr(raw, end + 2, size),
                            !.content_len = s.req.content_len + size,
                            !.chunked_content_len = end + 2 + size + 2],
   chunks |-> IF size > 0 THEN "more" ELSE "all"]

(* What one iteration makes of a plain chunk, in both cases.                *)
LEMMA ChunkCases ==
  ASSUME NEW raw \in Strings, NEW content \in Strings, Begins(raw, content),
         NEW starts, NEW s, s.chunks = "more", s.req.chunked_content_len \in Nat,
         PlainChunk(content, s.req.chunked_content_len, starts)
  PROVE  LET start == s.req.chunked_content_len
             end == Find(raw, Crlf, start)
             size == HexOf(raw[start + 1])
         IN Chunk(raw, s) = IF end = NPos \/ size > Len(raw) - end - 2
                            THEN StuckChunk(s) ELSE TakenChunk(raw, s, end, size)
<1> DEFINE start == s.req.chunked_content_len
           space == Find(raw, <<"SP">>, start)
           end == Find(raw, Crlf, start)
           size_end == IF space = NPos THEN end ELSE space
           read == ReadHex(Between(raw, start, size_end))
           size == HexOf(raw[start + 1])
           Taken(n) == [req |-> [s.req EXCEPT
                                   !.content = @ \o Substr(raw, end + 2, n),
                                   !.content_len = @ + n,
                                   !.chunked_content_len = end + 2 + n + 2],
                        chunks |-> IF n > 0 THEN "more" ELSE "all"]
<1>1. Chunk(raw, s) = IF size_end = NPos \/ read > Len(raw) - end - 2
                      THEN StuckChunk(s) ELSE Taken(read)
  BY Zenon DEF Chunk, StuckChunk
<1>2. Taken(size) = TakenChunk(raw, s, end, size)
  BY DEF TakenChunk
<1>3. /\ end = NPos => size_end = NPos
      /\ end # NPos => size_end # NPos /\ read = size
  BY PlainHeader
<1> HIDE DEF Taken, read, size, size_end, end
<1>4. QED
  BY <1>1, <1>2, <1>3 DEF end, size

(* A record is what it has in its fields.                                   *)
IsFun(r) == r = [f \in DOMAIN r |-> r[f]]

(* A request that differs from another in what decoding its content changes. *)
SameHead(r, q) ==
  /\ q.err = r.err /\ q.method = r.method /\ q.target_form = r.target_form
  /\ q.uri = r.uri /\ q.fields = r.fields
  /\ IsFun(r) /\ IsFun(q)

(* What is true of the loop after i chunks of the content of r: each takes  *)
(* five characters at least.                                                *)
ChunkProgress(raw, starts, r, i, s) ==
  /\ IsReq(s.req)
  /\ s = [req |-> s.req, chunks |-> s.chunks]
  /\ s.chunks \in {"more", "all", "incomplete"}
  /\ SameHead(r, s.req) /\ s.req.parse_state = "content"
  /\ s.chunks = "more" =>
       /\ s.req.chunked_content_len \in starts
       /\ 5 * i <= s.req.chunked_content_len
       /\ s.req.chunked_content_len <= Len(raw) + 2

(* A chunk keeps ChunkProgress.                                             *)
LEMMA ChunkProgressMade ==
  ASSUME NEW raw \in Strings, NEW content \in Strings, Begins(raw, content),
         NEW starts \in SUBSET Nat, PlainChunks(content, starts),
         NEW r, NEW i \in Nat, NEW s, ChunkProgress(raw, starts, r, i, s)
  PROVE  ChunkProgress(raw, starts, r, i + 1, Chunk(raw, s))
<1> DEFINE start == s.req.chunked_content_len
           end == Find(raw, Crlf, start)
           size == HexOf(raw[start + 1])
           next == Chunk(raw, s)
<1>1. IsReq(s.req) /\ s = [req |-> s.req, chunks |-> s.chunks]
  BY DEF ChunkProgress
<1>2. CASE s.chunks # "more"
  <2>1. Chunk(raw, s) = s
    BY <1>2, Zenon DEF Chunk
  <2>2. QED
    BY <1>2, <2>1 DEF ChunkProgress
<1>3. CASE s.chunks = "more"
  <2>1. start \in Nat /\ Len(raw) \in Nat /\ PlainChunk(content, start, starts)
    BY <1>3, LenProperties DEF ChunkProgress, PlainChunks, Strings
  <2>2. next = IF end = NPos \/ size > Len(raw) - end - 2
               THEN StuckChunk(s) ELSE TakenChunk(raw, s, end, size)
    BY <1>3, <2>1, ChunkCases
  <2>3. end # NPos => end \in start + 1 .. Len(raw) - 2
                      /\ (size > 0 => end + 2 + size + 2 \in starts)
    BY <2>1, PlainHeader
  <2>4. size \in Nat
    BY DEF HexOf, HexDigits
  <2>5. IsReq(next.req)
    <3>1. ChunkGood(raw, 0, 1 - 1, s)
      BY <1>1 DEF ChunkGood
    <3>2. ChunkGood(raw, 0, 1, Chunk(raw, s))
      BY <3>1, ChunkTyped
    <3>3. QED
      BY <3>2 DEF ChunkGood
  <2> HIDE DEF next, size, end
  <2>6. CASE next = StuckChunk(s)
    <3>1. next = [req |-> s.req, chunks |-> "incomplete"]
      BY <1>1, <2>6 DEF StuckChunk
    <3>2. next.req = s.req /\ next.chunks = "incomplete"
      BY <3>1
    <3>3. QED
      BY <3>1, <3>2 DEF ChunkProgress, next
  <2>7. CASE /\ end # NPos /\ ~(size > Len(raw) - end - 2)
             /\ next = TakenChunk(raw, s, end, size)
    <3> DEFINE text == s.req.content \o Substr(raw, end + 2, size)
               len == s.req.content_len + size
               at == end + 2 + size + 2
               more == IF size > 0 THEN "more" ELSE "all"
    <3>1. next = [req |-> [s.req EXCEPT !.content = text, !.content_len = len,
                                        !.chunked_content_len = at],
                  chunks |-> more]
      BY <2>7 DEF TakenChunk
    <3>2. /\ more \in {"more", "all"}
          /\ more = "more" => at \in starts /\ 5 * (i + 1) <= at /\ at <= Len(raw) + 2
      BY <1>3, <2>1, <2>3, <2>4, <2>7 DEF ChunkProgress
    <3> HIDE DEF text, len, at, more
    <3>3. /\ next.req = [s.req EXCEPT !.content = text, !.content_len = len,
                                      !.chunked_content_len = at]
          /\ next.chunks = more /\ next = [req |-> next.req, chunks |-> next.chunks]
      BY <3>1
    <3>4. next.req.chunked_content_len = at /\ next.req.parse_state = s.req.parse_state
      BY <1>1, <3>3 DEF IsReq
    <3>5. SameHead(r, next.req)
      <4>1. SameHead(s.req, next.req)
        BY <1>1, <3>3 DEF IsReq, SameHead, ChunkProgress, IsFun
      <4>2. QED
        BY <4>1 DEF ChunkProgress, SameHead
    <3>6. QED
      BY <2>5, <3>2, <3>3, <3>4, <3>5 DEF ChunkProgress, next
  <2>8. QED
    BY <2>2, <2>6, <2>7
<1>4. QED
  BY <1>2, <1>3

(* The loop over the chunks of the content of a request.                    *)
FirstChunk(r) == [req |-> r, chunks |-> "more"]

AllChunks(raw, r) == Loop(LAMBDA t : Chunk(raw, t), FirstChunk(r), Len(raw) + 1)

(* Its states, and that it has as many iterations as it needs.              *)
LEMMA ChunkRun ==
  ASSUME NEW raw \in Strings, NEW r
  PROVE  \E f : /\ ChunkLoop!IsRun(f, raw, 0, FirstChunk(r), Len(raw) + 1)
                /\ AllChunks(raw, r) = f[Len(raw) + 1]
<1> DEFINE first == FirstChunk(r)
           n == Len(raw) + 1
<1>1. AllChunks(raw, r) = ChunkLoop!Iterate(raw, 0, first, n)
  <2> HIDE DEF first
  <2>1. QED
    BY Zenon DEF AllChunks, Loop, ChunkLoop!Iterate, ChunkLoop!StatesOf,
                 ChunkLoop!Once, ChunkBody, Only, ChunkLoop!Only, first
<1>2. n \in Nat
  BY LenProperties DEF Strings
<1> HIDE DEF first, n
<1>3. PICK f : ChunkLoop!IsRun(f, raw, 0, first, n)
  BY <1>2, ChunkLoop!States, Zenon
<1>4. ChunkLoop!Iterate(raw, 0, first, n) = f[n]
  BY <1>3 DEF ChunkLoop!IsRun
<1>5. QED
  BY <1>1, <1>3, <1>4 DEF first, n

(* The loop ends with the last chunk or with one that has not arrived.      *)
LEMMA ChunkLoopEnds ==
  ASSUME NEW raw \in Strings, NEW content \in Strings, Begins(raw, content),
         NEW starts \in SUBSET Nat, PlainChunks(content, starts),
         NEW r, NEW f, ChunkLoop!IsRun(f, raw, 0, FirstChunk(r), Len(raw) + 1),
         ChunkProgress(raw, starts, r, 0, FirstChunk(r))
  PROVE  /\ \A i \in 0 .. Len(raw) + 1 : ChunkProgress(raw, starts, r, i, f[i])
         /\ f[Len(raw) + 1].chunks \in {"all", "incomplete"}
<1> DEFINE n == Len(raw) + 1
           S == {i \in Nat : i <= n => ChunkProgress(raw, starts, r, i, f[i])}
<1>1. n \in Nat /\ Len(raw) \in Nat
  BY LenProperties DEF Strings
<1>2. 0 \in S
  BY DEF ChunkLoop!IsRun
<1>3. ASSUME NEW i \in Nat, i \in S PROVE i + 1 \in S
  <2> SUFFICES ASSUME i + 1 <= n PROVE ChunkProgress(raw, starts, r, i + 1, f[i + 1])
    OBVIOUS
  <2>1. ChunkProgress(raw, starts, r, i, f[i]) /\ i + 1 \in 1 .. n /\ (i + 1) - 1 = i
    BY <1>1, <1>3
  <2>2. f[i + 1] = Chunk(raw, f[i])
    BY <2>1 DEF ChunkLoop!IsRun, ChunkBody
  <2>3. QED
    BY <2>1, <2>2, ChunkProgressMade
<1> HIDE DEF S
<1>4. Nat \subseteq S
  BY <1>2, <1>3, ChunkLoop!Induction
<1>5. \A i \in 0 .. n : ChunkProgress(raw, starts, r, i, f[i])
  BY <1>4 DEF S
<1>6. f[n].chunks # "more"
  <2> SUFFICES ASSUME f[n].chunks = "more" PROVE FALSE
    OBVIOUS
  <2> DEFINE at == f[n].req.chunked_content_len
  <2>1. ChunkProgress(raw, starts, r, n, f[n])
    BY <1>1, <1>5
  <2>2. 5 * n <= at /\ at <= Len(raw) + 2 /\ at \in Nat
    BY <2>1 DEF ChunkProgress
  <2> HIDE DEF at
  <2>3. QED
    BY <1>1, <2>2
<1>7. n \in 0 .. n
  BY <1>1
<1> HIDE DEF n
<1>8. f[n].chunks \in {"all", "incomplete"}
  BY <1>5, <1>6, <1>7 DEF ChunkProgress
<1>9. QED
  BY <1>5, <1>8 DEF n

(* The loops over a content and over the beginning of it: they agree until  *)
(* a chunk has not arrived.                                                 *)
ChunksAgree(f, g, n, i) ==
  \/ f[i].chunks # "incomplete" /\ f[i] = g[i]
  \/ \E k \in 0 .. n : f[k].chunks = "more" /\ f[k] = g[k] /\ f[i] = StuckChunk(f[k])

(* A part of a text that has arrived is the same when more has.             *)
LEMMA SubstrKept ==
  ASSUME NEW raw1 \in Strings, NEW raw2 \in Strings, Begins(raw1, raw2),
         NEW from \in Nat, NEW n \in Nat, from + n <= Len(raw1)
  PROVE  Substr(raw2, from, n) = Substr(raw1, from, n)
<1>1. Len(raw1) \in Nat /\ Len(raw2) \in Nat /\ Len(raw1) <= Len(raw2)
  BY LenProperties DEF Strings, Begins
<1> DEFINE to == from + n
<1>2. to \in Int /\ to <= Len(raw1) /\ to <= Len(raw2)
  BY <1>1
<1> HIDE DEF to
<1>3. Min({to, Len(raw1)}) = to /\ Min({to, Len(raw2)}) = to
  BY <1>1, <1>2, MinOfTwo
<1>4. /\ Substr(raw1, from, n) = SubSeq(raw1, from + 1, Min({to, Len(raw1)}))
      /\ Substr(raw2, from, n) = SubSeq(raw2, from + 1, Min({to, Len(raw2)}))
  BY DEF Substr, to
<1>5. /\ Substr(raw1, from, n) = Between(raw1, from, to)
      /\ Substr(raw2, from, n) = Between(raw2, from, to)
  BY <1>3, <1>4 DEF Between
<1>6. QED
  BY <1>2, <1>5, BetweenKept

(* An iteration of both loops keeps the agreement.                          *)
LEMMA ChunkAgreementKept ==
  ASSUME NEW raw1 \in Strings, NEW raw2 \in Strings, NEW content \in Strings,
         Begins(raw1, raw2), Begins(raw1, content), Begins(raw2, content),
         NEW starts \in SUBSET Nat, PlainChunks(content, starts), NEW r,
         NEW f, NEW g, NEW n \in Nat, NEW i \in 0 .. n - 1,
         f[i + 1] = Chunk(raw1, f[i]), g[i + 1] = Chunk(raw2, g[i]),
         ChunkProgress(raw1, starts, r, i, f[i]),
         ChunksAgree(f, g, n, i)
  PROVE  ChunksAgree(f, g, n, i + 1)
<1> DEFINE s == f[i]
           start == s.req.chunked_content_len
           end == Find(raw1, Crlf, start)
           size == HexOf(raw1[start + 1])
<1>1. CASE s.chunks # "more"
  <2>1. f[i + 1] = s
    BY <1>1, Zenon DEF Chunk
  <2>2. s = g[i] => g[i + 1] = s
    BY <1>1, Zenon DEF Chunk
  <2>3. QED
    BY <2>1, <2>2 DEF ChunksAgree
<1>2. CASE s.chunks = "more"
  <2>1. /\ start \in Nat /\ PlainChunk(content, start, starts)
        /\ Len(raw1) \in Nat /\ Len(raw2) \in Nat /\ Len(raw1) <= Len(raw2)
    BY <1>2, LenProperties DEF ChunkProgress, PlainChunks, Strings, Begins
  <2>2. s = g[i]
    <3>1. ASSUME NEW k \in 0 .. n, s = StuckChunk(f[k]), f[k].chunks = "more" PROVE FALSE
      <4>1. s = [req |-> s.req, chunks |-> s.chunks] /\ DOMAIN StuckChunk(f[k]) = DOMAIN f[k]
        BY DEF ChunkProgress, StuckChunk
      <4>2. "chunks" \in DOMAIN f[k]
        BY <3>1, <4>1
      <4>3. QED
        BY <1>2, <3>1, <4>2 DEF StuckChunk
    <3>2. QED
      BY <3>1 DEF ChunksAgree
  <2>3. f[i + 1] = IF end = NPos \/ size > Len(raw1) - end - 2
                   THEN StuckChunk(s) ELSE TakenChunk(raw1, s, end, size)
    BY <1>2, <2>1, ChunkCases
  <2>4. CASE f[i + 1] = StuckChunk(s)
    <3>1. i \in 0 .. n
      OBVIOUS
    <3>2. QED
      BY <1>2, <2>2, <2>4, <3>1 DEF ChunksAgree
  <2>5. CASE /\ end # NPos /\ ~(size > Len(raw1) - end - 2)
             /\ f[i + 1] = TakenChunk(raw1, s, end, size)
    <3>1. Find(raw2, Crlf, start) = end
      BY <2>1, <2>5, PairKept DEF Crlf
    <3>2. /\ end \in start + 1 .. Len(raw1) - 2
          /\ content[start + 1] = raw1[start + 1]
      BY <2>1, <2>5, PlainHeader
    <3>3. content[start + 1] = raw2[start + 1]
      BY <2>1, <2>5, <3>1, PlainHeader
    <3>4. g[i + 1] = IF end = NPos \/ size > Len(raw2) - end - 2
                     THEN StuckChunk(s) ELSE TakenChunk(raw2, s, end, size)
      <4>1. raw2[start + 1] = raw1[start + 1]
        BY <3>2, <3>3
      <4>2. Chunk(raw2, s) = LET there == Find(raw2, Crlf, start)
                                 wide == HexOf(raw2[start + 1])
                             IN IF there = NPos \/ wide > Len(raw2) - there - 2
                                THEN StuckChunk(s) ELSE TakenChunk(raw2, s, there, wide)
        BY <1>2, <2>1, ChunkCases
      <4>3. g[i + 1] = Chunk(raw2, s)
        BY <2>2
      <4>4. QED
        BY <3>1, <4>1, <4>2, <4>3
    <3>5. size \in Nat
      BY DEF HexOf, HexDigits
    <3> HIDE DEF size, end
    <3> DEFINE data == end + 2
    <3>6. /\ ~(size > Len(raw2) - end - 2)
          /\ data \in Nat /\ data + size <= Len(raw1)
      <4> HIDE DEF start
      <4>1. QED
        BY <2>1, <2>5, <3>2, <3>5
    <3> HIDE DEF data
    <3>7. Substr(raw2, data, size) = Substr(raw1, data, size)
      BY <3>5, <3>6, SubstrKept
    <3>8. g[i + 1] = TakenChunk(raw1, s, end, size)
      BY <2>5, <3>4, <3>6, <3>7 DEF TakenChunk, data
    <3>9. TakenChunk(raw1, s, end, size).chunks # "incomplete"
      BY DEF TakenChunk
    <3>10. QED
      BY <2>5, <3>8, <3>9 DEF ChunksAgree
  <2>6. QED
    BY <2>3, <2>4, <2>5
<1>3. QED
  BY <1>1, <1>2

(* So the loops over both agree to the end.                                 *)
LEMMA ChunkLoopsAgree ==
  ASSUME NEW raw1 \in Strings, NEW raw2 \in Strings, NEW content \in Strings,
         Begins(raw1, raw2), Begins(raw1, content), Begins(raw2, content),
         NEW starts \in SUBSET Nat, PlainChunks(content, starts), NEW r,
         NEW f, NEW g,
         ChunkLoop!IsRun(f, raw1, 0, FirstChunk(r), Len(raw1) + 1),
         ChunkLoop!IsRun(g, raw2, 0, FirstChunk(r), Len(raw2) + 1),
         ChunkProgress(raw1, starts, r, 0, FirstChunk(r))
  PROVE  ChunksAgree(f, g, Len(raw1) + 1, Len(raw1) + 1)
<1> DEFINE n == Len(raw1) + 1
           S == {i \in Nat : i <= n => ChunksAgree(f, g, n, i)}
<1>1. n \in Nat /\ Len(raw2) \in Nat /\ n <= Len(raw2) + 1
  BY LenProperties DEF Strings, Begins
<1>2. \A i \in 0 .. n : ChunkProgress(raw1, starts, r, i, f[i])
  BY ChunkLoopEnds
<1>3. 0 \in S
  BY DEF ChunkLoop!IsRun, ChunksAgree, FirstChunk
<1>4. ASSUME NEW i \in Nat, i \in S PROVE i + 1 \in S
  <2> SUFFICES ASSUME i + 1 <= n PROVE ChunksAgree(f, g, n, i + 1)
    OBVIOUS
  <2>1. /\ ChunksAgree(f, g, n, i) /\ i \in 0 .. n - 1
        /\ i + 1 \in 1 .. n /\ i + 1 \in 1 .. Len(raw2) + 1 /\ (i + 1) - 1 = i
    BY <1>1, <1>4
  <2>2. f[i + 1] = Chunk(raw1, f[i]) /\ g[i + 1] = Chunk(raw2, g[i])
    BY <2>1 DEF ChunkLoop!IsRun, ChunkBody
  <2>3. ChunkProgress(raw1, starts, r, i, f[i])
    BY <1>2, <2>1
  <2> HIDE DEF n
  <2>4. QED
    BY <1>1, <2>1, <2>2, <2>3, ChunkAgreementKept
<1> HIDE DEF S
<1>5. Nat \subseteq S
  BY <1>3, <1>4, ChunkLoop!Induction
<1>6. QED
  BY <1>1, <1>5 DEF S

(* The chunks of a content, of which some have been read before.            *)
LEMMA ChunksResumed ==
  ASSUME NEW raw1 \in Strings, NEW raw2 \in Strings, NEW content \in Strings,
         Begins(raw1, raw2), Begins(raw1, content), Begins(raw2, content),
         NEW starts \in SUBSET Nat, PlainChunks(content, starts),
         NEW r, IsReq(r), IsFun(r), r.parse_state = "content",
         r.chunked_content_len = 0
  PROVE  LET s1 == AllChunks(raw1, r)
             s2 == AllChunks(raw2, r)
         IN /\ IsReq(s1.req) /\ SameHead(r, s1.req) /\ s1.req.parse_state = "content"
            /\ s1.chunks = "all" => s2 = s1
            /\ s1.chunks # "all" => AllChunks(raw2, s1.req) = s2
            /\ {s1.chunks, s2.chunks} \subseteq {"all", "incomplete"}
<1> DEFINE first == FirstChunk(r)
           s1 == AllChunks(raw1, r)
           s2 == AllChunks(raw2, r)
           again == FirstChunk(s1.req)
           n1 == Len(raw1) + 1
           n2 == Len(raw2) + 1
<1>1. n1 \in Nat /\ n2 \in Nat /\ n1 <= n2 /\ Len(raw1) \in Nat /\ Len(raw2) \in Nat
  BY LenProperties DEF Strings, Begins
<1>2. PICK f : ChunkLoop!IsRun(f, raw1, 0, first, n1) /\ s1 = f[n1]
  BY ChunkRun
<1>3. PICK g : ChunkLoop!IsRun(g, raw2, 0, first, n2) /\ s2 = g[n2]
  BY ChunkRun
<1>4. PICK h : ChunkLoop!IsRun(h, raw2, 0, again, n2) /\ AllChunks(raw2, s1.req) = h[n2]
  BY ChunkRun
<1>5. ChunkProgress(raw1, starts, r, 0, first) /\ ChunkProgress(raw2, starts, r, 0, first)
  <2>1. 0 \in starts /\ FirstChunk(r).req = r /\ FirstChunk(r).chunks = "more"
    BY DEF FirstChunk, PlainChunks
  <2>2. SameHead(r, r)
    BY DEF SameHead
  <2>3. FirstChunk(r) = [req |-> FirstChunk(r).req, chunks |-> FirstChunk(r).chunks]
    BY DEF FirstChunk
  <2>4. QED
    BY <1>1, <2>1, <2>2, <2>3 DEF ChunkProgress
<1> HIDE DEF s1, s2, first, again
<1>6. /\ \A i \in 0 .. n1 : ChunkProgress(raw1, starts, r, i, f[i])
      /\ f[n1].chunks \in {"all", "incomplete"}
  BY <1>2, <1>5, ChunkLoopEnds DEF first
<1>7. /\ \A i \in 0 .. n2 : ChunkProgress(raw2, starts, r, i, g[i])
      /\ g[n2].chunks \in {"all", "incomplete"}
  BY <1>3, <1>5, ChunkLoopEnds DEF first
<1>8. ChunksAgree(f, g, n1, n1)
  BY <1>2, <1>3, <1>5, ChunkLoopsAgree DEF first
<1>9. \A s, i : s.chunks # "more" => ChunkBody(raw2, 0, i, s) = s
  BY Zenon DEF Chunk, ChunkBody
<1>10. ASSUME s1.chunks = "all" PROVE s2 = s1
  <2>1. f[n1] = g[n1]
    <3>1. ASSUME NEW k \in 0 .. n1, f[n1] = StuckChunk(f[k]) PROVE FALSE
      <4>1. k \in 0 .. n1 /\ ChunkProgress(raw1, starts, r, k, f[k])
        BY <1>6
      <4>2. f[k] = [req |-> f[k].req, chunks |-> f[k].chunks]
        BY <4>1 DEF ChunkProgress
      <4>3. StuckChunk(f[k]).chunks = "incomplete"
        BY <4>2 DEF StuckChunk
      <4>4. QED
        BY <1>2, <1>10, <3>1, <4>3
    <3>2. QED
      BY <1>8, <3>1 DEF ChunksAgree
  <2>2. n1 \in 0 .. n2 /\ \A i \in 1 .. n2 : ChunkBody(raw2, 0, i, g[n1]) = g[n1]
    BY <1>1, <1>2, <1>9, <1>10, <2>1
  <2> HIDE DEF n1, n2
  <2>3. g[n2] = g[n1]
    BY <1>1, <1>3, <2>2, ChunkLoop!RunSettles
  <2>4. QED
    BY <1>2, <1>3, <2>1, <2>3
<1>11. ASSUME s1.chunks # "all" PROVE h[n2] = s2
  <2>1. PICK k \in 0 .. n1 : f[k].chunks = "more" /\ f[k] = g[k] /\ f[n1] = StuckChunk(f[k])
    BY <1>2, <1>6, <1>8, <1>11 DEF ChunksAgree
  <2>2. k \in 0 .. n2 /\ ChunkProgress(raw1, starts, r, k, f[k])
    BY <1>1, <1>6, <2>1
  <2>3. again = g[k]
    <3>1. s1.req = f[k].req
      <4>1. f[k] = [req |-> f[k].req, chunks |-> f[k].chunks]
        BY <2>2 DEF ChunkProgress
      <4>2. StuckChunk(f[k]).req = f[k].req
        BY <4>1 DEF StuckChunk
      <4>3. QED
        BY <1>2, <2>1, <4>2
    <3>2. f[k] = [req |-> f[k].req, chunks |-> "more"]
      BY <2>1, <2>2 DEF ChunkProgress
    <3>3. QED
      BY <2>1, <3>1, <3>2 DEF again, FirstChunk
  <2> DEFINE S == {j \in Nat : k + j <= n2 => h[j] = g[k + j]}
  <2>4. 0 \in S
    BY <1>4, <2>3 DEF ChunkLoop!IsRun
  <2>5. ASSUME NEW j \in Nat, j \in S PROVE j + 1 \in S
    <3> SUFFICES ASSUME k + (j + 1) <= n2 PROVE h[j + 1] = g[k + (j + 1)]
      OBVIOUS
    <3>1. /\ h[j] = g[k + j]
          /\ k + (j + 1) \in 1 .. n2 /\ (k + (j + 1)) - 1 = k + j
          /\ j + 1 \in 1 .. n2 /\ (j + 1) - 1 = j
      BY <1>1, <2>2, <2>5
    <3>2. g[k + (j + 1)] = Chunk(raw2, g[k + j]) /\ h[j + 1] = Chunk(raw2, h[j])
      BY <1>3, <1>4, <3>1 DEF ChunkLoop!IsRun, ChunkBody
    <3>3. QED
      BY <3>1, <3>2
  <2> HIDE DEF S
  <2>6. Nat \subseteq S
    BY <2>4, <2>5, ChunkLoop!Induction
  <2> DEFINE m == n2 - k
  <2>7. m \in Nat /\ k + m = n2 /\ m \in 0 .. n2
    BY <1>1, <2>2
  <2> HIDE DEF m
  <2>8. h[m] = g[n2]
    <3>1. m \in S
      BY <2>6, <2>7
    <3> HIDE DEF n2
    <3>2. k + m <= n2 => h[m] = g[k + m]
      BY <3>1 DEF S
    <3>3. k + m <= n2
      BY <1>1, <2>7
    <3>4. QED
      BY <2>7, <3>2, <3>3
  <2> HIDE DEF n1, n2
  <2>9. \A i \in 1 .. n2 : ChunkBody(raw2, 0, i, h[m]) = h[m]
    BY <1>7, <1>9, <2>8
  <2>10. h[n2] = h[m]
    <3>1. n2 \in Nat /\ m \in 0 .. n2 /\ ChunkLoop!IsRun(h, raw2, 0, again, n2)
      BY <1>1, <1>4, <2>7
    <3>2. QED
      BY <2>9, <3>1, ChunkLoop!RunSettles
  <2>11. QED
    BY <1>3, <2>8, <2>10
<1>12. IsReq(s1.req) /\ SameHead(r, s1.req) /\ s1.req.parse_state = "content"
  <2>1. n1 \in 0 .. n1
    BY <1>1
  <2>2. ChunkProgress(raw1, starts, r, n1, f[n1])
    BY <1>6, <2>1
  <2>3. QED
    BY <1>2, <2>2 DEF ChunkProgress
<1>13. {s1.chunks, s2.chunks} \subseteq {"all", "incomplete"}
  BY <1>2, <1>3, <1>6, <1>7
<1>14. QED
  BY <1>4, <1>10, <1>11, <1>12, <1>13 DEF s1, s2

-----------------------------------------------------------------------------
(* A line of the trailer section adds to the request.                       *)
LEMMA TrailerLineGrown ==
  ASSUME NEW raw \in Strings, NEW s, TrailerGood(raw, 0, 0, s)
  PROVE  Grown(s.req, TrailerLine(raw, s).req)
<1> DEFINE line_end == Find(raw, Crlf, s.at)
           line == Between(raw, s.at, line_end)
           field == ParseFieldLine(line, s.req)
           next == line_end + 2
<1>1. IsReq(s.req) /\ s.at \in Nat /\ Len(raw) \in Nat
  BY LenProperties DEF TrailerGood, Strings
<1>2. {ParseFieldLine(l, s.req) : l \in {line}} = {field}
  OBVIOUS
<1>3. TrailerLine(raw, s) =
        IF s.done # "more" THEN s
        ELSE IF s.at >= Len(raw) \/ line_end = NPos THEN [s EXCEPT !.done = "incomplete"]
        ELSE IF s.at = line_end THEN [s EXCEPT !.done = "all"]
        ELSE [s EXCEPT !.req = Only({ParseFieldLine(l, s.req) : l \in {line}}),
                       !.at = line_end + 2]
  BY Zenon DEF TrailerLine
<1>4. line_end # NPos => Grown(s.req, field)
  <2> SUFFICES ASSUME line_end # NPos PROVE Grown(s.req, field)
    OBVIOUS
  <2>1. line_end \in Int /\ line_end <= Len(raw)
    BY <1>1, FindPair DEF Strings, Crlf
  <2> HIDE DEF line_end
  <2>2. line \in Strings
    BY <1>1, <2>1, BetweenTyped
  <2>3. QED
    BY <1>1, <2>2, FieldLineGrown
<1>5. Grown(s.req, s.req)
  BY DEF Grown
<1> HIDE DEF field, line_end, line, next
<1>6. Only({ParseFieldLine(l, s.req) : l \in {line}}) = field
  BY <1>2, OnlyOne
<1>7. \/ TrailerLine(raw, s) = s
      \/ TrailerLine(raw, s) = [s EXCEPT !.done = "incomplete"]
      \/ TrailerLine(raw, s) = [s EXCEPT !.done = "all"]
      \/ /\ line_end # NPos
         /\ TrailerLine(raw, s) = [s EXCEPT !.req = field, !.at = next]
  BY <1>3, <1>6 DEF next
<1>8. TrailerLine(raw, s).req = s.req \/
        (line_end # NPos /\ TrailerLine(raw, s).req = field)
  BY <1>7 DEF TrailerGood
<1>9. QED
  BY <1>4, <1>5, <1>8

(* The first line, and the loop when there is none.                         *)
FirstTrailer(r) == [req |-> r, at |-> r.chunked_content_len + 1, done |-> "more"]

AllTrailers(raw, r) ==
  Loop(LAMBDA t : TrailerLine(raw, t), FirstTrailer(r), Len(raw) + 1)

(* The states of the loop: each request adds to the one after the first     *)
(* line.                                                                    *)
LEMMA TrailerRun ==
  ASSUME NEW raw \in Strings, NEW r, IsReq(r)
  PROVE  \E f : /\ TrailerLoop!IsRun(f, raw, 0, FirstTrailer(r), Len(raw) + 1)
                /\ AllTrailers(raw, r) = f[Len(raw) + 1]
                /\ f[1] = TrailerLine(raw, FirstTrailer(r))
                /\ IsReq(f[Len(raw) + 1].req)
                /\ Grown(f[1].req, f[Len(raw) + 1].req)
<1> DEFINE first == FirstTrailer(r)
           n == Len(raw) + 1
<1>1. AllTrailers(raw, r) = TrailerLoop!Iterate(raw, 0, first, n)
  <2> HIDE DEF first
  <2>1. QED
    BY Zenon DEF AllTrailers, Loop, TrailerLoop!Iterate, TrailerLoop!StatesOf,
                 TrailerLoop!Once, TrailerBody, Only, TrailerLoop!Only, first
<1>2. n \in Nat /\ n >= 1
  BY LenProperties DEF Strings
<1>3. TrailerGood(raw, 0, 0, first)
  BY DEF TrailerGood, IsReq, FirstTrailer
<1>4. \A i \in 1 .. n : \A s :
        TrailerGood(raw, 0, i - 1, s) => TrailerGood(raw, 0, i, TrailerBody(raw, 0, i, s))
  BY TrailerTyped DEF TrailerBody
<1> HIDE DEF first, n
<1>5. PICK f : TrailerLoop!IsRun(f, raw, 0, first, n)
  BY <1>2, TrailerLoop!States, Zenon
<1>6. \A i \in 0 .. n : TrailerGood(raw, 0, i, f[i])
  BY <1>2, <1>3, <1>4, <1>5, TrailerLoop!RunInvariant
<1>7. AllTrailers(raw, r) = f[n]
  BY <1>1, <1>5 DEF TrailerLoop!IsRun
<1>8. \A i \in 1 .. n : f[i] = TrailerLine(raw, f[i - 1])
  BY <1>5 DEF TrailerLoop!IsRun, TrailerBody
<1>9. f[1] = TrailerLine(raw, first)
  <2>1. 1 \in 1 .. n /\ 1 - 1 = 0
    BY <1>2
  <2>2. f[0] = first
    BY <1>5 DEF TrailerLoop!IsRun
  <2>3. QED
    BY <1>8, <2>1, <2>2
<1> DEFINE S == {j \in Nat : 1 + j <= n => Grown(f[1].req, f[1 + j].req)}
<1>10. 0 \in S
  BY DEF Grown
<1>11. ASSUME NEW j \in Nat, j \in S PROVE j + 1 \in S
  <2> SUFFICES ASSUME 1 + (j + 1) <= n PROVE Grown(f[1].req, f[1 + (j + 1)].req)
    OBVIOUS
  <2>1. /\ 1 + (j + 1) \in 1 .. n /\ (1 + (j + 1)) - 1 = 1 + j /\ 1 + j \in 0 .. n
        /\ Grown(f[1].req, f[1 + j].req)
    BY <1>2, <1>11
  <2>2. f[1 + (j + 1)] = TrailerLine(raw, f[1 + j])
    BY <1>8, <2>1
  <2>3. TrailerGood(raw, 0, 0, f[1 + j])
    BY <1>6, <2>1 DEF TrailerGood
  <2>4. Grown(f[1 + j].req, f[1 + (j + 1)].req)
    BY <2>2, <2>3, TrailerLineGrown
  <2>5. QED
    BY <2>1, <2>4 DEF Grown
<1> HIDE DEF S
<1>12. Grown(f[1].req, f[n].req)
  <2>1. n - 1 \in Nat /\ 1 + (n - 1) = n
    BY <1>2
  <2>2. n - 1 \in S
    BY <1>10, <1>11, <2>1, TrailerLoop!Induction
  <2>3. QED
    BY <1>2, <2>1, <2>2 DEF S
<1>13. IsReq(f[n].req)
  BY <1>2, <1>6 DEF TrailerGood
<1>14. QED
  BY <1>5, <1>7, <1>9, <1>12, <1>13 DEF first, n

(* What decode_chunked makes of the loop.                                   *)
LEMMA TrailerResult ==
  ASSUME NEW raw, NEW r
  PROVE  DecodeTrailers(raw, r) =
           IF r.chunked_content_len = Len(raw) THEN [req |-> r, fully_decoded |-> TRUE]
           ELSE [req |-> AllTrailers(raw, r).req,
                 fully_decoded |-> AllTrailers(raw, r).done = "all"]
<1> DEFINE Result(s) == [req |-> s.req, fully_decoded |-> s.done = "all"]
           last == AllTrailers(raw, r)
<1>1. DecodeTrailers(raw, r) =
        IF r.chunked_content_len = Len(raw) THEN [req |-> r, fully_decoded |-> TRUE]
        ELSE Only({Result(s) : s \in {last}})
  BY Zenon DEF DecodeTrailers, AllTrailers, FirstTrailer
<1>2. {Result(s) : s \in {last}} = {Result(last)}
  OBVIOUS
<1>3. Only({Result(s) : s \in {last}}) = Result(last)
  BY <1>2, OnlyOne
<1> HIDE DEF last
<1>4. QED
  BY <1>1, <1>3 DEF last

(* The first line of the trailer section is waited for, or adds a field, or *)
(* is refused because that is there.                                        *)
LEMMA FirstTrailerLine ==
  ASSUME NEW raw \in Strings, NEW r, IsReq(r)
  PROVE  LET at == r.chunked_content_len + 1
             line_end == Find(raw, Crlf, at)
             next == TrailerLine(raw, FirstTrailer(r))
         IN /\ at >= Len(raw) \/ line_end = NPos =>
                 next = [req |-> r, at |-> at, done |-> "incomplete"]
            /\ at < Len(raw) /\ line_end = at =>
                 next = [req |-> r, at |-> at, done |-> "all"]
            /\ at < Len(raw) /\ line_end \notin {NPos, at} =>
                 next.req = ParseFieldLine(Between(raw, at, line_end), r)
<1> DEFINE at == r.chunked_content_len + 1
           line_end == Find(raw, Crlf, at)
           first == FirstTrailer(r)
           field == ParseFieldLine(Between(raw, at, line_end), r)
           after == line_end + 2
<1>1. first = [req |-> r, at |-> at, done |-> "more"]
  BY DEF FirstTrailer
<1>2. at \in Nat /\ Len(raw) \in Nat
  BY LenProperties DEF Strings, IsReq
<1>3. TrailerLine(raw, first) =
        IF first.done # "more" THEN first
        ELSE IF first.at >= Len(raw) \/ Find(raw, Crlf, first.at) = NPos
        THEN [first EXCEPT !.done = "incomplete"]
        ELSE IF first.at = Find(raw, Crlf, first.at) THEN [first EXCEPT !.done = "all"]
        ELSE [first EXCEPT
                !.req = Only({ParseFieldLine(l, first.req) :
                                l \in {Between(raw, first.at, Find(raw, Crlf, first.at))}}),
                !.at = Find(raw, Crlf, first.at) + 2]
  BY Zenon DEF TrailerLine
<1> HIDE DEF first, at
<1> DEFINE there == Find(raw, Crlf, first.at)
           line == Between(raw, first.at, there)
<1>4. {ParseFieldLine(l, first.req) : l \in {line}} = {ParseFieldLine(line, first.req)}
  OBVIOUS
<1>5. Only({ParseFieldLine(l, first.req) : l \in {line}}) = ParseFieldLine(line, first.req)
  BY <1>4, OnlyOne
<1>6. first.req = r /\ first.at = at /\ first.done = "more"
  BY <1>1
<1>7. there = line_end /\ ParseFieldLine(line, first.req) = field
  BY <1>6
<1> HIDE DEF line_end, field, after, line, there
<1>8. TrailerLine(raw, first) =
        IF first.done # "more" THEN first
        ELSE IF first.at >= Len(raw) \/ there = NPos
        THEN [first EXCEPT !.done = "incomplete"]
        ELSE IF first.at = there THEN [first EXCEPT !.done = "all"]
        ELSE [first EXCEPT !.req = Only({ParseFieldLine(l, first.req) : l \in {line}}),
                           !.at = there + 2]
  BY <1>3, Zenon DEF there, line
<1>9. TrailerLine(raw, first) =
        IF at >= Len(raw) \/ line_end = NPos
        THEN [first EXCEPT !.done = "incomplete"]
        ELSE IF at = line_end THEN [first EXCEPT !.done = "all"]
        ELSE [first EXCEPT !.req = field, !.at = after]
  BY <1>5, <1>6, <1>7, <1>8 DEF after
<1>10. [first EXCEPT !.done = "incomplete"] = [req |-> r, at |-> at, done |-> "incomplete"]
  BY <1>1
<1>11. [first EXCEPT !.done = "all"] = [req |-> r, at |-> at, done |-> "all"]
  BY <1>1
<1>12. [first EXCEPT !.req = field, !.at = after].req = field
  BY <1>1
<1>13. at < Len(raw) => ~(at >= Len(raw))
  BY <1>2
<1> DEFINE next == TrailerLine(raw, first)
<1>14. /\ at >= Len(raw) \/ line_end = NPos =>
            next = [req |-> r, at |-> at, done |-> "incomplete"]
       /\ at < Len(raw) /\ line_end = at /\ line_end # NPos =>
            next = [req |-> r, at |-> at, done |-> "all"]
       /\ at < Len(raw) /\ line_end \notin {NPos, at} => next.req = field
  BY <1>9, <1>10, <1>11, <1>12, <1>13
<1>15. at # NPos
  BY <1>2 DEF NPos
<1>16. QED
  BY <1>14, <1>15 DEF at, line_end, field, first

(* The trailer section of which some lines have been read before: the first *)
(* of them is refused, as its field is there already.                       *)
LEMMA TrailersResumed ==
  ASSUME NEW raw1 \in Strings, NEW raw2 \in Strings, Begins(raw1, raw2),
         NEW t, IsReq(t), ~DecodeTrailers(raw1, t).fully_decoded
  PROVE  LET q == DecodeTrailers(raw1, t).req
         IN /\ IsReq(q) /\ Grown(t, q)
            /\ \/ q = t
               \/ HasErr(q)
               \/ /\ Find(raw1, Crlf, q.chunked_content_len + 1) # NPos
                  /\ \A p : /\ IsReq(p) /\ p.chunked_content_len = q.chunked_content_len
                            /\ DOMAIN q.fields \subseteq DOMAIN p.fields
                            => HasErr(DecodeTrailers(raw2, p).req)
<1> DEFINE q == DecodeTrailers(raw1, t).req
           at == t.chunked_content_len + 1
           line_end == Find(raw1, Crlf, at)
           line == Between(raw1, at, line_end)
           n == Len(raw1) + 1
<1>1. /\ Len(raw1) \in Nat /\ Len(raw2) \in Nat /\ Len(raw1) <= Len(raw2)
      /\ at \in Nat /\ n \in Nat /\ n >= 1 /\ t.chunked_content_len \in Nat
  BY LenProperties DEF Strings, Begins, IsReq
<1>2. /\ q = AllTrailers(raw1, t).req /\ AllTrailers(raw1, t).done # "all"
  <2>1. DecodeTrailers(raw1, t) =
          IF t.chunked_content_len = Len(raw1) THEN [req |-> t, fully_decoded |-> TRUE]
          ELSE [req |-> AllTrailers(raw1, t).req,
                fully_decoded |-> AllTrailers(raw1, t).done = "all"]
    BY TrailerResult
  <2>2. t.chunked_content_len # Len(raw1)
    BY <2>1
  <2>3. DecodeTrailers(raw1, t) = [req |-> AllTrailers(raw1, t).req,
                                   fully_decoded |-> AllTrailers(raw1, t).done = "all"]
    BY <2>1, <2>2
  <2>4. AllTrailers(raw1, t).done # "all"
    <3> DEFINE all == AllTrailers(raw1, t).done = "all"
    <3>1. DecodeTrailers(raw1, t) = [req |-> AllTrailers(raw1, t).req,
                                     fully_decoded |-> all]
      BY <2>3
    <3> HIDE DEF all
    <3>2. DecodeTrailers(raw1, t).fully_decoded = all
      BY <3>1
    <3>3. ~all
      BY <3>2, Zenon
    <3>4. QED
      BY <3>3 DEF all
  <2>5. DecodeTrailers(raw1, t).req = AllTrailers(raw1, t).req
    BY <2>3
  <2>6. QED
    BY <2>4, <2>5
<1>3. PICK f : /\ TrailerLoop!IsRun(f, raw1, 0, FirstTrailer(t), n)
               /\ AllTrailers(raw1, t) = f[n]
               /\ f[1] = TrailerLine(raw1, FirstTrailer(t))
               /\ IsReq(f[n].req) /\ Grown(f[1].req, f[n].req)
  BY TrailerRun
<1> HIDE DEF q
<1>4. q = f[n].req /\ IsReq(q) /\ f[n].done # "all"
  BY <1>2, <1>3
<1>5. /\ at >= Len(raw1) \/ line_end = NPos =>
           f[1] = [req |-> t, at |-> at, done |-> "incomplete"]
      /\ at < Len(raw1) /\ line_end = at => f[1] = [req |-> t, at |-> at, done |-> "all"]
      /\ at < Len(raw1) /\ line_end \notin {NPos, at} =>
           f[1].req = ParseFieldLine(line, t)
  BY <1>3, FirstTrailerLine
<1> HIDE DEF n
<1>6. f[1].done # "more" => f[n] = f[1]
  <2> SUFFICES ASSUME f[1].done # "more" PROVE f[n] = f[1]
    OBVIOUS
  <2>1. \A i \in 1 .. n : TrailerBody(raw1, 0, i, f[1]) = f[1]
    BY Zenon DEF TrailerBody, TrailerLine
  <2>2. 1 \in 0 .. n /\ n \in Nat /\ TrailerLoop!IsRun(f, raw1, 0, FirstTrailer(t), n)
    BY <1>1, <1>3
  <2>3. QED
    BY <2>1, <2>2, TrailerLoop!RunSettles
<1>7. CASE at >= Len(raw1) \/ line_end = NPos
  <2>1. f[1] = [req |-> t, at |-> at, done |-> "incomplete"]
    BY <1>5, <1>7
  <2>2. f[1].done # "more" /\ f[1].req = t
    BY <2>1
  <2>3. q = t
    BY <1>4, <1>6, <2>2
  <2>4. Grown(t, q)
    BY <2>3 DEF Grown
  <2>5. QED
    BY <1>4, <2>3, <2>4 DEF q
<1>8. CASE at < Len(raw1) /\ line_end = at
  <2>1. f[1].done = "all"
    BY <1>5, <1>8
  <2>2. f[n] = f[1]
    BY <1>6, <2>1
  <2>3. QED
    BY <1>4, <2>1, <2>2
<1>9. CASE at < Len(raw1) /\ line_end \notin {NPos, at}
  <2>1. f[1].req = ParseFieldLine(line, t)
    BY <1>5, <1>9
  <2>2. line_end \in Int /\ line_end <= Len(raw1)
    BY <1>1, <1>9, FindPair DEF Strings, Crlf
  <2>3. /\ Find(raw2, Crlf, at) = line_end
        /\ Between(raw2, at, line_end) = line
    <3>1. Find(raw2, Crlf, at) = line_end
      BY <1>1, <1>9, PairKept DEF Crlf
    <3> HIDE DEF line_end, at
    <3>2. QED
      BY <1>1, <2>2, <3>1, BetweenKept
  <2> HIDE DEF line_end
  <2>4. line \in Strings
    BY <1>1, <2>2, BetweenTyped
  <2> HIDE DEF line
  <2>5. /\ Grown(t, f[1].req)
        /\ HasErr(f[1].req) \/ NameOf(line) \in DOMAIN f[1].req.fields
    BY <2>1, <2>4, FieldLineGrown
  <2>6. /\ Grown(t, q)
        /\ HasErr(q) \/ NameOf(line) \in DOMAIN q.fields
    BY <1>3, <1>4, <2>5 DEF Grown
  <2>7. ASSUME NEW p, IsReq(p), p.chunked_content_len = q.chunked_content_len,
               DOMAIN q.fields \subseteq DOMAIN p.fields, ~HasErr(q)
        PROVE  HasErr(DecodeTrailers(raw2, p).req)
    <3>1. p.chunked_content_len = t.chunked_content_len
      BY <2>6, <2>7 DEF Grown
    <3>2. p.chunked_content_len # Len(raw2)
      BY <1>1, <1>9, <3>1
    <3>3. DecodeTrailers(raw2, p).req = AllTrailers(raw2, p).req
      BY <3>2, TrailerResult
    <3>4. PICK g : /\ AllTrailers(raw2, p) = g[Len(raw2) + 1]
                   /\ g[1] = TrailerLine(raw2, FirstTrailer(p))
                   /\ Grown(g[1].req, g[Len(raw2) + 1].req)
      BY <2>7, TrailerRun
    <3>5. g[1].req = ParseFieldLine(line, p)
      <4>1. /\ p.chunked_content_len + 1 = at /\ at < Len(raw2)
            /\ Find(raw2, Crlf, at) \notin {NPos, at}
        BY <1>1, <1>9, <2>3, <3>1
      <4> HIDE DEF at
      <4>2. QED
        BY <2>3, <2>7, <3>4, <4>1, FirstTrailerLine
    <3>6. HasErr(g[1].req)
      <4>1. NameOf(line) \in DOMAIN p.fields
        BY <2>6, <2>7
      <4>2. QED
        BY <2>4, <2>7, <3>5, <4>1, FieldLineGrown
    <3>7. QED
      BY <3>3, <3>4, <3>6 DEF Grown
  <2>8. Find(raw1, Crlf, q.chunked_content_len + 1) # NPos
    BY <1>9, <2>6 DEF Grown, line_end
  <2>9. QED
    BY <1>4, <2>6, <2>7, <2>8 DEF q
<1>10. at >= Len(raw1) \/ at < Len(raw1)
  BY <1>1
<1>11. QED
  BY <1>7, <1>8, <1>9, <1>10

-----------------------------------------------------------------------------
(* decode_chunked: the chunks, then the trailer section.                    *)
InTrailers(r) == [r EXCEPT !.parse_state = "chunk_trailers"]

(* What it returns, by the state it is in and how far the chunks go.        *)
LEMMA ChunkedResult ==
  ASSUME NEW raw, NEW r
  PROVE  /\ r.parse_state # "content" =>
              DecodeChunked(raw, r) = DecodeTrailers(raw, InTrailers(r))
         /\ r.parse_state = "content" =>
              DecodeChunked(raw, r) =
                IF AllChunks(raw, r).chunks = "more"
                THEN [req |-> Fail(AllChunks(raw, r).req, "throw"), fully_decoded |-> FALSE]
                ELSE IF AllChunks(raw, r).chunks = "incomplete"
                THEN [req |-> AllChunks(raw, r).req, fully_decoded |-> FALSE]
                ELSE DecodeTrailers(raw, InTrailers(AllChunks(raw, r).req))
<1> DEFINE Result(s) == IF s.chunks = "more"
                        THEN [req |-> Fail(s.req, "throw"), fully_decoded |-> FALSE]
                        ELSE IF s.chunks = "incomplete"
                        THEN [req |-> s.req, fully_decoded |-> FALSE]
                        ELSE DecodeTrailers(raw, [s.req EXCEPT !.parse_state = "chunk_trailers"])
           read == [req |-> r, chunks |-> "all"]
           start == IF r.parse_state # "content" THEN read ELSE AllChunks(raw, r)
<1>1. DecodeChunked(raw, r) = Only({Result(s) : s \in {start}})
  BY Zenon DEF DecodeChunked, AllChunks, FirstChunk
<1>2. {Result(s) : s \in {start}} = {Result(start)}
  OBVIOUS
<1> HIDE DEF start
<1>3. DecodeChunked(raw, r) = Result(start)
  BY <1>1, <1>2, OnlyOne
<1>4. read.chunks = "all" /\ read.req = r
  OBVIOUS
<1> HIDE DEF read
<1>5. \A s : Result(s) = IF s.chunks = "more"
                       THEN [req |-> Fail(s.req, "throw"), fully_decoded |-> FALSE]
                       ELSE IF s.chunks = "incomplete"
                       THEN [req |-> s.req, fully_decoded |-> FALSE]
                       ELSE DecodeTrailers(raw, InTrailers(s.req))
  BY DEF InTrailers
<1> HIDE DEF Result
<1>7. CASE r.parse_state # "content"
  <2>1. start = read
    BY <1>7 DEF start
  <2>2. QED
    BY <1>3, <1>4, <1>5, <1>7, <2>1
<1>8. CASE r.parse_state = "content"
  <2>1. start = AllChunks(raw, r)
    BY <1>8 DEF start
  <2>2. QED
    BY <1>3, <1>5, <1>8, <2>1
<1>9. QED
  BY <1>7, <1>8

(* The step to the trailer section changes the state of the parser only.    *)
LEMMA MovedHead ==
  ASSUME NEW r, IsReq(r), NEW q, IsReq(q), SameHead(r, q)
  PROVE  /\ IsReq(InTrailers(q)) /\ SameHead(r, InTrailers(q))
         /\ InTrailers(q).parse_state = "chunk_trailers"
         /\ InTrailers(q).chunked_content_len = q.chunked_content_len
         /\ InTrailers(q).fields = q.fields
         /\ InTrailers(InTrailers(q)) = InTrailers(q)
<1>1. IsReq(InTrailers(q))
  BY MovedTyped DEF InTrailers, ParseStates
<1>2. /\ InTrailers(q).parse_state = "chunk_trailers"
      /\ InTrailers(q).chunked_content_len = q.chunked_content_len
      /\ InTrailers(q).fields = q.fields
      /\ InTrailers(InTrailers(q)) = InTrailers(q)
  BY DEF IsReq, InTrailers
<1>3. SameHead(r, InTrailers(q))
  BY DEF IsReq, InTrailers, SameHead, IsFun
<1>4. QED
  BY <1>1, <1>2, <1>3

(* The content of which a part has been read before.  When that part ended  *)
(* in the trailer section, either none of it was read or its first line is  *)
(* refused now.                                                             *)
LEMMA ChunkedResumed ==
  ASSUME NEW raw1 \in Strings, NEW raw2 \in Strings, NEW content \in Strings,
         Begins(raw1, raw2), Begins(raw1, content), Begins(raw2, content),
         NEW starts \in SUBSET Nat, PlainChunks(content, starts),
         NEW r, IsReq(r), IsFun(r), r.parse_state = "content",
         r.chunked_content_len = 0, ~DecodeChunked(raw1, r).fully_decoded
  PROVE  LET q == DecodeChunked(raw1, r).req
         IN /\ IsReq(q) /\ q.parse_state \in {"content", "chunk_trailers"}
            /\ \/ SameHead(r, q) /\ DecodeChunked(raw2, q) = DecodeChunked(raw2, r)
               \/ HasErr(q)
               \/ /\ q.parse_state = "chunk_trailers"
                  /\ Find(raw1, Crlf, q.chunked_content_len + 1) # NPos
                  /\ \A name \in DOMAIN r.fields :
                       name \in DOMAIN q.fields /\ q.fields[name] = r.fields[name]
                  /\ \A p : /\ IsReq(p) /\ p.parse_state = "chunk_trailers"
                            /\ p.chunked_content_len = q.chunked_content_len
                            /\ DOMAIN q.fields \subseteq DOMAIN p.fields
                            => HasErr(DecodeChunked(raw2, p).req)
<1> DEFINE s1 == AllChunks(raw1, r)
           s2 == AllChunks(raw2, r)
           t == InTrailers(s1.req)
           q == DecodeChunked(raw1, r).req
<1>1. /\ IsReq(s1.req) /\ SameHead(r, s1.req) /\ s1.req.parse_state = "content"
      /\ s1.chunks = "all" => s2 = s1
      /\ s1.chunks # "all" => AllChunks(raw2, s1.req) = s2
      /\ s1.chunks \in {"all", "incomplete"} /\ s2.chunks \in {"all", "incomplete"}
  BY ChunksResumed
<1>2. DecodeChunked(raw1, r) = IF s1.chunks # "all"
                               THEN [req |-> s1.req, fully_decoded |-> FALSE]
                               ELSE DecodeTrailers(raw1, t)
  BY <1>1, ChunkedResult
<1>3. DecodeChunked(raw2, r) = IF s2.chunks # "all"
                               THEN [req |-> s2.req, fully_decoded |-> FALSE]
                               ELSE DecodeTrailers(raw2, InTrailers(s2.req))
  BY <1>1, ChunkedResult
<1>4. \A p : p.parse_state = "chunk_trailers" =>
        DecodeChunked(raw2, p) = DecodeTrailers(raw2, InTrailers(p))
  <2> SUFFICES ASSUME NEW p, p.parse_state = "chunk_trailers"
               PROVE  DecodeChunked(raw2, p) = DecodeTrailers(raw2, InTrailers(p))
    OBVIOUS
  <2>1. p.parse_state # "content"
    OBVIOUS
  <2>2. QED
    BY <2>1, ChunkedResult
<1>5. /\ IsReq(t) /\ SameHead(r, t) /\ t.parse_state = "chunk_trailers"
      /\ InTrailers(t) = t
  BY <1>1, MovedHead
<1> HIDE DEF s1, s2, t
<1>6. CASE s1.chunks # "all"
  <2>1. q = s1.req
    BY <1>2, <1>6
  <2> HIDE DEF q
  <2>2. AllChunks(raw2, q) = s2
    BY <1>1, <1>6, <2>1
  <2>3. DecodeChunked(raw2, q) = IF s2.chunks # "all"
                                 THEN [req |-> s2.req, fully_decoded |-> FALSE]
                                 ELSE DecodeTrailers(raw2, InTrailers(s2.req))
    BY <1>1, <2>1, <2>2, ChunkedResult
  <2>4. DecodeChunked(raw2, q) = DecodeChunked(raw2, r)
    BY <1>3, <2>3
  <2>5. IsReq(q) /\ SameHead(r, q) /\ q.parse_state = "content"
    BY <1>1, <2>1
  <2>6. QED
    BY <2>4, <2>5 DEF q
<1>7. CASE s1.chunks = "all"
  <2>1. DecodeChunked(raw1, r) = DecodeTrailers(raw1, t)
    BY <1>2, <1>7
  <2>2. q = DecodeTrailers(raw1, t).req /\ ~DecodeTrailers(raw1, t).fully_decoded
    BY <2>1
  <2>3. DecodeChunked(raw2, r) = DecodeTrailers(raw2, t)
    BY <1>1, <1>3, <1>7 DEF t
  <2> HIDE DEF q
  <2>4. /\ IsReq(q) /\ Grown(t, q)
        /\ \/ q = t
           \/ HasErr(q)
           \/ /\ Find(raw1, Crlf, q.chunked_content_len + 1) # NPos
              /\ \A p : /\ IsReq(p) /\ p.chunked_content_len = q.chunked_content_len
                        /\ DOMAIN q.fields \subseteq DOMAIN p.fields
                        => HasErr(DecodeTrailers(raw2, p).req)
    BY <1>5, <2>2, TrailersResumed
  <2>5. q.parse_state = "chunk_trailers"
    BY <1>5, <2>4 DEF Grown
  <2>6. ASSUME q = t
        PROVE  SameHead(r, q) /\ DecodeChunked(raw2, q) = DecodeChunked(raw2, r)
    BY <1>4, <1>5, <2>3, <2>6
  <2>7. \A name \in DOMAIN r.fields :
          name \in DOMAIN q.fields /\ q.fields[name] = r.fields[name]
    BY <1>5, <2>4 DEF Grown, SameHead
  <2>8. ASSUME Find(raw1, Crlf, q.chunked_content_len + 1) # NPos,
               \A p : /\ IsReq(p) /\ p.chunked_content_len = q.chunked_content_len
                      /\ DOMAIN q.fields \subseteq DOMAIN p.fields
                      => HasErr(DecodeTrailers(raw2, p).req),
               NEW p, IsReq(p), p.parse_state = "chunk_trailers",
               p.chunked_content_len = q.chunked_content_len,
               DOMAIN q.fields \subseteq DOMAIN p.fields
        PROVE  HasErr(DecodeChunked(raw2, p).req)
    <3>1. /\ IsReq(InTrailers(p))
          /\ InTrailers(p).chunked_content_len = p.chunked_content_len
          /\ InTrailers(p).fields = p.fields
      BY <2>8, MovedTyped DEF InTrailers, IsReq, ParseStates
    <3>2. HasErr(DecodeTrailers(raw2, InTrailers(p)).req)
      BY <2>8, <3>1
    <3>3. QED
      BY <1>4, <2>8, <3>2
  <2>9. QED
    BY <2>4, <2>5, <2>6, <2>7, <2>8 DEF q
<1>8. QED
  BY <1>6, <1>7

-----------------------------------------------------------------------------
(* At most one coding is chunked, and no other follows it.                  *)
LEMMA OneChunked ==
  ASSUME NEW codings, IsList(codings),
         ~(Cardinality({i \in DOMAIN codings : codings[i] = Chunked}) > 1),
         {i \in DOMAIN codings : codings[i] = Chunked} = {} \/ Last(codings) = Chunked
  PROVE  \A i \in 1 .. Len(codings) - 1 : codings[i] # Chunked
<1> DEFINE n == Len(codings)
           chunks == {i \in DOMAIN codings : codings[i] = Chunked}
<1> SUFFICES ASSUME NEW i \in 1 .. n - 1, codings[i] = Chunked PROVE FALSE
  OBVIOUS
<1>1. n \in Nat /\ DOMAIN codings = 1 .. n
  BY DEF IsList
<1>2. i \in chunks /\ n \in chunks /\ i # n
  <2> HIDE DEF n, chunks
  <2>1. i \in 1 .. n /\ n \in 1 .. n /\ i # n
    BY <1>1
  <2> USE DEF chunks
  <2>2. i \in chunks
    BY <1>1, <2>1
  <2>3. chunks # {}
    BY <2>2
  <2>4. codings[n] = Chunked
    BY <2>3 DEF Last, n
  <2>5. QED
    BY <1>1, <2>1, <2>2, <2>4
<1>3. IsFiniteSet(chunks)
  <2>1. IsFiniteSet(1 .. n) /\ chunks \in SUBSET (1 .. n)
    BY <1>1, FS_Interval
  <2> HIDE DEF chunks, n
  <2>2. QED
    BY <2>1, FS_Subset
<1>4. ~(Cardinality(chunks) > 1)
  OBVIOUS
<1> HIDE DEF chunks
<1>5. Cardinality({n}) = 1 /\ {n} \in SUBSET chunks
  BY <1>2, FS_Singleton
<1>6. Cardinality(chunks) \in Nat
  BY <1>3, FS_CardinalityType
<1>7. Cardinality({n}) <= Cardinality(chunks) /\ (Cardinality(chunks) = Cardinality({n}) => chunks = {n})
  BY <1>3, <1>5, FS_Subset
<1>8. QED
  BY <1>2, <1>4, <1>5, <1>6, <1>7

(* Where nothing throws, the codings in front of it are known.              *)
LEMMA CodingsKnown ==
  ASSUME NEW raw, NEW r, IsReq(r), NEW codings, IsList(codings), Len(codings) # 0,
         \A i \in 1 .. Len(codings) - 1 : codings[i] # Chunked,
         ~HasErr(DecodeAll(raw, r, codings).req)
  PROVE  \A i \in 1 .. Len(codings) - 1 : codings[i] \in Undecoded
<1> DEFINE first == [req |-> r, fully_decoded |-> TRUE]
           thrown == [req |-> Fail(r, "throw"), fully_decoded |-> FALSE]
           n == Len(codings)
<1>1. n \in Nat /\ n >= 1
  BY DEF IsList
<1> HIDE DEF n
<1>2. DecodeAll(raw, r, codings) = AllLoop!Iterate(raw, codings, first, n)
  <2> HIDE DEF first
  <2>1. QED
    BY Zenon DEF DecodeAll, Fold, AllLoop!Iterate, AllLoop!StatesOf,
                 AllLoop!Once, AllBody, Only, AllLoop!Only, first, n
<1>3. first.fully_decoded /\ first.req = r
  OBVIOUS
<1>4. ~thrown.fully_decoded /\ HasErr(thrown.req)
  BY FailGrown
<1>5. \A i \in 1 .. n : AllBody(raw, codings, i, thrown) = thrown
  <2> HIDE DEF thrown
  <2>1. QED
    BY <1>4, Zenon DEF AllBody
<1>6. \A i \in 1 .. n - 1 :
        \/ codings[i] \in Undecoded /\ AllBody(raw, codings, i, first) = first
        \/ AllBody(raw, codings, i, first) = thrown
  <2> SUFFICES ASSUME NEW i \in 1 .. n - 1
               PROVE  \/ codings[i] \in Undecoded /\ AllBody(raw, codings, i, first) = first
                      \/ AllBody(raw, codings, i, first) = thrown
    OBVIOUS
  <2>1. codings[i] # Chunked
    BY DEF n
  <2>2. Decode(codings[i], raw, r) = IF codings[i] \in Undecoded THEN first ELSE thrown
    BY <2>1, Zenon DEF Decode
  <2> HIDE DEF first, thrown
  <2>3. AllBody(raw, codings, i, first) = Decode(codings[i], raw, r)
    BY <1>3 DEF AllBody
  <2>4. QED
    BY <2>2, <2>3
<1> HIDE DEF first, thrown
<1>7. PICK f : AllLoop!IsRun(f, raw, codings, first, n)
  BY <1>1, AllLoop!States, Zenon
<1>8. /\ f[0] = first
      /\ \A i \in 1 .. n : f[i] = AllBody(raw, codings, i, f[i - 1])
      /\ DecodeAll(raw, r, codings) = f[n]
  BY <1>2, <1>7 DEF AllLoop!IsRun
<1> DEFINE S == {i \in Nat : i <= n - 1 =>
                   \/ f[i] = thrown
                   \/ f[i] = first /\ \A k \in 1 .. i : codings[k] \in Undecoded}
<1>9. 0 \in S
  BY <1>8
<1>10. ASSUME NEW i \in Nat, i \in S PROVE i + 1 \in S
  <2> SUFFICES ASSUME i + 1 <= n - 1
               PROVE  \/ f[i + 1] = thrown
                      \/ f[i + 1] = first /\ \A k \in 1 .. i + 1 : codings[k] \in Undecoded
    OBVIOUS
  <2>1. /\ i + 1 \in 1 .. n /\ i + 1 \in 1 .. n - 1 /\ (i + 1) - 1 = i
        /\ \/ f[i] = thrown
           \/ f[i] = first /\ \A k \in 1 .. i : codings[k] \in Undecoded
    BY <1>1, <1>10
  <2>2. f[i + 1] = AllBody(raw, codings, i + 1, f[i])
    BY <1>8, <2>1
  <2>3. \A k \in 1 .. i + 1 : k \in 1 .. i \/ k = i + 1
    OBVIOUS
  <2>4. CASE f[i] = thrown
    BY <1>5, <2>1, <2>2, <2>4
  <2>5. CASE f[i] = first /\ \A k \in 1 .. i : codings[k] \in Undecoded
    BY <1>6, <2>1, <2>2, <2>3, <2>5
  <2>6. QED
    BY <2>1, <2>4, <2>5
<1> HIDE DEF S
<1>11. n - 1 \in S
  BY <1>1, <1>9, <1>10, AllLoop!Induction
<1>12. f[n - 1] # thrown
  <2> SUFFICES ASSUME f[n - 1] = thrown PROVE FALSE
    OBVIOUS
  <2>1. n \in 1 .. n
    BY <1>1
  <2>2. f[n] = thrown
    BY <1>5, <1>8, <2>1
  <2>3. QED
    BY <1>4, <1>8, <2>2
<1>13. QED
  BY <1>1, <1>11, <1>12 DEF S, n

(* The codings in front of it do nothing.                                   *)
LEMMA LastDecodes ==
  ASSUME NEW raw, NEW r, NEW codings, IsList(codings), Len(codings) # 0,
         \A i \in 1 .. Len(codings) - 1 : codings[i] \in Undecoded
  PROVE  DecodeAll(raw, r, codings) = Decode(codings[Len(codings)], raw, r)
<1> DEFINE first == [req |-> r, fully_decoded |-> TRUE]
           n == Len(codings)
<1>1. n \in Nat /\ n >= 1
  BY DEF IsList
<1> HIDE DEF n
<1>2. DecodeAll(raw, r, codings) = AllLoop!Iterate(raw, codings, first, n)
  <2> HIDE DEF first
  <2>1. QED
    BY Zenon DEF DecodeAll, Fold, AllLoop!Iterate, AllLoop!StatesOf,
                 AllLoop!Once, AllBody, Only, AllLoop!Only, first, n
<1>3. first.fully_decoded /\ first.req = r
  OBVIOUS
<1>4. \A i : AllBody(raw, codings, i, first) = Decode(codings[i], raw, r)
  <2> HIDE DEF first
  <2>1. QED
    BY <1>3 DEF AllBody
<1>5. \A i \in 1 .. n - 1 : AllBody(raw, codings, i, first) = first
  <2> SUFFICES ASSUME NEW i \in 1 .. n - 1 PROVE AllBody(raw, codings, i, first) = first
    OBVIOUS
  <2>1. codings[i] \in Undecoded
    BY DEF n
  <2>2. Decode(codings[i], raw, r) = first
    BY <2>1 DEF Decode, Undecoded, Chunked
  <2> HIDE DEF first
  <2>3. QED
    BY <1>4, <2>2
<1> HIDE DEF first
<1>6. PICK f : AllLoop!IsRun(f, raw, codings, first, n)
  BY <1>1, AllLoop!States, Zenon
<1>7. /\ f[0] = first
      /\ \A i \in 1 .. n : f[i] = AllBody(raw, codings, i, f[i - 1])
      /\ DecodeAll(raw, r, codings) = f[n]
  BY <1>2, <1>6 DEF AllLoop!IsRun
<1> DEFINE S == {i \in Nat : i <= n - 1 => f[i] = first}
<1>8. 0 \in S
  BY <1>7
<1>9. ASSUME NEW i \in Nat, i \in S PROVE i + 1 \in S
  <2> SUFFICES ASSUME i + 1 <= n - 1 PROVE f[i + 1] = first
    OBVIOUS
  <2>1. i + 1 \in 1 .. n /\ i + 1 \in 1 .. n - 1 /\ (i + 1) - 1 = i /\ f[i] = first
    BY <1>1, <1>9
  <2>2. QED
    BY <1>5, <1>7, <2>1
<1> HIDE DEF S
<1>10. f[n - 1] = first
  <2>1. n - 1 \in S
    BY <1>1, <1>8, <1>9, AllLoop!Induction
  <2>2. QED
    BY <1>1, <2>1 DEF S
<1>11. f[n] = AllBody(raw, codings, n, f[n - 1])
  BY <1>1, <1>7
<1>12. QED
  BY <1>4, <1>7, <1>10, <1>11 DEF n

-----------------------------------------------------------------------------
(* The codings a field names are those its value names.                     *)
LEMMA FieldListKept ==
  ASSUME NEW r, NEW q, NEW name, HasField(r, name) <=> HasField(q, name),
         HasField(r, name) => Field(q, name) = Field(r, name)
  PROVE  ParseFieldList(q, name) = ParseFieldList(r, name)
<1> DEFINE Bad(v) == {i \in DOMAIN v : v[i] = 0}
           Result(v) == [codings |-> IF Bad(v) = {} THEN v ELSE SubSeq(v, 1, Min(Bad(v)) - 1),
                         unknown |-> Bad(v) # {}]
           List(value) == Only({Result(v) : v \in {[i \in DOMAIN w |-> KeywordVal(w[i])] :
                                                     w \in {ParseList(value)}}})
<1>1. \A p : ParseFieldList(p, name) =
               IF ~HasField(p, name) THEN [codings |-> <<>>, unknown |-> FALSE]
               ELSE List(Field(p, name))
  BY Zenon DEF ParseFieldList
<1> HIDE DEF List
<1>2. QED
  BY <1>1, Zenon

(* Whether a content type is known depends on the fields.                   *)
LEMMA TypeKept ==
  ASSUME NEW r, IsReq(r), NEW q, q.fields = r.fields, ~HasErr(r), CheckContentType(r) = r
  PROVE  CheckContentType(q) = q
<1> DEFINE Slash(v) == Find(v, <<"/">>, 0)
           Semi(v) == Find(v, <<";">>, Slash(v))
           Type(v) == IF Slash(v) = NPos THEN v ELSE Between(v, 0, Slash(v))
           Sub(v) == IF Slash(v) = NPos THEN <<>>
                     ELSE IF Semi(v) = NPos THEN After(v, Slash(v) + 1)
                     ELSE Substr(v, Slash(v) + 1, Semi(v) - Slash(v))
           Bad(v) == KeywordVal(Type(v)) = 0 \/ KeywordVal(Sub(v)) = 0
<1>1. \A p : CheckContentType(p) = IF Bad(Field(p, "content-type")) THEN Fail(p, "415") ELSE p
  BY Zenon DEF CheckContentType
<1> HIDE DEF Bad
<1>2. HasErr(Fail(r, "415"))
  BY FailGrown
<1>3. Field(q, "content-type") = Field(r, "content-type")
  BY DEF Field
<1>4. QED
  BY <1>1, <1>2, <1>3, Zenon

(* The fields that describe the content, when nothing is wrong with them.   *)
ContentFieldsRead(r, q) ==
  /\ ~HasErr(r) /\ ~HasErr(q)
  /\ ~ParseFieldList(r, "transfer-encoding").unknown
  /\ ~ParseFieldList(r, "content-encoding").unknown
  /\ q.parse_state = r.parse_state /\ q.chunked_content_len = r.chunked_content_len
  /\ q.uri = r.uri /\ q.method = r.method
  /\ DOMAIN q.fields = DOMAIN r.fields \cup {<<"content-type">>}
  /\ \A name \in DOMAIN r.fields : q.fields[name] = r.fields[name]
  /\ IsFun(q)
  /\ ParseContentLen(q) = q /\ CheckContentType(q) = q

(* A request with the same fields, and how it differs.                      *)
Sized(r, p) ==
  /\ IsReq(p) /\ IsFun(p) /\ p.fields = r.fields
  /\ p.parse_state = r.parse_state /\ p.chunked_content_len = r.chunked_content_len
  /\ p.uri = r.uri /\ p.method = r.method

(* A content length that is accepted changes the length only.               *)
LEMMA LengthPass ==
  ASSUME NEW r, NEW p, Sized(r, p), ~HasErr(ParseContentLen(p))
  PROVE  LET q == ParseContentLen(p)
         IN /\ Sized(r, q) /\ q.err = p.err
            /\ \A t : /\ IsFun(t) /\ {"content_len", "fields"} \subseteq DOMAIN t
                      /\ t.content_len = q.content_len
                      /\ DOMAIN t.fields = DOMAIN r.fields \cup {<<"content-type">>}
                      /\ \A name \in DOMAIN r.fields : t.fields[name] = r.fields[name]
                      => ParseContentLen(t) = t
<1> DEFINE q == ParseContentLen(p)
           Value(t) == Field(t, "content-length")
           Token(t) == Value(t)[1]
           Skipped(t) == ~HasField(t, "content-length") \/ HasField(t, "transfer-encoding")
           Counted(t) == [t EXCEPT !.content_len = Numbers[Token(t)]]
           Bad(t) == Len(Value(t)) # 1 \/ ~IsDigits(Token(t))
           Like(t) == /\ IsFun(t) /\ {"content_len", "fields"} \subseteq DOMAIN t
                      /\ t.content_len = q.content_len
                      /\ DOMAIN t.fields = DOMAIN r.fields \cup {<<"content-type">>}
                      /\ \A name \in DOMAIN r.fields : t.fields[name] = r.fields[name]
<1>1. \A t : ParseContentLen(t) =
               IF Skipped(t) THEN t
               ELSE IF Bad(t) THEN Fail(t, "400")
               ELSE IF Token(t) = "huge" THEN Fail(t, "throw") ELSE Counted(t)
  BY Zenon DEF ParseContentLen
<1>2. HasErr(Fail(p, "throw")) /\ HasErr(Fail(p, "400"))
  BY FailGrown DEF Sized
<1>3. \A t : Like(t) => /\ Skipped(t) <=> Skipped(p)
                        /\ ~Skipped(p) => Value(t) = Value(p)
  BY DEF HasField, Field, Sized
<1> HIDE DEF Skipped, Counted, Bad, Token, Like
<1>4. \/ Skipped(p) /\ q = p
      \/ ~Skipped(p) /\ Token(p) # "huge" /\ ~Bad(p) /\ q = Counted(p)
  BY <1>1, <1>2
<1>5. CASE Skipped(p) /\ q = p
  <2>1. ASSUME NEW t, Like(t) PROVE ParseContentLen(t) = t
    BY <1>1, <1>3, <1>5, <2>1
  <2>2. QED
    BY <1>5, <2>1 DEF Like
<1>6. CASE ~Skipped(p) /\ Token(p) # "huge" /\ ~Bad(p) /\ q = Counted(p)
  <2> DEFINE number == Numbers[Token(p)]
  <2>1. number \in Nat
    BY <1>6 DEF Bad, IsDigits, Numbers
  <2>2. q = [p EXCEPT !.content_len = number]
    BY <1>6 DEF Counted
  <2> HIDE DEF number, q
  <2>3. Sized(r, q) /\ q.err = p.err /\ q.content_len = number
    BY <2>1, <2>2 DEF Sized, IsReq, IsFun
  <2>4. ASSUME NEW t, Like(t) PROVE ParseContentLen(t) = t
    <3>1. Value(t) = Value(p) /\ ~Skipped(t)
      BY <1>3, <1>6, <2>4
    <3>2. Token(t) = Token(p) /\ ~Bad(t)
      BY <1>6, <3>1 DEF Token, Bad
    <3>3. ParseContentLen(t) = Counted(t)
      BY <1>1, <1>6, <3>1, <3>2
    <3>4. Counted(t) = [t EXCEPT !.content_len = number]
      BY <3>2 DEF Counted, number
    <3>5. IsFun(t) /\ "content_len" \in DOMAIN t /\ t.content_len = number
      BY <2>3, <2>4 DEF Like
    <3>6. [t EXCEPT !.content_len = number] = t
      BY <3>5 DEF IsFun
    <3>7. QED
      BY <3>3, <3>4, <3>6
  <2>5. QED
    BY <2>3, <2>4 DEF Like, q
<1>7. QED
  BY <1>4, <1>5, <1>6

(* Fields that are accepted leave the request as ContentFieldsRead says.    *)
LEMMA FieldsPass ==
  ASSUME NEW r, IsReq(r), ~HasErr(ParseContentFields(r))
  PROVE  /\ ContentFieldsRead(r, ParseContentFields(r))
         /\ HasField(r, "transfer-encoding") =>
              ParseContentFields(r).content_len = r.content_len
<1> DEFINE te == ParseFieldList(r, "transfer-encoding").unknown
           ce == ParseFieldList(r, "content-encoding").unknown
           status == IF ce THEN "400" ELSE IF te THEN "501" ELSE r.err
           coded == [r EXCEPT !.err = status]
           sized == ParseContentLen(coded)
           json == <<"application", "/", "json">>
           added == WithField(sized, <<"content-type">>, json)
           typed == IF HasField(sized, "content-type") THEN sized ELSE added
           Result(p) == IF p.err = "throw" THEN p ELSE ParseContentType(p)
           q == ParseContentFields(r)
<1>1. q = Result(sized)
  <2>1. q = Only({Result(p) : p \in {ParseContentLen([r EXCEPT !.err =
                    IF ce THEN "400" ELSE IF te THEN "501" ELSE @])}})
    BY Zenon DEF ParseContentFields
  <2>2. [r EXCEPT !.err = IF ce THEN "400" ELSE IF te THEN "501" ELSE @] = coded
    OBVIOUS
  <2>3. {Result(p) : p \in {sized}} = {Result(sized)}
    OBVIOUS
  <2> HIDE DEF Result, coded
  <2>4. QED
    BY <2>1, <2>2, <2>3, OnlyOne
<1>2. Sized(r, coded) /\ coded.err = status /\ coded.content_len = r.content_len
  <2> HIDE DEF status
  <2>1. QED
    BY DEF Sized, IsReq, IsFun
<1> HIDE DEF coded
<1>3. IsReq(sized)
  BY <1>2, ContentLenTyped DEF Sized
<1> HIDE DEF sized, te, ce
<1>4. HasErr(added) <=> HasErr(sized)
  BY <1>3 DEF HasErr, WithField, IsReq
<1>5. IsReq(added)
  <2>1. json \in Strings
    <3>1. {"application", "/", "json"} \subseteq Symbols
      BY DEF Symbols
    <3> HIDE DEF Symbols
    <3>2. QED
      BY <3>1 DEF Strings
  <2>2. QED
    BY <1>3, <2>1, FieldTyped
<1>6. ParseContentType(sized) = CheckContentType(typed)
  BY Zenon DEF ParseContentType
<1>7. CheckContentType(typed) = typed \/ CheckContentType(typed) = Fail(typed, "415")
  BY Zenon DEF CheckContentType
<1> HIDE DEF added
<1>8. HasErr(Fail(typed, "415"))
  BY <1>3, <1>5, FailGrown
<1>9. ~HasErr(sized)
  <2> SUFFICES ASSUME HasErr(sized) PROVE FALSE
    OBVIOUS
  <2>1. HasErr(typed)
    BY <1>4
  <2>2. HasErr(Result(sized))
    BY <1>6, <1>7, <1>8, <2>1
  <2>3. QED
    BY <1>1, <2>2
<1>10. q = typed /\ CheckContentType(q) = q
  <2>1. q = CheckContentType(typed)
    BY <1>1, <1>6, <1>9 DEF HasErr
  <2> HIDE DEF typed
  <2>2. QED
    BY <1>7, <1>8, <2>1
<1>11. /\ Sized(r, sized) /\ sized.err = status
       /\ \A t : /\ IsFun(t) /\ {"content_len", "fields"} \subseteq DOMAIN t
                 /\ t.content_len = sized.content_len
                 /\ DOMAIN t.fields = DOMAIN r.fields \cup {<<"content-type">>}
                 /\ \A name \in DOMAIN r.fields : t.fields[name] = r.fields[name]
                 => ParseContentLen(t) = t
  BY <1>2, <1>9, LengthPass DEF sized
<1>12. ~ce /\ ~te /\ r.err = "none"
  BY <1>9, <1>11 DEF HasErr
<1> HIDE DEF status
<1>13. /\ IsFun(typed) /\ {"content_len", "fields"} \subseteq DOMAIN typed
       /\ typed.content_len = sized.content_len
       /\ DOMAIN typed.fields = DOMAIN r.fields \cup {<<"content-type">>}
       /\ \A name \in DOMAIN r.fields : typed.fields[name] = r.fields[name]
       /\ typed.parse_state = r.parse_state /\ typed.uri = r.uri /\ typed.method = r.method
       /\ typed.chunked_content_len = r.chunked_content_len
  <2>1. CASE HasField(sized, "content-type")
    BY <1>11, <2>1 DEF Sized, IsReq, HasField
  <2>2. CASE ~HasField(sized, "content-type")
    <3> DEFINE fields == [n \in DOMAIN r.fields \cup {<<"content-type">>} |->
                            IF n = <<"content-type">> THEN json ELSE r.fields[n]]
    <3>1. added = [sized EXCEPT !.fields = fields]
      BY <1>11 DEF added, WithField, Sized
    <3>2. /\ DOMAIN fields = DOMAIN r.fields \cup {<<"content-type">>}
          /\ \A name \in DOMAIN r.fields : fields[name] = r.fields[name]
      BY <1>11, <2>2 DEF HasField, Sized
    <3> HIDE DEF fields
    <3>3. /\ IsFun(added) /\ {"content_len", "fields"} \subseteq DOMAIN added
          /\ added.content_len = sized.content_len /\ added.fields = fields
          /\ added.parse_state = r.parse_state /\ added.uri = r.uri
          /\ added.method = r.method
          /\ added.chunked_content_len = r.chunked_content_len
      BY <1>11, <3>1 DEF Sized, IsReq, IsFun
    <3>4. typed = added
      BY <2>2
    <3> HIDE DEF typed
    <3>5. QED
      BY <3>2, <3>3, <3>4
  <2>3. QED
    BY <2>1, <2>2
<1>14. HasField(r, "transfer-encoding") => sized.content_len = r.content_len
  <2> SUFFICES ASSUME HasField(r, "transfer-encoding")
               PROVE  sized.content_len = r.content_len
    OBVIOUS
  <2>1. HasField(coded, "transfer-encoding")
    BY <1>2 DEF HasField, Sized
  <2>2. sized = coded
    BY <2>1, Zenon DEF sized, ParseContentLen
  <2>3. QED
    BY <1>2, <2>2
<1> HIDE DEF typed
<1>15. ParseContentLen(typed) = typed
  BY <1>11, <1>13
<1>16. ~HasErr(r)
  BY <1>12 DEF HasErr
<1> HIDE DEF q
<1>17. ~HasErr(q)
  BY DEF q
<1>18. QED
  BY <1>10, <1>12, <1>13, <1>14, <1>15, <1>16, <1>17 DEF ContentFieldsRead, te, ce, q

(* Read again, when the content has come further, they say the same.        *)
LEMMA FieldsResumed ==
  ASSUME NEW r, IsReq(r), NEW q, ContentFieldsRead(r, q), IsReq(q),
         NEW c, IsReq(c), SameHead(q, c), c = q \/ HasField(q, "transfer-encoding")
  PROVE  ParseContentFields(c) = c
<1> DEFINE te == ParseFieldList(c, "transfer-encoding").unknown
           ce == ParseFieldList(c, "content-encoding").unknown
           Result(p) == IF p.err = "throw" THEN p ELSE ParseContentType(p)
           coded == [c EXCEPT !.err = IF ce THEN "400" ELSE IF te THEN "501" ELSE @]
<1>1. ~HasErr(c) /\ c.fields = q.fields /\ IsFun(c)
  BY DEF ContentFieldsRead, SameHead, HasErr
<1>2. ASSUME NEW name, <<name>> # <<"content-type">>
      PROVE  ParseFieldList(c, name) = ParseFieldList(r, name)
  <2>1. HasField(c, name) <=> HasField(r, name)
    BY <1>1, <1>2 DEF ContentFieldsRead, HasField
  <2>2. HasField(r, name) => Field(c, name) = Field(r, name)
    BY <1>1 DEF ContentFieldsRead, HasField, Field
  <2>3. QED
    BY <2>1, <2>2, FieldListKept
<1>3. ~te /\ ~ce
  <2>1. /\ ParseFieldList(c, "transfer-encoding") = ParseFieldList(r, "transfer-encoding")
        /\ ParseFieldList(c, "content-encoding") = ParseFieldList(r, "content-encoding")
    BY <1>2
  <2>2. QED
    BY <2>1 DEF ContentFieldsRead
<1>4. ParseContentFields(c) = Only({Result(p) : p \in {ParseContentLen(coded)}})
  BY Zenon DEF ParseContentFields
<1> HIDE DEF te, ce
<1>5. coded = c
  <2>1. coded = [c EXCEPT !.err = c.err]
    BY <1>3
  <2>2. QED
    BY <1>1, <2>1 DEF IsFun, IsReq
<1> HIDE DEF coded
<1>6. ParseContentLen(c) = c
  <2>1. CASE c = q
    BY <2>1 DEF ContentFieldsRead
  <2>2. CASE HasField(q, "transfer-encoding")
    <3>1. HasField(c, "transfer-encoding")
      BY <1>1, <2>2 DEF HasField
    <3>2. QED
      BY <3>1, Zenon DEF ParseContentLen
  <2>3. QED
    BY <2>1, <2>2
<1>7. {Result(p) : p \in {c}} = {Result(c)}
  OBVIOUS
<1>8. Result(c) = c
  <2>1. CheckContentType(c) = c
    BY <1>1, TypeKept DEF ContentFieldsRead
  <2>2. HasField(c, "content-type")
    BY <1>1 DEF ContentFieldsRead, HasField
  <2>3. ParseContentType(c) = CheckContentType(c)
    BY <2>2, Zenon DEF ParseContentType
  <2>4. QED
    BY <2>1, <2>3
<1> HIDE DEF Result
<1>9. QED
  BY <1>4, <1>5, <1>6, <1>7, <1>8, OnlyOne

-----------------------------------------------------------------------------
(* What delimits the content of a request without an error.                 *)
LEMMA TransferCases ==
  ASSUME NEW raw, NEW r, IsReq(r), NEW codings, IsList(codings),
         ~HasErr(DecodeTransfer(raw, r, codings).req)
  PROVE  \/ /\ codings # <<>> /\ Len(codings) # 0 /\ codings[Len(codings)] = Chunked
            /\ ~HasField(r, "content-length")
            /\ \A text, q : ~HasField(q, "content-length") =>
                 DecodeTransfer(text, q, codings) = DecodeChunked(text, q)
         \/ /\ codings = <<>> /\ HasField(r, "content-length")
            /\ r.content_len > Len(raw)
            /\ DecodeTransfer(raw, r, codings) = [req |-> r, fully_decoded |-> FALSE]
         \/ DecodeTransfer(raw, r, codings).fully_decoded
<1> DEFINE chunks == {i \in DOMAIN codings : codings[i] = Chunked}
           Refused(q) == \/ HasField(q, "content-length")
                         \/ Cardinality(chunks) > 1
                         \/ chunks # {} /\ Last(codings) # Chunked
           Taken(text, q) == [req |-> [q EXCEPT !.content = Substr(text, 0, q.content_len)],
                              fully_decoded |-> TRUE]
           None(q) == [req |-> IF q.method = Get THEN q ELSE Fail(q, "411"),
                       fully_decoded |-> q.method = Get]
           d == DecodeTransfer(raw, r, codings)
<1>1. \A text, q : DecodeTransfer(text, q, codings) =
        IF codings # <<>>
        THEN IF Refused(q) THEN [req |-> Fail(q, "400"), fully_decoded |-> FALSE]
             ELSE DecodeAll(text, q, codings)
        ELSE IF HasField(q, "content-length")
        THEN IF q.content_len > Len(text)
             THEN [req |-> q, fully_decoded |-> FALSE]
             ELSE Taken(text, q)
        ELSE None(q)
  BY Zenon DEF DecodeTransfer
<1>2. HasErr(Fail(r, "400")) /\ HasErr(Fail(r, "411"))
  BY FailGrown
<1>3. CASE codings # <<>>
  <2>1. ~Refused(r)
    <3> SUFFICES ASSUME Refused(r) PROVE FALSE
      OBVIOUS
    <3> HIDE DEF Refused
    <3>1. d = [req |-> Fail(r, "400"), fully_decoded |-> FALSE]
      BY <1>1, <1>3
    <3>2. d.req = Fail(r, "400")
      BY <3>1
    <3>3. QED
      BY <1>2, <3>2
  <2>2. \A i \in 1 .. Len(codings) - 1 : codings[i] # Chunked
    <3>1. chunks = {} \/ Last(codings) = Chunked
      BY <2>1
    <3>2. ~(Cardinality(chunks) > 1)
      BY <2>1
    <3>3. QED
      BY <3>1, <3>2, OneChunked
  <2>3. Len(codings) # 0
    BY <1>3 DEF IsList
  <2>a. d = DecodeAll(raw, r, codings)
    <3> HIDE DEF Refused
    <3>1. QED
      BY <1>1, <1>3, <2>1
  <2>b. \A i \in 1 .. Len(codings) - 1 : codings[i] \in Undecoded
    BY <2>2, <2>3, <2>a, CodingsKnown
  <2>4. \A text, q : DecodeAll(text, q, codings) = Decode(codings[Len(codings)], text, q)
    BY <2>b, <2>3, LastDecodes
  <2>5. \A q : Refused(q) <=> HasField(q, "content-length")
    BY <2>1
  <2> HIDE DEF Refused
  <2>6. \A text, q : ~HasField(q, "content-length") =>
          DecodeTransfer(text, q, codings) = Decode(codings[Len(codings)], text, q)
    BY <1>1, <1>3, <2>4, <2>5
  <2>7. ~HasField(r, "content-length")
    BY <2>1, <2>5
  <2>8. CASE codings[Len(codings)] = Chunked
    BY <1>3, <2>3, <2>6, <2>7, <2>8 DEF Decode
  <2>9. CASE codings[Len(codings)] # Chunked
    <3>1. \/ d = [req |-> r, fully_decoded |-> TRUE]
          \/ d = [req |-> Fail(r, "throw"), fully_decoded |-> FALSE]
      BY <2>6, <2>7, <2>9 DEF Decode
    <3>2. d # [req |-> Fail(r, "throw"), fully_decoded |-> FALSE]
      <4> SUFFICES ASSUME d = [req |-> Fail(r, "throw"), fully_decoded |-> FALSE]
                   PROVE  FALSE
        OBVIOUS
      <4>1. d.req = Fail(r, "throw")
        OBVIOUS
      <4> HIDE DEF d
      <4>2. HasErr(d.req)
        BY <4>1, FailGrown
      <4>3. QED
        BY <4>2 DEF d
    <3>3. QED
      BY <3>1, <3>2
  <2>10. QED
    BY <2>8, <2>9
<1>4. CASE codings = <<>> /\ HasField(r, "content-length")
  <2> HIDE DEF Taken, None, Refused
  <2>1. d = IF r.content_len > Len(raw) THEN [req |-> r, fully_decoded |-> FALSE]
            ELSE Taken(raw, r)
    BY <1>1, <1>4
  <2>2. Taken(raw, r).fully_decoded
    BY DEF Taken
  <2>3. QED
    BY <1>4, <2>1, <2>2
<1>5. CASE codings = <<>> /\ ~HasField(r, "content-length")
  <2> HIDE DEF Taken, Refused
  <2>1. d = None(r)
    BY <1>1, <1>5
  <2>2. r.method = Get
    <3> SUFFICES ASSUME r.method # Get PROVE FALSE
      OBVIOUS
    <3>1. None(r).req = Fail(r, "411")
      OBVIOUS
    <3>2. QED
      BY <1>2, <2>1, <3>1
  <2>3. None(r) = [req |-> r, fully_decoded |-> TRUE]
    BY <2>2
  <2> HIDE DEF None
  <2>4. d.fully_decoded = TRUE
    BY <2>1, <2>3
  <2>5. QED
    BY <2>4
<1>6. QED
  BY <1>3, <1>4, <1>5

(* What is left of the content once it is delimited.                        *)
Finished(d, encodings) ==
  IF ~d.fully_decoded THEN d.req
  ELSE [DecodeContent(d.req, encodings) EXCEPT !.parse_state = "complete"]

CodingsOf(r) == ParseFieldList(r, "transfer-encoding").codings

EncodingsOf(r) == ParseFieldList(r, "content-encoding").codings

(* What parse_content makes of content whose codings are known.             *)
LEMMA ReadResult ==
  ASSUME NEW raw, NEW r
  PROVE  ReadContent(raw, r) = Finished(DecodeTransfer(raw, r, CodingsOf(r)), EncodingsOf(r))
<1> DEFINE d == DecodeTransfer(raw, r, CodingsOf(r))
<1>1. ReadContent(raw, r) =
        Only({Finished(e, EncodingsOf(r)) :
                e \in {DecodeTransfer(raw, r, c) : c \in {CodingsOf(r)}}})
  BY Zenon DEF ReadContent, Finished, CodingsOf, EncodingsOf
<1>2. {Finished(e, EncodingsOf(r)) :
         e \in {DecodeTransfer(raw, r, c) : c \in {CodingsOf(r)}}} = {Finished(d, EncodingsOf(r))}
  OBVIOUS
<1> HIDE DEF d
<1>3. QED
  BY <1>1, <1>2, OnlyOne DEF d

(* It is complete, or not delimited yet.                                    *)
LEMMA ReadCases ==
  ASSUME NEW raw \in Strings, NEW r, IsReq(r)
  PROVE  LET d == DecodeTransfer(raw, r, CodingsOf(r))
         IN /\ IsReq(d.req) /\ IsList(CodingsOf(r))
            /\ d.fully_decoded => ReadContent(raw, r).parse_state = "complete"
            /\ ~d.fully_decoded => ReadContent(raw, r) = d.req
<1> DEFINE d == DecodeTransfer(raw, r, CodingsOf(r))
           undone == DecodeContent(d.req, EncodingsOf(r))
<1>1. IsList(CodingsOf(r))
  BY CodingsTyped DEF CodingsOf
<1>2. IsReq(d.req)
  BY <1>1, TransferTyped DEF IsList
<1> HIDE DEF d
<1>3. IsReq(undone)
  BY <1>2, CodingsTyped, DecodeContentTyped DEF IsList, EncodingsOf
<1> HIDE DEF undone
<1>4. [undone EXCEPT !.parse_state = "complete"].parse_state = "complete"
  BY <1>3 DEF IsReq
<1>5. ReadContent(raw, r) = Finished(d, EncodingsOf(r))
  BY ReadResult DEF d
<1>6. /\ d.fully_decoded =>
           Finished(d, EncodingsOf(r)) = [undone EXCEPT !.parse_state = "complete"]
      /\ ~d.fully_decoded => Finished(d, EncodingsOf(r)) = d.req
  BY DEF Finished, undone
<1>7. QED
  BY <1>1, <1>2, <1>4, <1>5, <1>6 DEF d

(* The content of a request of which a part has been read before.           *)
LEMMA ReadResumed ==
  ASSUME NEW raw1 \in Strings, NEW raw2 \in Strings, NEW content \in Strings,
         Begins(raw1, raw2), Begins(raw1, content), Begins(raw2, content),
         NEW starts \in SUBSET Nat, NEW q, IsReq(q), IsFun(q), ~HasErr(q),
         HasField(q, "transfer-encoding") => PlainChunks(content, starts),
         q.parse_state = "content", q.chunked_content_len = 0,
         IsParsingIncomplete(ReadContent(raw1, q))
  PROVE  LET c == ReadContent(raw1, q)
         IN /\ IsReq(c) /\ c.parse_state \in {"content", "chunk_trailers"}
            /\ \/ /\ SameHead(q, c) /\ (c = q \/ HasField(q, "transfer-encoding"))
                  /\ ReadContent(raw2, c) = ReadContent(raw2, q)
               \/ /\ c.parse_state = "chunk_trailers"
                  /\ Find(raw1, Crlf, c.chunked_content_len + 1) # NPos
                  /\ HasField(q, "transfer-encoding") /\ CodingsOf(q) # <<>>
                  /\ \A name \in DOMAIN q.fields :
                       name \in DOMAIN c.fields /\ c.fields[name] = q.fields[name]
                  /\ \A p : /\ IsReq(p) /\ p.parse_state = "chunk_trailers"
                            /\ p.chunked_content_len = c.chunked_content_len
                            /\ DOMAIN c.fields \subseteq DOMAIN p.fields
                            => HasErr(DecodeChunked(raw2, p).req)
<1> DEFINE c == ReadContent(raw1, q)
           codings == CodingsOf(q)
           d == DecodeTransfer(raw1, q, codings)
<1>1. /\ IsReq(d.req) /\ IsList(codings)
      /\ d.fully_decoded => c.parse_state = "complete"
      /\ ~d.fully_decoded => c = d.req
  BY ReadCases
<1> HIDE DEF c
<1>2. c.parse_state # "complete" /\ ~HasErr(c)
  BY DEF c, IsParsingIncomplete
<1>3. ~d.fully_decoded /\ c = d.req /\ ~HasErr(d.req) /\ IsReq(c)
  BY <1>1, <1>2
<1> HIDE DEF codings
<1>4. \/ /\ codings # <<>> /\ Len(codings) # 0 /\ codings[Len(codings)] = Chunked
         /\ ~HasField(q, "content-length")
         /\ \A text, p : ~HasField(p, "content-length") =>
              DecodeTransfer(text, p, codings) = DecodeChunked(text, p)
      \/ /\ codings = <<>> /\ HasField(q, "content-length")
         /\ q.content_len > Len(raw1)
         /\ d = [req |-> q, fully_decoded |-> FALSE]
      \/ d.fully_decoded
  BY <1>1, <1>3, TransferCases
<1>5. CASE d = [req |-> q, fully_decoded |-> FALSE]
  <2> HIDE DEF d
  <2>1. c = q
    BY <1>3, <1>5
  <2>2. SameHead(q, q)
    BY DEF SameHead
  <2>3. QED
    BY <1>3, <2>1, <2>2 DEF c
<1>6. CASE /\ codings # <<>> /\ ~HasField(q, "content-length")
           /\ \A text, p : ~HasField(p, "content-length") =>
                DecodeTransfer(text, p, codings) = DecodeChunked(text, p)
  <2>1. d = DecodeChunked(raw1, q)
    BY <1>6
  <2> HIDE DEF d
  <2>2. HasField(q, "transfer-encoding")
    <3> SUFFICES ASSUME ~HasField(q, "transfer-encoding") PROVE FALSE
      OBVIOUS
    <3>1. ParseFieldList(q, "transfer-encoding") = [codings |-> <<>>, unknown |-> FALSE]
      BY Zenon DEF ParseFieldList
    <3>2. QED
      BY <1>6, <3>1 DEF codings, CodingsOf
  <2>3. ~DecodeChunked(raw1, q).fully_decoded /\ c = DecodeChunked(raw1, q).req
    BY <1>3, <2>1
  <2>4. /\ c.parse_state \in {"content", "chunk_trailers"}
        /\ \/ SameHead(q, c) /\ DecodeChunked(raw2, c) = DecodeChunked(raw2, q)
           \/ HasErr(c)
           \/ /\ c.parse_state = "chunk_trailers"
              /\ Find(raw1, Crlf, c.chunked_content_len + 1) # NPos
              /\ \A name \in DOMAIN q.fields :
                   name \in DOMAIN c.fields /\ c.fields[name] = q.fields[name]
              /\ \A p : /\ IsReq(p) /\ p.parse_state = "chunk_trailers"
                        /\ p.chunked_content_len = c.chunked_content_len
                        /\ DOMAIN c.fields \subseteq DOMAIN p.fields
                        => HasErr(DecodeChunked(raw2, p).req)
    BY <2>2, <2>3, ChunkedResumed
  <2>5. ASSUME SameHead(q, c), DecodeChunked(raw2, c) = DecodeChunked(raw2, q)
        PROVE  ReadContent(raw2, c) = ReadContent(raw2, q)
    <3>1. c.fields = q.fields
      BY <2>5 DEF SameHead
    <3>2. \A name : ParseFieldList(c, name) = ParseFieldList(q, name)
      BY <3>1, FieldListKept DEF HasField, Field
    <3>3. /\ CodingsOf(c) = codings /\ EncodingsOf(c) = EncodingsOf(q)
          /\ ~HasField(c, "content-length")
      BY <1>6, <3>1, <3>2 DEF CodingsOf, EncodingsOf, codings, HasField
    <3>4. DecodeTransfer(raw2, c, codings) = DecodeTransfer(raw2, q, codings)
      BY <1>6, <2>5, <3>3
    <3>5. QED
      BY <3>3, <3>4, ReadResult DEF codings
  <2>6. QED
    BY <1>2, <1>3, <1>6, <2>2, <2>4, <2>5 DEF c, codings
<1>7. QED
  BY <1>3, <1>4, <1>5, <1>6

(* parse_content.                                                           *)
LEMMA ContentResult ==
  ASSUME NEW raw, NEW r, IsReq(r)
  PROVE  \/ HasErr(ParseContent(raw, r))
         \/ /\ ~(r.uri.port # ListeningPort \/ r.uri.reg_name \notin ListeningNames)
            /\ HasField(r, "host")
            /\ ~(r.uri.scheme \notin {<<>>, <<"http">>} \/ r.uri.userinfo # <<>>)
            /\ ~HasErr(ParseContentFields(r))
            /\ ParseContent(raw, r) = ReadContent(raw, ParseContentFields(r))
<1> DEFINE Result(q) == IF HasErr(q) THEN q ELSE ReadContent(raw, q)
           fields == ParseContentFields(r)
           hosted == WithField(r, <<"host">>, <<>>)
           Elsewhere == r.uri.port # ListeningPort \/ r.uri.reg_name \notin ListeningNames
           Strange == r.uri.scheme \notin {<<>>, <<"http">>} \/ r.uri.userinfo # <<>>
<1>1. ParseContent(raw, r) =
        IF Elsewhere THEN Fail(r, "421")
        ELSE IF ~HasField(r, "host") THEN Fail(hosted, "400")
        ELSE IF Strange THEN Fail(r, "400")
        ELSE Only({Result(q) : q \in {fields}})
  BY Zenon DEF ParseContent
<1>2. {Result(q) : q \in {fields}} = {Result(fields)}
  OBVIOUS
<1>3. Only({Result(q) : q \in {fields}}) = Result(fields)
  BY <1>2, OnlyOne
<1>4. IsReq(hosted)
  <2>1. <<>> \in Strings
    BY DEF Strings
  <2>2. QED
    BY <2>1, FieldTyped
<1> HIDE DEF hosted, fields, Elsewhere, Strange
<1>5. HasErr(Fail(r, "421")) /\ HasErr(Fail(r, "400")) /\ HasErr(Fail(hosted, "400"))
  BY <1>4, FailGrown
<1>6. \/ HasErr(ParseContent(raw, r))
      \/ ~Elsewhere /\ HasField(r, "host") /\ ~Strange /\ ParseContent(raw, r) = Result(fields)
  BY <1>1, <1>3, <1>5
<1>7. \/ HasErr(ParseContent(raw, r))
      \/ /\ ~Elsewhere /\ HasField(r, "host") /\ ~Strange /\ ~HasErr(fields)
         /\ ParseContent(raw, r) = ReadContent(raw, fields)
  BY <1>6
<1>8. QED
  BY <1>7 DEF fields, Elsewhere, Strange

(* Where nothing is wrong with the header.                                  *)
LEMMA ContentReached ==
  ASSUME NEW raw, NEW r, ~HasErr(ParseContentFields(r)), HasField(r, "host"),
         ~(r.uri.port # ListeningPort \/ r.uri.reg_name \notin ListeningNames),
         ~(r.uri.scheme \notin {<<>>, <<"http">>} \/ r.uri.userinfo # <<>>)
  PROVE  ParseContent(raw, r) = ReadContent(raw, ParseContentFields(r))
<1> DEFINE Result(q) == IF HasErr(q) THEN q ELSE ReadContent(raw, q)
           fields == ParseContentFields(r)
<1>1. ParseContent(raw, r) = Only({Result(q) : q \in {fields}})
  BY Zenon DEF ParseContent
<1>2. {Result(q) : q \in {fields}} = {Result(fields)}
  OBVIOUS
<1> HIDE DEF fields
<1>3. ~HasErr(fields)
  BY DEF fields
<1>4. Result(fields) = ReadContent(raw, fields)
  BY <1>3
<1> HIDE DEF Result
<1>5. QED
  BY <1>1, <1>2, <1>4, OnlyOne DEF fields

(* Its result, after it was run on the beginning of the content: the same   *)
(* as without, or an answer because a trailer field is there twice.         *)
LEMMA ContentResumed ==
  ASSUME NEW raw1 \in Strings, NEW raw2 \in Strings, NEW content \in Strings,
         Begins(raw1, raw2), Begins(raw1, content), Begins(raw2, content),
         NEW starts \in SUBSET Nat, NEW r, IsReq(r),
         HasField(r, "transfer-encoding") => PlainChunks(content, starts),
         r.parse_state = "content", r.chunked_content_len = 0,
         IsParsingIncomplete(ParseContent(raw1, r))
  PROVE  LET c == ParseContent(raw1, r)
         IN /\ IsReq(c) /\ c.parse_state \in {"content", "chunk_trailers"}
            /\ \/ ParseContent(raw2, c) = ParseContent(raw2, r)
               \/ /\ c.parse_state = "chunk_trailers"
                  /\ Find(raw1, Crlf, c.chunked_content_len + 1) # NPos
                  /\ ~IsParsingIncomplete(ParseContent(raw2, c))
<1> DEFINE c == ParseContent(raw1, r)
           q == ParseContentFields(r)
<1>1. c.parse_state # "complete" /\ ~HasErr(c)
  BY DEF IsParsingIncomplete
<1>2. /\ ~(r.uri.port # ListeningPort \/ r.uri.reg_name \notin ListeningNames)
      /\ HasField(r, "host")
      /\ ~(r.uri.scheme \notin {<<>>, <<"http">>} \/ r.uri.userinfo # <<>>)
      /\ ~HasErr(q) /\ c = ReadContent(raw1, q)
  BY <1>1, ContentResult
<1>3. ContentFieldsRead(r, q) /\ IsReq(q)
  BY <1>2, FieldsPass, ContentFieldsTyped
<1> HIDE DEF c, q
<1>4. /\ IsFun(q) /\ q.parse_state = "content" /\ q.chunked_content_len = 0
      /\ q.uri = r.uri /\ HasField(q, "host")
      /\ HasField(q, "transfer-encoding") <=> HasField(r, "transfer-encoding")
  BY <1>2, <1>3 DEF ContentFieldsRead, HasField
<1>5. /\ IsReq(c) /\ c.parse_state \in {"content", "chunk_trailers"}
      /\ \/ /\ SameHead(q, c) /\ (c = q \/ HasField(q, "transfer-encoding"))
            /\ ReadContent(raw2, c) = ReadContent(raw2, q)
         \/ /\ c.parse_state = "chunk_trailers"
            /\ Find(raw1, Crlf, c.chunked_content_len + 1) # NPos
            /\ HasField(q, "transfer-encoding") /\ CodingsOf(q) # <<>>
            /\ \A name \in DOMAIN q.fields :
                 name \in DOMAIN c.fields /\ c.fields[name] = q.fields[name]
            /\ \A p : /\ IsReq(p) /\ p.parse_state = "chunk_trailers"
                      /\ p.chunked_content_len = c.chunked_content_len
                      /\ DOMAIN c.fields \subseteq DOMAIN p.fields
                      => HasErr(DecodeChunked(raw2, p).req)
  <2>1. IsParsingIncomplete(ReadContent(raw1, q))
    BY <1>1, <1>2 DEF IsParsingIncomplete
  <2>2. HasField(q, "transfer-encoding") => PlainChunks(content, starts)
    BY <1>4
  <2>3. IsReq(q) /\ ~HasErr(q) /\ c = ReadContent(raw1, q)
    BY <1>2, <1>3
  <2>4. IsFun(q) /\ q.parse_state = "content" /\ q.chunked_content_len = 0
    BY <1>4
  <2>5. QED
    BY <2>1, <2>2, <2>3, <2>4, ReadResumed
<1>6. CASE /\ SameHead(q, c) /\ (c = q \/ HasField(q, "transfer-encoding"))
           /\ ReadContent(raw2, c) = ReadContent(raw2, q)
  <2>1. ParseContentFields(c) = c
    BY <1>3, <1>5, <1>6, FieldsResumed
  <2>2. c.uri = r.uri /\ HasField(c, "host")
    BY <1>4, <1>6 DEF SameHead, HasField
  <2>3. ParseContent(raw2, c) = ReadContent(raw2, c)
    BY <1>1, <1>2, <2>1, <2>2, ContentReached
  <2>4. ParseContent(raw2, r) = ReadContent(raw2, q)
    BY <1>2, ContentReached DEF q
  <2>5. QED
    BY <1>5, <1>6, <2>3, <2>4 DEF c
<1>7. CASE /\ c.parse_state = "chunk_trailers"
           /\ Find(raw1, Crlf, c.chunked_content_len + 1) # NPos
           /\ HasField(q, "transfer-encoding") /\ CodingsOf(q) # <<>>
           /\ \A name \in DOMAIN q.fields :
                name \in DOMAIN c.fields /\ c.fields[name] = q.fields[name]
           /\ \A p : /\ IsReq(p) /\ p.parse_state = "chunk_trailers"
                     /\ p.chunked_content_len = c.chunked_content_len
                     /\ DOMAIN c.fields \subseteq DOMAIN p.fields
                     => HasErr(DecodeChunked(raw2, p).req)
  <2> DEFINE again == ParseContent(raw2, c)
             p == ParseContentFields(c)
             d == DecodeTransfer(raw2, p, CodingsOf(p))
  <2>1. ASSUME IsParsingIncomplete(again) PROVE FALSE
    <3>1. again.parse_state # "complete" /\ ~HasErr(again)
      BY <2>1 DEF IsParsingIncomplete
    <3>2. ~HasErr(p) /\ again = ReadContent(raw2, p)
      BY <1>5, <3>1, ContentResult
    <3>3. ContentFieldsRead(c, p) /\ IsReq(p)
      BY <1>5, <3>2, FieldsPass, ContentFieldsTyped
    <3> HIDE DEF again, p
    <3>4. /\ p.parse_state = "chunk_trailers"
          /\ p.chunked_content_len = c.chunked_content_len
          /\ DOMAIN c.fields \subseteq DOMAIN p.fields
          /\ HasField(p, "transfer-encoding")
          /\ Field(p, "transfer-encoding") = Field(q, "transfer-encoding")
      BY <1>7, <3>3 DEF ContentFieldsRead, HasField, Field
    <3>5. CodingsOf(p) = CodingsOf(q)
      BY <1>7, <3>4, FieldListKept DEF CodingsOf
    <3>6. HasErr(DecodeChunked(raw2, p).req)
      BY <1>7, <3>3, <3>4
    <3>7. /\ IsReq(d.req) /\ IsList(CodingsOf(p))
          /\ d.fully_decoded => again.parse_state = "complete"
          /\ ~d.fully_decoded => again = d.req
      BY <3>2, <3>3, ReadCases
    <3>8. ~d.fully_decoded /\ ~HasErr(d.req)
      BY <3>1, <3>7
    <3> DEFINE codings == CodingsOf(p)
    <3> HIDE DEF codings
    <3>9. codings # <<>> /\ IsList(codings) /\ d = DecodeTransfer(raw2, p, codings)
      BY <1>7, <3>5, <3>7 DEF codings
    <3> HIDE DEF d
    <3>10. \/ /\ codings # <<>> /\ Len(codings) # 0 /\ codings[Len(codings)] = Chunked
              /\ ~HasField(p, "content-length")
              /\ \A text, t : ~HasField(t, "content-length") =>
                   DecodeTransfer(text, t, codings) = DecodeChunked(text, t)
           \/ /\ codings = <<>> /\ HasField(p, "content-length")
              /\ p.content_len > Len(raw2)
              /\ d = [req |-> p, fully_decoded |-> FALSE]
           \/ d.fully_decoded
      BY <3>3, <3>8, <3>9, TransferCases
    <3>11. d = DecodeChunked(raw2, p)
      BY <3>8, <3>9, <3>10
    <3>12. QED
      BY <3>6, <3>8, <3>11
  <2>2. QED
    BY <1>5, <1>7, <2>1 DEF c
<1>8. QED
  BY <1>5, <1>6, <1>7

(* Both stages of server::on_rx.                                            *)
LEMMA PieceIs ==
  ASSUME NEW raw, NEW r, NEW from
  PROVE  LET head == HeadStage(raw, r, from)
         IN Piece(raw, r, from) =
              [req          |-> ContentStage(After(raw, head.parsed_up_to), head),
               parsed_up_to |-> head.parsed_up_to]
<1> DEFINE Result(head) ==
             [req          |-> ContentStage(After(raw, head.parsed_up_to), head),
              parsed_up_to |-> head.parsed_up_to]
           head == HeadStage(raw, r, from)
<1>1. Piece(raw, r, from) = Only({Result(h) : h \in {head}})
  BY Zenon DEF Piece
<1>2. {Result(h) : h \in {head}} = {Result(head)}
  OBVIOUS
<1>3. Piece(raw, r, from) = Result(head)
  BY <1>1, <1>2, OnlyOne
<1>4. QED
  BY <1>3

(* The second stage looks at the request the first one leaves.              *)
LEMMA ContentStageCases ==
  ASSUME NEW content, NEW head
  PROVE  /\ IsParsingHeaders(head.req) \/ HasErr(head.req) =>
              ContentStage(content, head) = head.req
         /\ ~IsParsingHeaders(head.req) /\ ~HasErr(head.req) =>
              ContentStage(content, head) = ParseContent(content, head.req)
BY Zenon DEF ContentStage

(* on_rx, after it was run on the beginning of what the buffer holds now:   *)
(* the same as without, or an answer because a trailer field is there       *)
(* twice.                                                                   *)
LEMMA PieceResumed ==
  ASSUME NEW raw1 \in Strings, NEW raw2 \in Strings, NEW text \in Strings,
         Begins(raw1, raw2), Begins(raw1, text), Begins(raw2, text),
         NEW starts \in SUBSET Nat, Resumable(raw1, text, starts),
         IsParsingIncomplete(OnePiece(raw1).req)
  PROVE  LET one   == OnePiece(raw1)
             again == Piece(raw2, one.req, one.parsed_up_to)
             whole == OnePiece(raw2)
         IN \/ /\ again.req = whole.req
               /\ HasErr(whole.req) \/ again.parsed_up_to = whole.parsed_up_to
            \/ /\ one.req.parse_state = "chunk_trailers"
               /\ Find(After(raw1, one.parsed_up_to), Crlf,
                       one.req.chunked_content_len + 1) # NPos
               /\ ~IsParsingIncomplete(again.req)
<1> DEFINE head1 == HeadStage(raw1, NewReq, 0)
           head2 == HeadStage(raw2, NewReq, 0)
           one   == OnePiece(raw1)
           head  == HeadStage(raw2, one.req, one.parsed_up_to)
           again == Piece(raw2, one.req, one.parsed_up_to)
           whole == OnePiece(raw2)
           Content(h) == After(raw2, h.parsed_up_to)
           content1 == After(raw1, head1.parsed_up_to)
<1>1. /\ one.req = ContentStage(content1, head1)
      /\ one.parsed_up_to = head1.parsed_up_to
  BY PieceIs DEF OnePiece
<1>2. /\ whole.req = ContentStage(Content(head2), head2)
      /\ whole.parsed_up_to = head2.parsed_up_to
  BY PieceIs DEF OnePiece
<1>3. /\ again.req = ContentStage(Content(head), head)
      /\ again.parsed_up_to = head.parsed_up_to
  BY PieceIs
<1>4. ~HasErr(one.req) /\ one.req.parse_state # "complete"
  BY DEF IsParsingIncomplete
<1> HIDE DEF one, again, whole
<1>5. ~HasErr(head1.req)
  BY <1>1, <1>4, ContentStageCases
<1>6. /\ head1.req.parse_state \in {"headers", "content"}
      /\ head1.req.chunked_content_len = 0
      /\ ~IsParsingHeaders(head1.req) /\ After(raw1, head1.parsed_up_to) # Crlf =>
           head2.req = head1.req /\ head2.parsed_up_to = head1.parsed_up_to
      /\ IsParsingHeaders(head1.req) =>
           LET next == HeadStage(raw2, head1.req, head1.parsed_up_to)
           IN /\ next.req = head2.req
              /\ HasErr(head2.req) \/ next.parsed_up_to = head2.parsed_up_to
  BY <1>5, HeadResumed
<1>7. IsReq(head1.req) /\ head1.parsed_up_to \in 0 .. Len(raw1)
  <2>1. 0 \in 0 .. Len(raw1)
    BY LenProperties DEF Strings
  <2>2. QED
    BY <2>1, NewReqTyped, HeadStageTyped
<1>8. /\ ~IsParsingHeaders(head1.req) => After(raw1, head1.parsed_up_to) # Crlf
      /\ ~IsParsingHeaders(head1.req) /\ HasField(head1.req, "transfer-encoding") =>
           PlainChunks(After(text, head1.parsed_up_to), starts)
  BY DEF Resumable
<1> HIDE DEF head1, head2, head, Content, content1
<1>9. CASE IsParsingHeaders(head1.req)
  <2>1. one.req = head1.req
    BY <1>1, <1>9, ContentStageCases
  <2>2. /\ head.req = head2.req
        /\ HasErr(head2.req) \/ head.parsed_up_to = head2.parsed_up_to
    BY <1>1, <1>6, <1>9, <2>1 DEF head
  <2>3. CASE HasErr(head2.req)
    BY <1>2, <1>3, <2>2, <2>3, ContentStageCases DEF one, again, whole
  <2>4. CASE head.parsed_up_to = head2.parsed_up_to
    <3>1. Content(head) = Content(head2)
      BY <2>4 DEF Content
    <3>2. ContentStage(Content(head), head) = ContentStage(Content(head2), head2)
      BY <2>2, <3>1, ContentStageCases
    <3>3. QED
      BY <1>2, <1>3, <2>4, <3>2 DEF one, again, whole
  <2>5. QED
    BY <2>2, <2>3, <2>4 DEF one, again, whole
<1>10. CASE ~IsParsingHeaders(head1.req)
  <2> DEFINE r == head1.req
             content2 == Content(head1)
             all == After(text, head1.parsed_up_to)
             c == ParseContent(content1, r)
  <2>1. one.req = c
    BY <1>1, <1>5, <1>10, ContentStageCases
  <2>2. r.parse_state = "content"
    BY <1>5, <1>6, <1>10 DEF IsParsingHeaders
  <2>3. /\ content1 \in Strings /\ content2 \in Strings /\ all \in Strings
        /\ Begins(content1, content2) /\ Begins(content1, all)
        /\ Begins(content2, all)
    <3>1. /\ Len(raw1) \in Nat /\ Len(raw1) <= Len(raw2) /\ Len(raw1) <= Len(text)
          /\ Len(raw2) \in Nat /\ Len(text) \in Nat
      BY LenProperties DEF Strings, Begins
    <3>2. /\ head1.parsed_up_to \in 0 .. Len(raw2)
          /\ head1.parsed_up_to \in 0 .. Len(text)
      BY <1>7, <3>1
    <3> DEFINE from == head1.parsed_up_to
    <3>3. content1 = After(raw1, from) /\ content2 = After(raw2, from)
      BY DEF content1, Content
    <3>4. from \in 0 .. Len(raw1) /\ from \in 0 .. Len(raw2) /\ from \in 0 .. Len(text)
      BY <1>7, <3>2
    <3> HIDE DEF from
    <3>5. /\ After(raw1, from) \in Strings /\ After(raw2, from) \in Strings
          /\ After(text, from) \in Strings
      BY <3>4, AfterTyped
    <3>6. /\ Begins(After(raw1, from), After(raw2, from))
          /\ Begins(After(raw1, from), After(text, from))
          /\ Begins(After(raw2, from), After(text, from))
      BY <3>4, AfterKept
    <3>7. QED
      BY <3>3, <3>5, <3>6 DEF from
  <2> HIDE DEF content2, all
  <2>4. HasField(r, "transfer-encoding") => PlainChunks(all, starts)
    BY <1>8, <1>10 DEF all
  <2>5. IsParsingIncomplete(c)
    BY <1>4, <2>1 DEF IsParsingIncomplete
  <2>6. /\ IsReq(c) /\ c.parse_state \in {"content", "chunk_trailers"}
        /\ \/ ParseContent(content2, c) = ParseContent(content2, r)
           \/ /\ c.parse_state = "chunk_trailers"
              /\ Find(content1, Crlf, c.chunked_content_len + 1) # NPos
              /\ ~IsParsingIncomplete(ParseContent(content2, c))
    <3> HIDE DEF r
    <3>1. /\ IsReq(r) /\ r.parse_state = "content" /\ r.chunked_content_len = 0
      BY <1>6, <1>7, <2>2 DEF r
    <3>2. QED
      BY <2>3, <2>4, <2>5, <3>1, ContentResumed
  <2> HIDE DEF c
  <2>7. ~IsParsingHeaders(c) /\ ~HasErr(c)
    BY <1>4, <2>1, <2>6 DEF IsParsingHeaders
  <2>8. head = [req |-> c, parsed_up_to |-> head1.parsed_up_to]
    BY <1>1, <2>1, <2>7, Zenon DEF head, HeadStage
  <2>9. head.req = c /\ head.parsed_up_to = head1.parsed_up_to
    BY <2>8
  <2>10. again.req = ParseContent(content2, c)
    BY <1>3, <2>7, <2>9, ContentStageCases DEF Content, content2
  <2>11. head2.req = r /\ head2.parsed_up_to = head1.parsed_up_to
    BY <1>6, <1>8, <1>10
  <2>12. whole.req = ParseContent(content2, r)
    BY <1>2, <1>5, <1>10, <2>11, ContentStageCases DEF Content, content2
  <2>13. again.parsed_up_to = whole.parsed_up_to
    BY <1>2, <1>3, <2>9, <2>11
  <2>14. CASE ParseContent(content2, c) = ParseContent(content2, r)
    BY <2>10, <2>12, <2>13, <2>14 DEF one, again, whole
  <2>15. CASE /\ c.parse_state = "chunk_trailers"
              /\ Find(content1, Crlf, c.chunked_content_len + 1) # NPos
              /\ ~IsParsingIncomplete(ParseContent(content2, c))
    <3>1. Find(After(raw1, one.parsed_up_to), Crlf, one.req.chunked_content_len + 1) # NPos
      BY <1>1, <2>1, <2>15 DEF content1
    <3>2. QED
      BY <2>1, <2>10, <2>15, <3>1 DEF one, again, whole
  <2>16. QED
    BY <2>6, <2>14, <2>15
<1>11. QED
  BY <1>9, <1>10

-----------------------------------------------------------------------------
(* The connection                                                           *)

(* The buffer, the queue of the kernel and what is not sent yet are the     *)
(* text of the script, cut where it may be.                                 *)
TextInv ==
  /\ script \in Scripts
  /\ Texts(script) = (io_rx_ \o inq) \o unsent
  /\ {Len(io_rx_), Len(io_rx_ \o inq)} \subseteq {0} \cup CutsOf(script)

(* A text and the beginning of it.                                          *)
LEMMA BeginningOf ==
  ASSUME NEW raw \in Strings, NEW rest \in Strings
  PROVE  /\ Begins(raw, raw \o rest)
         /\ SubSeq(raw \o rest, 1, Len(raw)) = raw
<1> DEFINE whole == raw \o rest
           part == SubSeq(whole, 1, Len(raw))
<1>1. Len(raw) \in Nat /\ Len(rest) \in Nat
  BY LenProperties DEF Strings
<1>2. /\ whole \in Strings /\ Len(whole) = Len(raw) + Len(rest)
      /\ \A i \in 1 .. Len(raw) + Len(rest) :
           whole[i] = IF i <= Len(raw) THEN raw[i] ELSE rest[i - Len(raw)]
  BY ConcatProperties DEF Strings
<1> HIDE DEF whole
<1>3. Begins(raw, whole)
  BY <1>1, <1>2 DEF Begins
<1>4. part = raw
  <2>1. \A i \in 1 .. Len(raw) : whole[i] \in Symbols
    BY <1>1, <1>2, ElementOfSeq DEF Strings
  <2>2. /\ part \in Seq(Symbols)
        /\ Len(part) = IF 1 <= Len(raw) THEN Len(raw) - 1 + 1 ELSE 0
        /\ \A i \in 1 .. Len(raw) - 1 + 1 : part[i] = whole[1 + i - 1]
    BY <1>1, <2>1, SubSeqProperties
  <2> HIDE DEF part
  <2>3. Len(part) = Len(raw)
    BY <1>1, <2>2
  <2>4. ASSUME NEW i \in 1 .. Len(raw) PROVE part[i] = raw[i]
    <3>1. part[i] = whole[i]
      BY <1>1, <2>2
    <3>2. QED
      BY <1>1, <1>2, <3>1
  <2>5. QED
    BY <2>2, <2>3, <2>4, SeqEqual DEF Strings
<1>5. QED
  BY <1>3, <1>4 DEF whole

(* The order in which texts are joined does not matter.                     *)
LEMMA Joined ==
  \A t, u, v \in Strings : (t \o u) \o v = t \o (u \o v)
<1> SUFFICES ASSUME NEW t \in Seq(Symbols), NEW u \in Seq(Symbols),
                    NEW v \in Seq(Symbols)
             PROVE  (t \o u) \o v = t \o (u \o v)
  BY DEF Strings
<1> QED
  BY ConcatAssociative

(* Sending moves the beginning of what is left into the queue.              *)
LEMMA PeerSendText ==
  ASSUME StreamInv, TextInv, PeerSend
  PROVE  TextInv'
<1> PICK n \in 1 .. Len(unsent) :
      /\ Cut(script, Sent + n)
      /\ inq' = inq \o SubSeq(unsent, 1, n)
      /\ unsent' = SubSeq(unsent, n + 1, Len(unsent))
  BY DEF PeerSend
<1> DEFINE a == SubSeq(unsent, 1, n)
           b == SubSeq(unsent, n + 1, Len(unsent))
           arrived == io_rx_ \o inq
<1>1. /\ io_rx_ \in Strings /\ inq \in Strings /\ unsent \in Strings
      /\ Len(io_rx_) \in Nat /\ Len(inq) \in Nat /\ Len(unsent) \in Nat
  BY LenProperties DEF StreamInv, Strings
<1>2. a \in Strings /\ Len(a) = n /\ b \in Strings
  <2>1. \A i \in 1 .. Len(unsent) : unsent[i] \in Symbols
    BY <1>1, ElementOfSeq DEF Strings
  <2>2. a \in Seq(Symbols) /\ Len(a) = IF 1 <= n THEN n - 1 + 1 ELSE 0
    BY <1>1, <2>1, SubSeqProperties
  <2>3. b \in Seq(Symbols)
    BY <1>1, <2>1, SubSeqProperties
  <2>4. QED
    BY <1>1, <2>2, <2>3 DEF Strings
<1>3. a \o b = unsent
  <2>1. a \o b = SubSeq(unsent, 1, Len(unsent))
    BY <1>1, ConcatAdjacentSubSeq DEF Strings
  <2>2. QED
    BY <1>1, <2>1, SubSeqFull DEF Strings
<1>4. inq' = inq \o a /\ unsent' = b /\ UNCHANGED <<script, io_rx_>>
  BY DEF PeerSend, connVars
<1> HIDE DEF a, b
<1>5. arrived \in Strings /\ Len(arrived) \in Nat
  BY <1>1, ConcatProperties, LenProperties DEF Strings
<1>6. io_rx_' \o inq' = arrived \o a
  <2>1. (io_rx_ \o inq) \o a = io_rx_ \o (inq \o a)
    BY <1>1, <1>2, Joined
  <2>2. io_rx_' = io_rx_ /\ inq' = inq \o a
    BY <1>4
  <2>3. QED
    BY <2>1, <2>2
<1>7. Texts(script) = arrived \o unsent
  BY DEF TextInv
<1> HIDE DEF arrived
<1>8. Texts(script) = (arrived \o a) \o b
  BY <1>2, <1>3, <1>5, <1>7, Joined
<1>9. Len(arrived \o a) = Len(arrived) + n
  BY <1>2, <1>5, ConcatProperties DEF Strings
<1>10. Len(Texts(script)) = Len(arrived) + Len(unsent)
  BY <1>1, <1>5, <1>7, ConcatProperties DEF Strings
<1>11. Sent + n = Len(arrived) + n
  BY <1>1, <1>5, <1>10 DEF Sent
<1>12. Len(arrived) + n \in CutsOf(script)
  BY <1>1, <1>5, <1>10, <1>11 DEF CutsOf
<1>13. Len(io_rx_' \o inq') \in CutsOf(script)
  BY <1>6, <1>9, <1>12
<1>14. Len(io_rx_') \in {0} \cup CutsOf(script)
  BY <1>4 DEF TextInv
<1>15. /\ script' \in Scripts
       /\ Texts(script') = (io_rx_' \o inq') \o unsent'
       /\ {Len(io_rx_'), Len(io_rx_' \o inq')} \subseteq {0} \cup CutsOf(script')
  BY <1>4, <1>6, <1>8, <1>13, <1>14 DEF TextInv
<1>16. QED
  BY <1>15 DEF TextInv

(* Reading moves the queue into the buffer.                                 *)
LEMMA HandleInMoves ==
  ASSUME StreamInv, HandleIn
  PROVE  /\ io_rx_' = io_rx_ \o inq /\ inq' = <<>>
         /\ UNCHANGED <<script, unsent>>
<1>1. io_rx_ \in Strings /\ inq \in Strings
  BY DEF StreamInv
<1>2. ASSUME OnRx(io_rx_ \o inq) PROVE io_rx_' = io_rx_ \o inq
  BY <1>2 DEF OnRx
<1>3. io_rx_ \o inq = <<>> => io_rx_ = io_rx_ \o inq
  BY <1>1, ConcatEqualIffEmpty DEF Strings
<1>4. io_rx_' = io_rx_ \o inq
  BY <1>2, <1>3 DEF HandleIn
<1>5. QED
  BY <1>4 DEF HandleIn, peerVars

(* Nothing that is sent gets lost on the way into the buffer.               *)
LEMMA TextInvHolds == Spec => []TextInv
<1>1. Init => TextInv
  <2> SUFFICES ASSUME Init PROVE TextInv
    OBVIOUS
  <2>1. unsent = Texts(script) /\ Texts(script) \in Strings /\ script \in Scripts
    BY ScriptTyped DEF Init
  <2>2. io_rx_ = <<>> /\ inq = <<>>
    BY DEF Init
  <2>3. (<<>> \o <<>>) \o unsent = unsent /\ <<>> \o <<>> = <<>>
    BY <2>1, ConcatEmptySeq, EmptySeq DEF Strings
  <2>4. Len(<<>>) = 0
    OBVIOUS
  <2>5. QED
    BY <2>1, <2>2, <2>3, <2>4 DEF TextInv
<1>2. StreamInv /\ TextInv /\ [Next]_vars => TextInv'
  <2> SUFFICES ASSUME StreamInv, TextInv, [Next]_vars PROVE TextInv'
    OBVIOUS
  <2>1. CASE PeerSend
    BY <2>1, PeerSendText
  <2>2. ASSUME UNCHANGED <<script, io_rx_, inq, unsent>> PROVE TextInv'
    BY <2>2 DEF TextInv
  <2>3. CASE PeerShutdown \/ PeerReset
    BY <2>2, <2>3 DEF PeerShutdown, PeerReset, connVars
  <2>4. CASE HandleErr
    BY <2>2, <2>4 DEF HandleErr, peerVars
  <2>5. CASE HandleIn
    <3>1. /\ io_rx_' = io_rx_ \o inq /\ inq' = <<>>
          /\ UNCHANGED <<script, unsent>>
      BY <2>5, HandleInMoves
    <3>2. io_rx_ \o inq \in Strings
      BY ConcatProperties DEF StreamInv, Strings
    <3>3. io_rx_' \o inq' = io_rx_ \o inq
      BY <3>1, <3>2, ConcatEmptySeq DEF Strings
    <3>4. /\ script' \in Scripts
          /\ Texts(script') = (io_rx_' \o inq') \o unsent'
          /\ {Len(io_rx_'), Len(io_rx_' \o inq')} \subseteq {0} \cup CutsOf(script')
      BY <3>1, <3>3 DEF TextInv
    <3>5. QED
      BY <3>4 DEF TextInv
  <2>6. CASE HandleOut
    BY <2>2, <2>6 DEF HandleOut, peerVars, OnTx, ResetState
  <2>7. CASE UNCHANGED vars
    BY <2>2, <2>7 DEF vars, peerVars, connVars
  <2>8. QED
    BY <2>1, <2>3, <2>4, <2>5, <2>6, <2>7 DEF Next
<1>3. QED
  BY <1>1, <1>2, StreamInvHolds, PTL DEF Spec

(* Without an answer there is nothing to send, and the parser is at the     *)
(* beginning or waits for more.                                             *)
WaitInv ==
  /\ \E S : answers \in Seq(S)
  /\ answers = <<>> => interest # "out"
  /\ answers = <<>> /\ interest = "in" =>
       IF io_rx_ = <<>> THEN req_ = NewReq /\ parsed_to_idx_ = 0
       ELSE IsParsingIncomplete(req_)

(* One more answer behind those there are.                                  *)
LEMMA OneMore ==
  ASSUME NEW S, NEW list \in Seq(S), NEW new
  PROVE  /\ \E T : Append(list, new) \in Seq(T)
         /\ Append(list, new) # <<>>
         /\ Append(list, new)[1] = IF list = <<>> THEN new ELSE list[1]
<1> DEFINE T == S \cup {new}
           longer == Append(list, new)
<1>1. list \in Seq(T) /\ new \in T
  BY SeqMonotonic
<1>2. Len(list) \in Nat /\ (list = <<>> <=> Len(list) = 0)
  BY LenProperties, EmptySeq
<1> HIDE DEF T
<1>3. /\ longer \in Seq(T) /\ longer # <<>> /\ Len(longer) = Len(list) + 1
      /\ \A i \in 1 .. Len(list) : longer[i] = list[i]
      /\ longer[Len(list) + 1] = new
  BY <1>1, AppendProperties
<1> HIDE DEF longer
<1>4. longer[1] = IF list = <<>> THEN new ELSE list[1]
  <2>1. CASE list = <<>>
    BY <1>2, <1>3, <2>1
  <2>2. CASE list # <<>>
    <3>1. 1 \in 1 .. Len(list)
      BY <1>2, <2>2
    <3>2. QED
      BY <1>3, <2>2, <3>1
  <2>3. QED
    BY <2>1, <2>2
<1>5. QED
  BY <1>3, <1>4 DEF longer

(* on_rx: the process ends, the parser waits for more, or there is an       *)
(* answer.                                                                  *)
LEMMA OnRxCases ==
  ASSUME NEW raw, OnRx(raw)
  PROVE  LET now == Piece(raw, req_, parsed_to_idx_)
         IN /\ io_rx_' = raw
            /\ req_' = now.req /\ parsed_to_idx_' = now.parsed_up_to
            /\ \/ interest' = "terminated" /\ UNCHANGED answers
               \/ /\ IsParsingIncomplete(now.req)
                  /\ interest' = "in" /\ UNCHANGED answers
               \/ /\ ~IsParsingIncomplete(now.req) /\ now.req.err # "throw"
                  /\ interest' = "out"
                  /\ \E s \in Statuses(now.req) : \E answer :
                       /\ answers' = Append(answers, answer)
                       /\ answer.status = s /\ answer.content = now.req.content
<1> DEFINE now  == Piece(raw, req_, parsed_to_idx_)
           head == HeadStage(raw, req_, parsed_to_idx_)
           r    == ContentStage(After(raw, head.parsed_up_to), head)
<1>1. now.req = r /\ now.parsed_up_to = head.parsed_up_to
  BY PieceIs
<1>2. /\ io_rx_' = raw /\ req_' = r /\ parsed_to_idx_' = head.parsed_up_to
      /\ \/ r.err = "throw" /\ interest' = "terminated" /\ UNCHANGED history
         \/ IsParsingIncomplete(r) /\ interest' = "in" /\ UNCHANGED history
         \/ /\ ~IsParsingIncomplete(r) /\ r.err # "throw"
            /\ \E s \in Statuses(r) : Respond(s, r)
  BY Zenon DEF OnRx
<1> HIDE DEF r, now, head
<1>3. ASSUME NEW s \in Statuses(r), Respond(s, r)
      PROVE  /\ interest' = "out"
             /\ \E t \in Statuses(r) : \E answer :
                  /\ answers' = Append(answers, answer)
                  /\ answer.status = t /\ answer.content = r.content
  <2> DEFINE answer == [status |-> s, method |-> r.method,
                        path |-> r.uri.path, content |-> r.content]
  <2>1. answer.status = s /\ answer.content = r.content
    OBVIOUS
  <2>2. answers' = Append(answers, answer) /\ interest' = "out"
    BY <1>3 DEF Respond
  <2> HIDE DEF answer
  <2>3. QED
    BY <2>1, <2>2
<1>4. UNCHANGED history => UNCHANGED answers
  BY DEF history
<1>5. /\ io_rx_' = raw
      /\ req_' = now.req /\ parsed_to_idx_' = now.parsed_up_to
      /\ \/ interest' = "terminated" /\ UNCHANGED answers
         \/ IsParsingIncomplete(now.req) /\ interest' = "in" /\ UNCHANGED answers
         \/ /\ ~IsParsingIncomplete(now.req) /\ now.req.err # "throw"
            /\ interest' = "out"
            /\ \E s \in Statuses(now.req) : \E answer :
                 /\ answers' = Append(answers, answer)
                 /\ answer.status = s /\ answer.content = now.req.content
  BY <1>1, <1>2, <1>3, <1>4
<1>6. QED
  BY <1>5 DEF now

(* Actions that leave the parser alone.                                     *)
LEMMA WaitKept ==
  ASSUME WaitInv, UNCHANGED <<io_rx_, answers>>,
         answers # <<>> \/ UNCHANGED <<req_, parsed_to_idx_>>,
         answers # <<>> \/ interest' \in {interest, "closed"}
  PROVE  WaitInv'
<1>1. PICK S : answers \in Seq(S)
  BY DEF WaitInv
<1>2. \E T : answers' \in Seq(T)
  BY <1>1
<1>3. answers' = <<>> => interest' # "out"
  BY DEF WaitInv
<1>4. answers' = <<>> /\ interest' = "in" =>
        IF io_rx_' = <<>> THEN req_' = NewReq /\ parsed_to_idx_' = 0
        ELSE IsParsingIncomplete(req_')
  BY DEF WaitInv
<1>5. QED
  BY <1>2, <1>3, <1>4 DEF WaitInv, IsParsingIncomplete, HasErr

(* A buffer that is read is not empty.                                      *)
LEMMA HandleInCases ==
  ASSUME StreamInv, HandleIn
  PROVE  /\ interest = "in"
         /\ \/ io_rx_ \o inq # <<>> /\ OnRx(io_rx_ \o inq)
            \/ /\ interest' = "closed"
               /\ UNCHANGED <<io_rx_, req_, parsed_to_idx_, answers>>
<1> DEFINE raw == io_rx_ \o inq
<1>1. /\ interest = "in"
      /\ \/ raw # <<>> /\ OnRx(raw)
         \/ OnClose /\ UNCHANGED <<io_rx_, parsed_to_idx_, req_, history>>
  BY Zenon DEF HandleIn
<1>2. QED
  BY <1>1 DEF OnClose, history

(* It is an invariant.                                                      *)
LEMMA WaitInvHolds == Spec => []WaitInv
<1>1. Init => WaitInv
  BY EmptySeq DEF Init, WaitInv
<1>2. StreamInv /\ WaitInv /\ [Next]_vars => WaitInv'
  <2> SUFFICES ASSUME StreamInv, WaitInv, [Next]_vars PROVE WaitInv'
    OBVIOUS
  <2>1. CASE PeerSend \/ PeerShutdown \/ PeerReset
    BY <2>1, WaitKept DEF PeerSend, PeerShutdown, PeerReset, connVars, history
  <2>2. CASE HandleErr
    BY <2>2, WaitKept DEF HandleErr, OnClose, history
  <2>3. CASE HandleIn
    <3> DEFINE raw == io_rx_ \o inq
    <3>1. \/ raw # <<>> /\ OnRx(raw)
          \/ /\ interest' = "closed"
             /\ UNCHANGED <<io_rx_, req_, parsed_to_idx_, answers>>
      BY <2>3, HandleInCases
    <3> HIDE DEF raw
    <3>2. CASE /\ interest' = "closed"
               /\ UNCHANGED <<io_rx_, req_, parsed_to_idx_, answers>>
      BY <3>2, WaitKept
    <3>3. CASE raw # <<>> /\ OnRx(raw)
      <4>1. PICK S : answers \in Seq(S)
        BY DEF WaitInv
      <4>2. /\ io_rx_' = raw
            /\ \/ interest' = "terminated" /\ UNCHANGED answers
               \/ IsParsingIncomplete(req_') /\ interest' = "in" /\ UNCHANGED answers
               \/ interest' = "out" /\ \E answer : answers' = Append(answers, answer)
        BY <3>3, OnRxCases
      <4>3. CASE UNCHANGED answers /\ interest' # "out"
        <5>1. \E T : answers' \in Seq(T)
          BY <4>1, <4>3
        <5>2. interest' = "in" => IsParsingIncomplete(req_')
          BY <4>2, <4>3
        <5>3. QED
          BY <3>3, <4>2, <4>3, <5>1, <5>2 DEF WaitInv, IsParsingIncomplete, HasErr
      <4>4. CASE \E answer : answers' = Append(answers, answer)
        <5>1. (\E T : answers' \in Seq(T)) /\ answers' # <<>>
          BY <4>1, <4>4, OneMore
        <5>2. QED
          BY <5>1 DEF WaitInv
      <4>5. QED
        BY <4>2, <4>3, <4>4
    <3>4. QED
      BY <3>1, <3>2, <3>3
  <2>4. CASE HandleOut
    <3>1. interest = "out" /\ UNCHANGED <<io_rx_, answers>>
      BY <2>4 DEF HandleOut, OnTx, ResetState, history
    <3>2. answers # <<>>
      BY <3>1 DEF WaitInv
    <3>3. QED
      BY <3>1, <3>2, WaitKept
  <2>5. CASE UNCHANGED vars
    BY <2>5, WaitKept DEF vars, connVars, history
  <2>6. QED
    BY <2>1, <2>2, <2>3, <2>4, <2>5 DEF Next
<1>3. QED
  BY <1>1, <1>2, StreamInvHolds, PTL DEF Spec

(* What on_rx makes of the buffer before the first answer is what it would  *)
(* make of it in one piece, unless a trailer field is there twice.          *)
LEMMA Resumed ==
  ASSUME ResumableCuts, StreamInv, TextInv, WaitInv, AsOnePiece,
         answers = <<>>, interest = "in"
  PROVE  LET raw   == io_rx_ \o inq
             now   == Piece(raw, req_, parsed_to_idx_)
             whole == OnePiece(raw)
         IN \/ /\ now.req = whole.req
               /\ HasErr(whole.req) \/ now.parsed_up_to = whole.parsed_up_to
            \/ /\ io_rx_ # <<>> /\ ~NoTrailerRead(io_rx_)
               /\ ~IsParsingIncomplete(now.req)
<1> DEFINE raw   == io_rx_ \o inq
           text  == Texts(script)
           one   == OnePiece(io_rx_)
           now   == Piece(raw, req_, parsed_to_idx_)
           whole == OnePiece(raw)
<1>1. CASE io_rx_ = <<>>
  <2>1. req_ = NewReq /\ parsed_to_idx_ = 0
    BY <1>1 DEF WaitInv
  <2>2. now = whole
    BY <2>1 DEF OnePiece
  <2>3. QED
    BY <2>2
<1>2. CASE io_rx_ # <<>>
  <2>1. /\ io_rx_ \in Strings /\ inq \in Strings /\ unsent \in Strings
        /\ Len(io_rx_) # 0
    BY <1>2, EmptySeq, LenProperties DEF StreamInv, Strings
  <2>2. raw \in Strings
    BY <2>1, ConcatProperties DEF Strings
  <2>3. text = raw \o unsent /\ text = io_rx_ \o (inq \o unsent)
    BY <2>1, Joined DEF TextInv
  <2>4. text \in Strings /\ inq \o unsent \in Strings
    BY <2>1, ScriptTyped, ConcatProperties DEF TextInv, Strings
  <2>5. /\ Begins(io_rx_, raw) /\ Begins(io_rx_, text)
        /\ SubSeq(text, 1, Len(io_rx_)) = io_rx_
    BY <2>1, <2>3, <2>4, BeginningOf
  <2> HIDE DEF raw, text
  <2>6. Begins(raw, text)
    BY <2>1, <2>2, <2>3, BeginningOf
  <2>7. Prefix(script, Len(io_rx_)) = io_rx_
    BY <2>5 DEF Prefix, text
  <2>8. Len(io_rx_) \in CutsOf(script) /\ script \in Scripts
    BY <2>1 DEF TextInv
  <2>9. PICK starts \in SUBSET Nat : Resumable(io_rx_, text, starts)
    BY <2>7, <2>8 DEF ResumableCuts, text
  <2>10. one = [req |-> req_, parsed_up_to |-> parsed_to_idx_]
    BY <1>2 DEF AsOnePiece
  <2> HIDE DEF one
  <2>11. one.req = req_ /\ one.parsed_up_to = parsed_to_idx_
    BY <2>10
  <2>12. IsParsingIncomplete(one.req)
    BY <1>2, <2>11 DEF WaitInv
  <2>13. now = Piece(raw, one.req, one.parsed_up_to)
    BY <2>11
  <2> HIDE DEF now, whole
  <2>14. \/ /\ now.req = whole.req
            /\ HasErr(whole.req) \/ now.parsed_up_to = whole.parsed_up_to
         \/ /\ one.req.parse_state = "chunk_trailers"
            /\ Find(After(io_rx_, one.parsed_up_to), Crlf,
                    one.req.chunked_content_len + 1) # NPos
            /\ ~IsParsingIncomplete(now.req)
    <3>1. IsParsingIncomplete(OnePiece(io_rx_).req)
      BY <2>12 DEF one
    <3>2. QED
      BY <2>1, <2>2, <2>4, <2>5, <2>6, <2>9, <2>13, <3>1, PieceResumed
         DEF one, whole
  <2>15. CASE /\ one.req.parse_state = "chunk_trailers"
              /\ Find(After(io_rx_, one.parsed_up_to), Crlf,
                      one.req.chunked_content_len + 1) # NPos
              /\ ~IsParsingIncomplete(now.req)
    <3>1. ~NoTrailerRead(io_rx_)
      BY <2>12, <2>15 DEF NoTrailerRead, one
    <3>2. QED
      BY <1>2, <2>15, <3>1 DEF raw, now
  <2>16. QED
    BY <2>14, <2>15 DEF raw, now, whole
<1>3. QED
  BY <1>1, <1>2

(* The parser waits for the rest of the first request in the same place and *)
(* with the same request however the text was cut into segments, if no      *)
(* segment ends with the header (server::on_rx, parse_headers) and the      *)
(* chunk headers have no extension after a space (decode_chunked).          *)
THEOREM SegmentsDoNotMatter ==
  ASSUME ResumableCuts
  PROVE  Spec => []AsOnePiece
<1>1. Init => AsOnePiece
  BY DEF Init, AsOnePiece
<1>2. /\ StreamInv /\ TextInv /\ WaitInv /\ AsOnePiece /\ [Next]_vars
      => AsOnePiece'
  <2> SUFFICES ASSUME StreamInv, TextInv, WaitInv, AsOnePiece, [Next]_vars
               PROVE  AsOnePiece'
    OBVIOUS
  <2>1. ASSUME UNCHANGED <<io_rx_, req_, parsed_to_idx_, answers>>,
               interest' \in {interest, "closed"}
        PROVE  AsOnePiece'
    BY <2>1 DEF AsOnePiece
  <2>2. CASE PeerSend \/ PeerShutdown \/ PeerReset
    BY <2>1, <2>2 DEF PeerSend, PeerShutdown, PeerReset, connVars, history
  <2>3. CASE HandleErr
    BY <2>1, <2>3 DEF HandleErr, OnClose, history
  <2>4. CASE HandleIn
    <3> DEFINE raw   == io_rx_ \o inq
               now   == Piece(raw, req_, parsed_to_idx_)
               whole == OnePiece(raw)
    <3>1. CASE /\ interest' = "closed"
               /\ UNCHANGED <<io_rx_, req_, parsed_to_idx_, answers>>
      BY <2>1, <3>1
    <3>2. CASE raw # <<>> /\ OnRx(raw) /\ interest = "in"
      <4> SUFFICES ASSUME answers' = <<>>, interest' = "in", io_rx_' # <<>>
                   PROVE  OnePiece(io_rx_') =
                            [req |-> req_', parsed_up_to |-> parsed_to_idx_']
        BY DEF AsOnePiece
      <4>1. PICK S : answers \in Seq(S)
        BY DEF WaitInv
      <4>2. \A answer : Append(answers, answer) # <<>>
        BY <4>1, OneMore
      <4>3. /\ io_rx_' = raw
            /\ req_' = now.req /\ parsed_to_idx_' = now.parsed_up_to
            /\ IsParsingIncomplete(now.req) /\ answers = <<>>
        BY <3>2, <4>2, OnRxCases
      <4>4. now.req = whole.req /\ now.parsed_up_to = whole.parsed_up_to
        BY <3>2, <4>3, Resumed DEF IsParsingIncomplete
      <4>5. whole = [req |-> whole.req, parsed_up_to |-> whole.parsed_up_to]
        BY PieceIs DEF OnePiece
      <4> HIDE DEF now
      <4>6. whole = [req |-> now.req, parsed_up_to |-> now.parsed_up_to]
        BY <4>4, <4>5
      <4>7. QED
        BY <4>3, <4>6
    <3>3. QED
      BY <2>4, <3>1, <3>2, HandleInCases
  <2>5. CASE HandleOut
    <3>1. answers # <<>> /\ answers' = answers
      BY <2>5 DEF HandleOut, WaitInv, history
    <3>2. QED
      BY <3>1 DEF AsOnePiece
  <2>6. CASE UNCHANGED vars
    BY <2>1, <2>6 DEF vars, connVars, history
  <2>7. QED
    BY <2>2, <2>3, <2>4, <2>5, <2>6 DEF Next
<1>3. QED
  BY <1>1, <1>2, StreamInvHolds, TextInvHolds, WaitInvHolds, PTL DEF Spec

(* The buffer is the script up to a place where it may be cut.              *)
LEMMA CutPlace ==
  ASSUME StreamInv, TextInv, NEW raw \in {io_rx_, io_rx_ \o inq}, raw # <<>>
  PROVE  /\ script \in Scripts /\ Len(raw) \in CutsOf(script)
         /\ Prefix(script, Len(raw)) = raw
<1>1. io_rx_ \in Strings /\ inq \in Strings /\ unsent \in Strings
  BY DEF StreamInv
<1>2. raw \in Strings /\ inq \o unsent \in Strings
  BY <1>1, ConcatProperties DEF Strings
<1>3. Len(raw) # 0
  BY <1>2, EmptySeq, LenProperties DEF Strings
<1>4. script \in Scripts /\ Len(raw) \in CutsOf(script)
  BY <1>3 DEF TextInv
<1>5. \E rest \in Strings : Texts(script) = raw \o rest
  <2>1. /\ Texts(script) = (io_rx_ \o inq) \o unsent
        /\ (io_rx_ \o inq) \o unsent = io_rx_ \o (inq \o unsent)
    BY <1>1, Joined DEF TextInv
  <2>2. CASE raw = io_rx_
    BY <1>2, <2>1, <2>2
  <2>3. CASE raw = io_rx_ \o inq
    BY <1>1, <2>1, <2>3
  <2>4. QED
    BY <2>2, <2>3
<1>6. SubSeq(Texts(script), 1, Len(raw)) = raw
  BY <1>2, <1>5, BeginningOf
<1>7. QED
  BY <1>4, <1>6 DEF Prefix

(* What is in the buffer stays in it.                                       *)
LEMMA BufferGrows ==
  ASSUME StreamInv, [Next]_vars
  PROVE  Len(io_rx_) \in Nat /\ Len(io_rx_') \in Nat /\ Len(io_rx_) <= Len(io_rx_')
<1>1. /\ io_rx_ \in Strings /\ inq \in Strings
      /\ Len(io_rx_) \in Nat /\ Len(inq) \in Nat
  BY LenProperties DEF StreamInv, Strings
<1>2. CASE HandleIn
  <2>1. Len(io_rx_ \o inq) = Len(io_rx_) + Len(inq)
    BY <1>1, ConcatProperties DEF Strings
  <2>2. io_rx_' = io_rx_ \o inq
    BY <1>2, HandleInMoves
  <2>3. Len(io_rx_') = Len(io_rx_) + Len(inq)
    BY <2>1, <2>2
  <2>4. QED
    BY <1>1, <2>3
<1>3. CASE UNCHANGED io_rx_
  BY <1>1, <1>3
<1>4. HandleIn \/ UNCHANGED io_rx_
  BY DEF Next, PeerSend, PeerShutdown, PeerReset, HandleErr, HandleOut, OnTx,
         ResetState, vars, connVars
<1>5. QED
  BY <1>2, <1>3, <1>4

(* The first request is answered as it deserves, and its handler gets the   *)
(* content that was sent, however the text was cut into segments, if that   *)
(* is so of a text that comes in one piece, no segment ends where the       *)
(* parser loses its place, and none inside a trailer section.               *)
THEOREM FirstIsAnswered ==
  ASSUME ResumableCuts,
         \A s \in Scripts : \A n \in CutsOf(s) :
           NoTrailerRead(Prefix(s, n)) /\ RightInOnePiece(Prefix(s, n), s)
  PROVE  Spec => []FirstAnswer
<1>1. Init => FirstAnswer
  BY DEF Init, FirstAnswer
<1>2. /\ StreamInv /\ TextInv /\ WaitInv /\ AsOnePiece /\ FirstAnswer /\ [Next]_vars
      => FirstAnswer'
  <2> SUFFICES ASSUME StreamInv, TextInv, WaitInv, AsOnePiece, FirstAnswer,
                      [Next]_vars, answers' # <<>>
               PROVE  RightAnswer(script'[1], answers'[1].status,
                                  answers'[1].content, Len(io_rx_'))
    BY DEF FirstAnswer
  <2>1. script' = script
    BY DEF Next, PeerSend, PeerShutdown, PeerReset, HandleErr, HandleIn, HandleOut,
           vars, peerVars
  <2>2. PICK S : answers \in Seq(S)
    BY DEF WaitInv
  <2>3. \/ answers' = answers
        \/ /\ HandleIn /\ io_rx_ \o inq # <<>> /\ OnRx(io_rx_ \o inq)
           /\ interest = "in"
    BY HandleInCases DEF Next, PeerSend, PeerShutdown, PeerReset, HandleErr,
                         HandleOut, vars, history
  <2>4. CASE answers # <<>>
    <3>1. answers'[1] = answers[1]
      <4>1. \A answer : Append(answers, answer)[1] = answers[1]
        BY <2>2, <2>4, OneMore
      <4>2. OnRx(io_rx_ \o inq) =>
              answers' = answers \/ \E answer : answers' = Append(answers, answer)
        BY OnRxCases
      <4>3. answers' = answers \/ \E answer : answers' = Append(answers, answer)
        BY <2>3, <4>2
      <4>4. ASSUME NEW answer, answers' = Append(answers, answer)
            PROVE  answers'[1] = answers[1]
        BY <4>1, <4>4, Zenon
      <4>5. QED
        BY <4>3, <4>4
    <3>2. RightAnswer(script[1], answers[1].status, answers[1].content, Len(io_rx_))
      BY <2>4 DEF FirstAnswer
    <3>3. /\ Len(io_rx_) \in Nat /\ Len(io_rx_') \in Nat
          /\ Len(io_rx_) <= Len(io_rx_')
      BY BufferGrows
    <3>4. Len(script[1].text) \in Nat
      <4>1. script \in Scripts
        BY DEF TextInv
      <4>2. script \in Seq(Range(script)) /\ script # <<>>
        BY <4>1, ScriptsAssumption
      <4>3. 1 \in DOMAIN script
        BY <4>2, EmptySeq, LenProperties
      <4>4. script[1].text \in Seq(Range(script[1].text))
        BY <4>1, <4>3, ScriptsAssumption
      <4>5. QED
        BY <4>4, LenProperties
    <3>5. QED
      BY <2>1, <3>1, <3>2, <3>3, <3>4 DEF RightAnswer
  <2>5. CASE answers = <<>>
    <3> DEFINE raw   == io_rx_ \o inq
               now   == Piece(raw, req_, parsed_to_idx_)
               whole == OnePiece(raw)
    <3>1. raw # <<>> /\ OnRx(raw) /\ interest = "in"
      BY <2>3, <2>5
    <3>2. PICK s, answer :
            /\ s \in Statuses(now.req) /\ io_rx_' = raw
            /\ ~IsParsingIncomplete(now.req) /\ now.req.err # "throw"
            /\ answers' = Append(answers, answer)
            /\ answer.status = s /\ answer.content = now.req.content
      BY <2>5, <3>1, OnRxCases
    <3>3. answers'[1] = answer
      BY <2>2, <2>5, <3>2, OneMore
    <3>4. io_rx_ # <<>> => NoTrailerRead(io_rx_)
      BY CutPlace
    <3>5. now.req = whole.req
      BY <2>5, <3>1, <3>4, Resumed
    <3>6. RightInOnePiece(raw, script)
      BY <3>1, CutPlace
    <3> HIDE DEF raw, now
    <3>7. RightAnswer(script[1], s, now.req.content, Len(raw))
      BY <3>2, <3>5, <3>6 DEF RightInOnePiece
    <3>8. QED
      BY <2>1, <3>2, <3>3, <3>7
  <2>6. QED
    BY <2>4, <2>5
<1>3. Spec => []AsOnePiece
  BY SegmentsDoNotMatter
<1>4. QED
  BY <1>1, <1>2, <1>3, StreamInvHolds, TextInvHolds, WaitInvHolds, PTL DEF Spec

=============================================================================
