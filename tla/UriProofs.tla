------------------------------ MODULE UriProofs -----------------------------
(***************************************************************************)
(* Proofs of the properties of UriCheck, for texts of any length over any  *)
(* alphabets.                                                              *)
(***************************************************************************)
EXTENDS UriCheck, TextProofs

-----------------------------------------------------------------------------
(* parse_uri is its four parts one after the other.                         *)

PartNames == <<"scheme", "authority", "path", "query">>

Part(raw, flags, part, u) ==
  IF part \notin flags \/ u.threw THEN u ELSE ParsePart(u, part, raw, Cuts(raw))

PartBody(raw, flags, i, u) == Part(raw, flags, PartNames[i], u)

Nothing(raw, flags, i, u) == TRUE

Parts == INSTANCE LoopProofs WITH Body <- PartBody, Good <- Nothing

(* Each part is applied to what the one before has made.                    *)
LEMMA PartsInOrder ==
  ASSUME NEW u, NEW raw, NEW flags
  PROVE  ParseUri(u, raw, flags) =
           Part(raw, flags, "query",
             Part(raw, flags, "path",
               Part(raw, flags, "authority", Part(raw, flags, "scheme", u))))
<1> DEFINE Op(at, v, part) == IF part \notin flags \/ v.threw THEN v
                              ELSE ParsePart(v, part, raw, at)
           States(f, at) == [i \in 0 .. Len(PartNames) |->
                               IF i = 0 THEN u
                               ELSE Only({Op(at, s, PartNames[i]) : s \in {f[i - 1]}})]
           Folded(at) == (CHOOSE f : f = States(f, at))[Len(PartNames)]
<1>1. \A x : Only({x}) = x
  BY DEF Only
<1>2. ParseUri(u, raw, flags) = Folded(Cuts(raw))
  <2>1. ParseUri(u, raw, flags) = Only({Folded(at) : at \in {Cuts(raw)}})
    BY Zenon DEF ParseUri, Fold, PartNames
  <2> HIDE DEF Folded
  <2>2. {Folded(at) : at \in {Cuts(raw)}} = {Folded(Cuts(raw))}
    OBVIOUS
  <2>3. QED
    BY <1>1, <2>1, <2>2, Zenon
<1>3. \A f : Parts!StatesOf(f, raw, flags, u, 4) = States(f, Cuts(raw))
  <2> TAKE f
  <2>1. \A i \in 0 .. 4 : \A s : PartBody(raw, flags, i, s) = Op(Cuts(raw), s, PartNames[i])
    BY Zenon DEF PartBody, Part
  <2>2. Len(PartNames) = 4
    BY DEF PartNames
  <2> HIDE DEF Op
  <2>3. QED
    BY <2>1, <2>2 DEF Parts!StatesOf, Parts!Once, Parts!Only, Only
<1>4. \E f : f = Parts!StatesOf(f, raw, flags, u, 4)
  <2>1. 4 \in Nat
    OBVIOUS
  <2>2. QED
    BY <2>1, Parts!StatesExist, Zenon
<1>5. PICK f : f = States(f, Cuts(raw)) /\ Folded(Cuts(raw)) = f[Len(PartNames)]
  <2> HIDE DEF States
  <2>1. \E f : f = States(f, Cuts(raw))
    BY <1>3, <1>4, Zenon
  <2>2. QED
    BY <2>1, Zenon
<1>6. Len(PartNames) = 4 /\ 0 .. 4 = {0, 1, 2, 3, 4}
  BY DEF PartNames
<1>7. \A i \in 0 .. 4 : f[i] = IF i = 0 THEN u ELSE Op(Cuts(raw), f[i - 1], PartNames[i])
  <2> SUFFICES ASSUME NEW i \in 0 .. 4
               PROVE  f[i] = IF i = 0 THEN u ELSE Op(Cuts(raw), f[i - 1], PartNames[i])
    OBVIOUS
  <2> HIDE DEF Op
  <2>1. f[i] = IF i = 0 THEN u
               ELSE Only({Op(Cuts(raw), s, PartNames[i]) : s \in {f[i - 1]}})
    BY <1>5, <1>6
  <2>2. {Op(Cuts(raw), s, PartNames[i]) : s \in {f[i - 1]}}
          = {Op(Cuts(raw), f[i - 1], PartNames[i])}
    OBVIOUS
  <2>3. QED
    BY <1>1, <2>1, <2>2
<1>8. \A v, part : Op(Cuts(raw), v, part) = Part(raw, flags, part, v)
  BY Zenon DEF Part
<1>9. \A i \in 0 .. 4 : f[i] = IF i = 0 THEN u ELSE Part(raw, flags, PartNames[i], f[i - 1])
  <2> HIDE DEF Op
  <2>1. QED
    BY <1>7, <1>8
<1>10. /\ f[0] = u
       /\ f[1] = Part(raw, flags, "scheme", f[0])
       /\ f[2] = Part(raw, flags, "authority", f[1])
       /\ f[3] = Part(raw, flags, "path", f[2])
       /\ f[4] = Part(raw, flags, "query", f[3])
  BY <1>9 DEF PartNames
<1>11. QED
  BY <1>2, <1>5, <1>6, <1>10

-----------------------------------------------------------------------------
(* The inductive invariant: what the texts are like, and that uri is what   *)
(* parse_uri makes of text.                                                 *)

NumbersApart(t) ==
  \A i \in 1 .. Len(t) - 1 : ~(IsDigits(t[i]) /\ IsDigits(t[i + 1]))

SlashesApart(t) ==
  \A i, j \in 1 .. Len(t) - 1 :
    i < j => ~(t[i] = "?" /\ t[j] = "/" /\ t[j + 1] = "/")

UriInv ==
  /\ use \in Uses
  /\ text \in Seq(use.alphabet)
  /\ NumbersApart(text)
  /\ SlashesInQuery \/ SlashesApart(text)
  /\ uri = IF parsed THEN ParseUri(NewUri, text, use.flags) ELSE NewUri

(* One more token leaves the numbers and the slashes apart.                 *)
LEMMA WriteStep ==
  ASSUME UriInv, Write
  PROVE  UriInv'
<1> PICK c \in use.alphabet :
      /\ ~(text # <<>> /\ IsDigits(c) /\ IsDigits(Last(text)))
      /\ SlashesInQuery \/ ~(Contains(text, "?") /\ c = "/" /\ Last(text) = "/")
      /\ text' = Append(text, c)
  BY DEF Write
<1>1. UNCHANGED <<use, uri, parsed>> /\ ~parsed
  BY DEF Write
<1> DEFINE n == Len(text)
<1>2. /\ text \in Seq(use.alphabet) /\ n \in Nat
      /\ text' \in Seq(use.alphabet) /\ Len(text') = n + 1
      /\ \A i \in 1 .. n : text'[i] = text[i]
      /\ text'[n + 1] = c
  BY AppendProperties, LenProperties DEF UriInv
<1>3. n > 0 => text # <<>> /\ Last(text) = text[n]
  BY <1>2 DEF Last
<1> HIDE DEF n
<1>4. NumbersApart(text')
  <2> SUFFICES ASSUME NEW i \in 1 .. n
               PROVE  ~(IsDigits(text'[i]) /\ IsDigits(text'[i + 1]))
    BY <1>2 DEF NumbersApart
  <2>1. CASE i < n
    <3>1. i \in 1 .. n - 1 /\ i + 1 \in 1 .. n
      BY <1>2, <2>1
    <3>2. ~(IsDigits(text[i]) /\ IsDigits(text[i + 1]))
      BY <3>1 DEF UriInv, NumbersApart, n
    <3>3. QED
      BY <1>2, <3>1, <3>2
  <2>2. CASE i = n
    BY <1>2, <1>3, <2>2
  <2>3. QED
    BY <1>2, <2>1, <2>2
<1>5. SlashesInQuery \/ SlashesApart(text')
  <2> SUFFICES ASSUME ~SlashesInQuery, NEW i \in 1 .. n, NEW j \in 1 .. n, i < j
               PROVE  ~(text'[i] = "?" /\ text'[j] = "/" /\ text'[j + 1] = "/")
    BY <1>2 DEF SlashesApart
  <2>1. CASE j < n
    <3>1. i \in 1 .. n - 1 /\ j \in 1 .. n - 1 /\ j + 1 \in 1 .. n
      BY <1>2, <2>1
    <3>2. ~(text[i] = "?" /\ text[j] = "/" /\ text[j + 1] = "/")
      BY <3>1 DEF UriInv, SlashesApart, n
    <3>3. QED
      BY <1>2, <3>1, <3>2
  <2>2. CASE j = n
    <3>1. text[i] = "?" => Contains(text, "?")
      BY <1>2 DEF Contains, n
    <3>2. QED
      BY <1>2, <1>3, <2>2, <3>1
  <2>3. QED
    BY <1>2, <2>1, <2>2
<1>6. QED
  BY <1>1, <1>2, <1>4, <1>5 DEF UriInv

(* UriInv is an invariant.                                                  *)
LEMMA UriInductive == Spec => []UriInv
<1>1. Init => UriInv
  <2> SUFFICES ASSUME Init PROVE UriInv
    OBVIOUS
  <2>1. text \in Seq(use.alphabet) /\ Len(text) = 0
    BY EmptySeq DEF Init
  <2>2. NumbersApart(text) /\ SlashesApart(text)
    BY <2>1 DEF NumbersApart, SlashesApart
  <2>3. QED
    BY <2>1, <2>2 DEF Init, UriInv
<1>2. UriInv /\ [Next]_vars => UriInv'
  <2> SUFFICES ASSUME UriInv, [Next]_vars PROVE UriInv'
    OBVIOUS
  <2>1. CASE Write
    BY <2>1, WriteStep
  <2>2. CASE Parse
    BY <2>2 DEF Parse, UriInv
  <2>3. CASE UNCHANGED vars
    BY <2>3 DEF vars, UriInv
  <2>4. QED
    BY <2>1, <2>2, <2>3 DEF Next
<1>3. QED
  BY <1>1, <1>2, PTL DEF Spec

(* What the properties speak of.                                            *)
LEMMA WhatIsParsed ==
  ASSUME UriInv
  PROVE  /\ text \in Seq(Tokens) /\ NumbersApart(text)
         /\ SlashesInQuery \/ SlashesApart(text)
         /\ parsed => uri = ParseUri(NewUri, text, use.flags)
         /\ ~parsed => uri = NewUri
BY SeqMonotonic, UsesAssumption DEF UriInv

-----------------------------------------------------------------------------
(* What each part leaves alone.                                             *)

Texts == Seq(Tokens)

Uris == [has_err : BOOLEAN, threw : BOOLEAN, scheme : Texts, userinfo : Texts,
         reg_name : Texts, ipv6 : Texts, future_version : Texts,
         ipvfuture : Texts, port : Int, path : Texts, query : Texts]

SameHost(u, v) == v.reg_name = u.reg_name /\ v.port = u.port

(* The empty URI.                                                           *)
LEMMA NewUriTyped == NewUri \in Uris
BY EmptySeq DEF NewUri, Uris, Texts, NoPort

(* A scheme leaves the path and the host.                                   *)
LEMMA SchemeKeeps ==
  ASSUME NEW u \in Uris, NEW t \in Texts
  PROVE  LET v == ParseScheme(u, t)
         IN v \in Uris /\ v.path = u.path /\ v.threw = u.threw /\ SameHost(u, v)
BY DEF ParseScheme, ParsePattern, Uris, SameHost

(* So does a userinfo.                                                      *)
LEMMA UserinfoKeeps ==
  ASSUME NEW u \in Uris, NEW t \in Texts
  PROVE  LET v == ParseUserinfo(u, t)
         IN v \in Uris /\ v.path = u.path /\ v.threw = u.threw /\ SameHost(u, v)
BY DEF ParseUserinfo, Uris, SameHost

(* So does a query.                                                         *)
LEMMA QueryKeeps ==
  ASSUME NEW u \in Uris, NEW t \in Texts
  PROVE  LET v == ParseQuery(u, t)
         IN v \in Uris /\ v.path = u.path /\ SameHost(u, v)
BY DEF ParseQuery, ParsePattern, Uris, SameHost

(* A port leaves the path and the name.                                     *)
LEMMA PortKeeps ==
  ASSUME NEW u \in Uris, NEW t \in Texts
  PROVE  LET v == ParsePort(u, t)
         IN v \in Uris /\ v.path = u.path /\ v.reg_name = u.reg_name
<1> DEFINE n == Numbers[t[FindNotOf(t, "SP", 0) + 1]]
           e == ~ParsePattern(t, IsDigits)
<1>1. e \in BOOLEAN
  BY DEF ParsePattern
<1>2. \/ ParsePort(u, t) = [u EXCEPT !.has_err = FALSE, !.port = NoPort]
      \/ ParsePort(u, t) = [u EXCEPT !.threw = TRUE]
      \/ n \in Int /\ ParsePort(u, t) = [u EXCEPT !.has_err = e, !.port = n]
  <2>1. \A d \in DOMAIN Numbers : Numbers[d] \in Int
    BY DEF Numbers
  <2>2. QED
    BY <2>1 DEF ParsePort
<1> HIDE DEF n, e
<1>3. NoPort \in Int
  BY DEF NoPort
<1>4. CASE ParsePort(u, t) = [u EXCEPT !.has_err = FALSE, !.port = NoPort]
  BY <1>3, <1>4 DEF Uris
<1>5. CASE ParsePort(u, t) = [u EXCEPT !.threw = TRUE]
  BY <1>5 DEF Uris
<1>6. CASE n \in Int /\ ParsePort(u, t) = [u EXCEPT !.has_err = e, !.port = n]
  BY <1>1, <1>6 DEF Uris
<1>7. QED
  BY <1>2, <1>4, <1>5, <1>6


(* An address of a later version leaves the path and the host.              *)
LEMMA IpvfutureKeeps ==
  ASSUME NEW u \in Uris, NEW t \in Texts
  PROVE  LET v == ParseIpvfuture(u, t)
         IN v \in Uris /\ v.path = u.path /\ SameHost(u, v)
<1> DEFINE dot == Find(t, <<".">>, 0)
           version == Between(t, 1, dot)
           address == After(t, dot + 1)
           IsAddress(c) == IsRegular(c) \/ c = ":"
           e == ~(ParsePattern(version, IsHex) /\ ParsePattern(address, IsAddress))
<1>1. Len(t) \in Nat /\ (dot = NPos \/ dot \in 0 .. Len(t) - 1)
  BY FindToken, LenProperties DEF Texts
<1>2. dot # NPos => version \in Texts /\ address \in Texts
  <2> SUFFICES ASSUME dot # NPos PROVE version \in Texts /\ address \in Texts
    OBVIOUS
  <2>1. dot \in Int /\ dot <= Len(t) /\ dot + 1 \in Nat /\ 1 \in Nat
    BY <1>1
  <2> HIDE DEF dot
  <2>2. QED
    BY <2>1, BetweenProperties, AfterProperties DEF Texts
<1>3. e \in BOOLEAN
  BY DEF ParsePattern
<1>4. \/ ParseIpvfuture(u, t) = [u EXCEPT !.has_err = TRUE]
      \/ /\ version \in Texts
         /\ ParseIpvfuture(u, t) = [u EXCEPT !.has_err = TRUE, !.future_version = version]
      \/ /\ version \in Texts /\ address \in Texts
         /\ ParseIpvfuture(u, t) = [u EXCEPT !.has_err = e, !.future_version = version,
                                             !.ipvfuture = address]
  <2> HIDE DEF version, address, dot
  <2>1. QED
    BY <1>2 DEF ParseIpvfuture, version, address, dot
<1> HIDE DEF version, address, e
<1>5. CASE ParseIpvfuture(u, t) = [u EXCEPT !.has_err = TRUE]
  BY <1>5 DEF Uris, SameHost
<1>6. CASE /\ version \in Texts
           /\ ParseIpvfuture(u, t) = [u EXCEPT !.has_err = TRUE, !.future_version = version]
  BY <1>6 DEF Uris, SameHost
<1>7. CASE /\ version \in Texts /\ address \in Texts
           /\ ParseIpvfuture(u, t) = [u EXCEPT !.has_err = e, !.future_version = version,
                                               !.ipvfuture = address]
  BY <1>3, <1>7 DEF Uris, SameHost
<1>8. QED
  BY <1>4, <1>5, <1>6, <1>7

(* A host name is the text between two places.                              *)
LEMMA HostKeeps ==
  ASSUME NEW u \in Uris, NEW auth \in Texts,
         NEW start \in Nat, NEW end \in 0 .. Len(auth)
  PROVE  LET v == ParseHostPart(u, auth, start, end)
         IN /\ v \in Uris /\ v.path = u.path
            /\ \/ v.reg_name = u.reg_name
               \/ start < end /\ v.reg_name = Between(auth, start, end)
<1> DEFINE v == ParseHostPart(u, auth, start, end)
           host == Between(auth, start, end)
           inner == Between(auth, start + 1, end - 1)
           e == ~ParsePattern(host, IsRegular)
<1>1. Len(auth) \in Nat
  BY LenProperties DEF Texts
<1>2. host \in Texts
  <2>1. end \in Int /\ end <= Len(auth)
    BY <1>1
  <2>2. QED
    BY <2>1, BetweenProperties DEF Texts
<1>3. inner \in Texts
  <2> DEFINE from == start + 1
             to == end - 1
  <2>1. from \in Nat /\ to \in Int /\ to <= Len(auth)
    BY <1>1
  <2> HIDE DEF from, to
  <2>2. Between(auth, from, to) \in Texts
    BY <2>1, BetweenProperties DEF Texts
  <2>3. QED
    BY <2>2 DEF from, to
<1>4. e \in BOOLEAN
  BY DEF ParsePattern
<1>5. \/ v = [u EXCEPT !.has_err = TRUE]
      \/ v = [u EXCEPT !.threw = TRUE]
      \/ start < end /\ v = [u EXCEPT !.has_err = e, !.reg_name = host]
      \/ v = ParseIpvfuture(u, inner)
      \/ v = [u EXCEPT !.ipv6 = inner]
  <2> HIDE DEF inner, host
  <2>1. QED
    BY <1>1 DEF ParseHostPart, inner, host
<1> HIDE DEF v, host, inner, e
<1>6. CASE v = [u EXCEPT !.has_err = TRUE]
  BY <1>6 DEF Uris, v
<1>7. CASE v = [u EXCEPT !.threw = TRUE]
  BY <1>7 DEF Uris, v
<1>8. CASE start < end /\ v = [u EXCEPT !.has_err = e, !.reg_name = host]
  <2>1. v \in Uris /\ v.path = u.path /\ v.reg_name = host
    BY <1>2, <1>4, <1>8 DEF Uris
  <2>2. QED
    BY <1>8, <2>1 DEF v, host
<1>9. CASE v = ParseIpvfuture(u, inner)
  BY <1>3, <1>9, IpvfutureKeeps DEF v, SameHost
<1>10. CASE v = [u EXCEPT !.ipv6 = inner]
  BY <1>3, <1>10 DEF Uris, v
<1>11. QED
  BY <1>5, <1>6, <1>7, <1>8, <1>9, <1>10

(* A port that is accepted was one number.                                  *)
LEMMA PortRead ==
  ASSUME NEW u \in Uris, NEW t \in Texts, NumbersApart(t),
         ~ParsePort(u, t).threw, ~ParsePort(u, t).has_err,
         ParsePort(u, t).port # NoPort
  PROVE  Len(t) = 1 /\ t[1] \in DOMAIN Numbers /\ ParsePort(u, t).port = Numbers[t[1]]
<1> DEFINE first == FindNotOf(t, "SP", 0)
           v == ParsePort(u, t)
           n == Numbers[t[first + 1]]
           e == ~ParsePattern(t, IsDigits)
<1>1. Len(t) \in Nat /\ DOMAIN t = 1 .. Len(t) /\ (Len(t) = 0 => t = <<>>)
  BY LenProperties, EmptySeq DEF Texts
<1>2. \/ first = NPos
      \/ first \in 0 .. Len(t) - 1 /\ \A i \in 1 .. first : t[i] = "SP"
  BY FindNotOfProperties DEF Texts
<1>3. /\ t # <<>> /\ first # NPos /\ t[first + 1] \in DOMAIN Numbers
      /\ v = [u EXCEPT !.has_err = e, !.port = n]
  <2>1. [u EXCEPT !.threw = TRUE].threw /\ [u EXCEPT !.has_err = FALSE, !.port = NoPort].port = NoPort
    BY DEF Uris
  <2> HIDE DEF n, e, first
  <2>2. QED
    BY <2>1 DEF ParsePort, n, e, first
<1>4. ~e /\ v.port = n
  <2>1. v.has_err = e /\ v.port = n
    <3> HIDE DEF n, e
    <3>1. QED
      BY <1>3 DEF Uris
  <2>2. QED
    BY <2>1
<1>5. \A i \in 1 .. Len(t) : IsDigits(t[i])
  BY <1>1, <1>4 DEF ParsePattern
<1>6. first = 0
  <2>1. Len(t) # 0 /\ 1 \in 1 .. Len(t)
    BY <1>1, <1>3
  <2>2. t[1] # "SP"
    BY <1>5, <2>1 DEF IsDigits, Numbers
  <2>3. QED
    BY <1>2, <1>3, <2>1, <2>2
<1>7. Len(t) = 1
  <2> SUFFICES ASSUME Len(t) # 1 PROVE FALSE
    OBVIOUS
  <2>1. 1 \in 1 .. Len(t) - 1 /\ 1 \in 1 .. Len(t) /\ 1 + 1 \in 1 .. Len(t)
    BY <1>1, <1>3
  <2>2. QED
    BY <1>5, <2>1 DEF NumbersApart
<1>8. QED
  BY <1>3, <1>4, <1>6, <1>7

(* What an authority leaves alone, and where in it a host name and a port   *)
(* stand that are accepted.                                                 *)
Named(u, auth, start, end) ==
  /\ start < end /\ end + 2 = Len(auth)
  /\ start = 0 \/ auth[start] = "@"
  /\ u.reg_name = Between(auth, start, end)
  /\ auth[end + 1] = ":"
  /\ auth[end + 2] \in DOMAIN Numbers
  /\ u.port = Numbers[auth[end + 2]]

(* Either the name and the port are found side by side in the authority, or *)
(* not both are stored.                                                     *)
LEMMA HostPortKeeps ==
  ASSUME NEW u \in Uris, NEW auth \in Texts, NEW start \in Nat,
         NEW end \in {NPos} \cup 0 .. Len(auth) - 1
  PROVE  LET v == ParseHostPort(u, auth, start, end)
         IN /\ v \in Uris /\ v.path = u.path
            /\ \/ v.reg_name = u.reg_name \/ v.port = NoPort
               \/ v.has_err \/ v.threw
               \/ ~NumbersApart(auth)
               \/ /\ end # NPos /\ start < end /\ end + 2 = Len(auth)
                  /\ v.reg_name = Between(auth, start, end)
                  /\ auth[end + 2] \in DOMAIN Numbers
                  /\ v.port = Numbers[auth[end + 2]]
<1>1. Len(auth) \in Nat /\ NPos = -1
  BY LenProperties DEF Texts, NPos
<1>2. CASE end = NPos
  <2> DEFINE w == ParseHostPart(u, auth, start, Len(auth))
  <2>1. w \in Uris /\ w.path = u.path
    BY <1>1, HostKeeps
  <2>2. ParseHostPort(u, auth, start, end) = [w EXCEPT !.port = NoPort]
    BY <1>2 DEF ParseHostPort
  <2> HIDE DEF w
  <2>3. NoPort \in Int
    BY DEF NoPort
  <2>4. QED
    BY <2>1, <2>2, <2>3 DEF Uris
<1>3. CASE end # NPos
  <2>0. end \in 0 .. Len(auth) - 1
    BY <1>3
  <2> DEFINE w == ParseHostPart(u, auth, start, end)
             t == After(auth, end + 1)
             v == ParseHostPort(u, auth, start, end)
  <2>1. /\ w \in Uris /\ w.path = u.path
        /\ \/ w.reg_name = u.reg_name
           \/ start < end /\ w.reg_name = Between(auth, start, end)
    BY <1>1, <2>0, HostKeeps
  <2>2. /\ t \in Texts /\ Len(t) = Len(auth) - (end + 1)
        /\ \A i \in 1 .. Len(auth) - (end + 1) : t[i] = auth[end + 1 + i]
    <3> DEFINE from == end + 1
    <3>1. from \in Nat /\ from <= Len(auth)
      BY <1>1, <2>0
    <3> HIDE DEF from
    <3>2. /\ After(auth, from) \in Texts /\ Len(After(auth, from)) = Len(auth) - from
          /\ \A i \in 1 .. Len(auth) - from : After(auth, from)[i] = auth[from + i]
      BY <3>1, AfterProperties DEF Texts
    <3>3. QED
      BY <3>2 DEF from
  <2>3. v = IF w.threw THEN w ELSE ParsePort(w, t)
    <3>1. v = Only({IF x.threw THEN x ELSE ParsePort(x, t) : x \in {w}})
      BY <1>3, Zenon DEF ParseHostPort
    <3> HIDE DEF w, t
    <3>2. {IF x.threw THEN x ELSE ParsePort(x, t) : x \in {w}}
            = {IF w.threw THEN w ELSE ParsePort(w, t)}
      OBVIOUS
    <3>3. QED
      BY <3>1, <3>2 DEF Only
  <2>4. NumbersApart(auth) => NumbersApart(t)
    <3> SUFFICES ASSUME NumbersApart(auth), NEW i \in 1 .. Len(t) - 1
                 PROVE  ~(IsDigits(t[i]) /\ IsDigits(t[i + 1]))
      BY DEF NumbersApart
    <3>1. /\ end + 1 + i \in 1 .. Len(auth) - 1
          /\ t[i] = auth[end + 1 + i] /\ t[i + 1] = auth[end + 1 + i + 1]
      BY <1>1, <2>0, <2>2
    <3>2. QED
      BY <3>1 DEF NumbersApart
  <2> HIDE DEF v, w, t
  <2>5. CASE w.threw
    BY <2>1, <2>3, <2>5 DEF v
  <2>6. CASE ~w.threw
    <3>1. v = ParsePort(w, t)
      BY <2>3, <2>6
    <3>2. v \in Uris /\ v.path = u.path /\ v.reg_name = w.reg_name
      BY <2>1, <2>2, <3>1, PortKeeps
    <3>3. \/ v.has_err \/ v.threw \/ v.port = NoPort \/ ~NumbersApart(auth)
          \/ Len(t) = 1 /\ t[1] \in DOMAIN Numbers /\ v.port = Numbers[t[1]]
      BY <2>1, <2>2, <2>4, <3>1, PortRead
    <3>4. Len(t) = 1 => end + 2 = Len(auth) /\ t[1] = auth[end + 2]
      <4> SUFFICES ASSUME Len(t) = 1 PROVE end + 2 = Len(auth) /\ t[1] = auth[end + 2]
        OBVIOUS
      <4>1. Len(auth) - (end + 1) = 1
        BY <2>2
      <4>2. t[1] = auth[end + 1 + 1]
        BY <2>2, <4>1
      <4>3. end + 1 + 1 = end + 2 /\ end + 2 = Len(auth)
        BY <1>1, <2>0, <4>1
      <4>4. QED
        BY <4>2, <4>3
    <3>5. QED
      BY <1>3, <2>1, <3>2, <3>3, <3>4 DEF v
  <2>7. QED
    BY <2>5, <2>6
<1>4. QED
  BY <1>2, <1>3

(* The same of the authority as a whole.                                    *)
LEMMA AuthorityKeeps ==
  ASSUME NEW u \in Uris, NEW auth \in Texts
  PROVE  LET v == ParseAuthority(u, auth)
         IN /\ v \in Uris /\ v.path = u.path
            /\ \/ v.reg_name = u.reg_name \/ v.port = NoPort
               \/ v.has_err \/ v.threw
               \/ ~NumbersApart(auth)
               \/ \E start, end \in 0 .. Len(auth) : Named(v, auth, start, end)
<1> DEFINE at == Find(auth, <<"@">>, 0)
           close == Find(auth, <<"]">>, 0)
           from == Max({close, 0})
           start == at + 1
           end == Find(auth, <<":">>, from)
           w == IF at = NPos THEN u ELSE ParseUserinfo(u, Between(auth, 0, at))
           v == ParseAuthority(u, auth)
<1>1. Len(auth) \in Nat /\ NPos = -1
  BY LenProperties DEF Texts, NPos
<1>2. at = NPos \/ (at \in 0 .. Len(auth) - 1 /\ auth[at + 1] = "@")
  BY FindToken DEF Texts
<1>3. close = NPos \/ close \in 0 .. Len(auth) - 1
  BY FindToken DEF Texts
<1> HIDE DEF at, close
<1>4. from \in Nat
  BY <1>1, <1>3, MaxOfTwo
<1> HIDE DEF from
<1>5. end = NPos \/ (end \in from .. Len(auth) - 1 /\ auth[end + 1] = ":")
  BY <1>4, FindToken DEF Texts
<1> HIDE DEF end
<1>6. start \in Nat /\ end \in {NPos} \cup 0 .. Len(auth) - 1
  BY <1>1, <1>2, <1>4, <1>5
<1>7. start = 0 \/ auth[start] = "@"
  BY <1>1, <1>2
<1>8. w \in Uris /\ w.path = u.path /\ w.reg_name = u.reg_name
  <2>1. at # NPos => Between(auth, 0, at) \in Texts
    <3> SUFFICES ASSUME at # NPos PROVE Between(auth, 0, at) \in Texts
      OBVIOUS
    <3>1. at \in Int /\ at <= Len(auth) /\ 0 \in Nat
      BY <1>1, <1>2
    <3>2. QED
      BY <3>1, BetweenProperties DEF Texts
  <2>2. QED
    BY <2>1, UserinfoKeeps DEF SameHost
<1>9. v = ParseHostPort(w, auth, start, end)
  BY DEF ParseAuthority, at, close, from, end
<1> HIDE DEF start, w, v
<1>10. /\ v \in Uris /\ v.path = w.path
       /\ \/ v.reg_name = w.reg_name \/ v.port = NoPort
          \/ v.has_err \/ v.threw
          \/ ~NumbersApart(auth)
          \/ /\ end # NPos /\ start < end /\ end + 2 = Len(auth)
             /\ v.reg_name = Between(auth, start, end)
             /\ auth[end + 2] \in DOMAIN Numbers
             /\ v.port = Numbers[auth[end + 2]]
  BY <1>6, <1>8, <1>9, HostPortKeeps
<1>11. ASSUME end # NPos, start < end, end + 2 = Len(auth),
              v.reg_name = Between(auth, start, end),
              auth[end + 2] \in DOMAIN Numbers,
              v.port = Numbers[auth[end + 2]]
       PROVE  \E a, b \in 0 .. Len(auth) : Named(v, auth, a, b)
  <2>1. start \in 0 .. Len(auth) /\ end \in 0 .. Len(auth)
    BY <1>1, <1>6, <1>11
  <2>2. Named(v, auth, start, end)
    BY <1>5, <1>7, <1>11 DEF Named
  <2>3. QED
    BY <2>1, <2>2, Zenon
<1>12. QED
  BY <1>8, <1>10, <1>11 DEF v

-----------------------------------------------------------------------------
(* The parts with their places in the text.                                 *)

(* Where the searches for the delimiters can end.                           *)
LEMMA CutsProperties ==
  ASSUME NEW raw \in Texts
  PROVE  LET at == Cuts(raw)
             slashes == Find(raw, <<"/", "/">>, 0)
         IN /\ at.scheme_end = NPos \/ at.scheme_end \in 0 .. Len(raw)
            /\ at.auth_start = (IF slashes = NPos THEN 0 ELSE slashes)
            /\ at.auth_start \in 0 .. Len(raw)
            /\ at.auth_end \in 0 .. Len(raw)
            /\ at.auth_end < Len(raw) => raw[at.auth_end + 1] \in {"/", "?"}
            /\ \/ at.path_start = NPos
               \/ at.path_start \in 0 .. Len(raw) - 1 /\ raw[at.path_start + 1] = "/"
            /\ at.path_end \in 0 .. Len(raw)
            /\ \/ at.query = NPos
               \/ at.query \in 0 .. Len(raw) - 1 /\ raw[at.query + 1] = "?"
<1> DEFINE slashes == Find(raw, <<"/", "/">>, 0)
           query == Find(raw, <<"?">>, 0)
           from == slashes + 2
           path == IF slashes = NPos THEN Find(raw, <<"/">>, 0)
                   ELSE Find(raw, <<"/">>, from)
           scheme_end == Find(raw, <<":", "/", "/">>, 0)
<1>1. Len(raw) \in Nat /\ NPos = -1
  BY LenProperties DEF Texts, NPos
<1>2. slashes = NPos \/ slashes \in 0 .. Len(raw) - 2
  BY FindPair DEF Texts
<1>3. query = NPos \/ (query \in 0 .. Len(raw) - 1 /\ raw[query + 1] = "?")
  BY FindToken DEF Texts
<1>4. scheme_end = NPos \/ scheme_end \in 0 .. Len(raw)
  <2>1. Len(<<":", "/", "/">>) = 3
    OBVIOUS
  <2>2. QED
    BY <1>1, <2>1, FindProperties DEF Texts
<1> HIDE DEF slashes, query, scheme_end
<1>5. path = NPos \/ (path \in 0 .. Len(raw) - 1 /\ raw[path + 1] = "/")
  <2>1. CASE slashes = NPos
    BY <2>1, FindToken DEF Texts
  <2>2. CASE slashes # NPos
    <3>1. from \in Nat
      BY <1>2, <2>2
    <3> HIDE DEF from
    <3>2. \/ Find(raw, <<"/">>, from) = NPos
          \/ /\ Find(raw, <<"/">>, from) \in from .. Len(raw) - 1
             /\ raw[Find(raw, <<"/">>, from) + 1] = "/"
      BY <3>1, FindToken DEF Texts
    <3>3. QED
      BY <1>1, <2>2, <3>1, <3>2
  <2>3. QED
    BY <2>1, <2>2
<1> HIDE DEF path
<1>6. Max({slashes, 0}) = IF slashes = NPos THEN 0 ELSE slashes
  BY <1>1, <1>2, MaxOfTwo
<1>7. Cuts(raw) = [scheme_end |-> scheme_end,
                   auth_start |-> Max({slashes, 0}),
                   auth_end   |-> IF path # NPos THEN path
                                  ELSE IF query # NPos THEN query ELSE Len(raw),
                   path_start |-> path,
                   path_end   |-> IF query # NPos THEN query ELSE Len(raw),
                   query      |-> query]
  BY DEF Cuts, slashes, query, path, scheme_end
<1>8. QED
  BY <1>1, <1>2, <1>3, <1>4, <1>5, <1>6, <1>7 DEF slashes

-----------------------------------------------------------------------------
(* The character classes of the parser are those of the grammar.            *)
LEMMA RegularIsRegular == \A c \in Tokens : IsRegular(c) <=> c \in RegularChars
BY DEF IsRegular, Tokens, RegularChars, Digits, GenDelimiters, Forbidden

(* The same of the characters of a path.                                    *)
LEMMA PcharIsPchar == \A c \in Tokens : IsPchar(c) <=> c \in Pchars
BY RegularIsRegular DEF IsPchar, Pchars

(* ParsePath stores a path, or it stores nothing and reports an error.      *)
LEMMA PathStored ==
  ASSUME NEW u \in Uris, NEW t \in Texts, t = <<>> \/ t[1] = "/"
  PROVE  LET v == ParsePath(u, t)
         IN /\ v \in Uris /\ SameHost(u, v)
            /\ v.threw = u.threw /\ (u.has_err => v.has_err)
            /\ \/ v.has_err /\ v.path = u.path
               \/ v.path = t /\ (t = <<>> \/ IsPath(t))
<1> DEFINE IsPathChar(c) == IsPchar(c) \/ c = "/"
           ok == ParsePattern(t, IsPathChar) /\ Find(t, <<"/", "/">>, 0) = NPos
<1>1. /\ Len(t) \in Nat /\ DOMAIN t = 1 .. Len(t)
      /\ \A i \in 1 .. Len(t) : t[i] \in Tokens
  BY LenProperties, ElementOfSeq DEF Texts
<1>2. ParsePath(u, t) = IF ok THEN [u EXCEPT !.path = t] ELSE [u EXCEPT !.has_err = TRUE]
  BY DEF ParsePath
<1>3. ok => t = <<>> \/ IsPath(t)
  <2> SUFFICES ASSUME ok, t # <<>> PROVE IsPath(t)
    OBVIOUS
  <2>1. All(t, Pchars \cup {"/"})
    BY <1>1, PcharIsPchar DEF All, ParsePattern
  <2>2. \A i \in 1 .. Len(t) - 1 : ~(t[i] = "/" /\ t[i + 1] = "/")
    BY FindPair DEF Texts, NPos
  <2>3. ASSUME NEW i \in 2 .. Len(t) PROVE ~(t[i - 1] = "/" /\ t[i] = "/")
    <3>1. i - 1 \in 1 .. Len(t) - 1 /\ (i - 1) + 1 = i
      BY <1>1
    <3>2. QED
      BY <2>2, <3>1
  <2>4. QED
    BY <2>1, <2>3 DEF IsPath
<1> HIDE DEF ok
<1>4. CASE ok
  BY <1>2, <1>3, <1>4 DEF Uris, SameHost
<1>5. CASE ~ok
  BY <1>2, <1>5 DEF Uris, SameHost
<1>6. QED
  BY <1>4, <1>5

(* Each part, where it stands in the text.                                  *)
LEMMA SchemePart ==
  ASSUME NEW u \in Uris, NEW raw \in Texts, NEW flags
  PROVE  LET v == Part(raw, flags, "scheme", u)
         IN v \in Uris /\ v.path = u.path /\ v.threw = u.threw /\ SameHost(u, v)
<1> DEFINE end == Cuts(raw).scheme_end
           t == Between(raw, 0, end)
<1>1. end # NPos => t \in Texts
  <2>1. Len(raw) \in Nat /\ (end = NPos \/ end \in 0 .. Len(raw)) /\ 0 \in Nat
    BY CutsProperties, LenProperties DEF Texts
  <2> HIDE DEF end
  <2>2. end # NPos => end \in Int /\ end <= Len(raw)
    BY <2>1
  <2>3. QED
    BY <2>1, <2>2, BetweenProperties DEF Texts
<1>2. ParsePart(u, "scheme", raw, Cuts(raw))
        = IF end = NPos THEN [u EXCEPT !.scheme = <<>>] ELSE ParseScheme(u, t)
  BY DEF ParsePart
<1> HIDE DEF end, t
<1>3. <<>> \in Texts
  BY EmptySeq DEF Texts
<1>4. CASE end = NPos
  <2> DEFINE w == [u EXCEPT !.scheme = <<>>]
  <2>1. w \in Uris /\ w.path = u.path /\ w.threw = u.threw /\ SameHost(u, w)
    BY <1>3 DEF Uris, SameHost
  <2> HIDE DEF w
  <2>2. QED
    BY <1>2, <1>4, <2>1 DEF Part, SameHost, w
<1>5. CASE end # NPos
  BY <1>1, <1>2, <1>5, SchemeKeeps DEF Part, SameHost
<1>6. QED
  BY <1>4, <1>5

(* The authority leaves the path, and finds name and port in its own text.  *)
LEMMA AuthorityPart ==
  ASSUME NEW u \in Uris, NEW raw \in Texts, NEW flags
  PROVE  LET v == Part(raw, flags, "authority", u)
             auth == Between(raw, Cuts(raw).auth_start, Cuts(raw).auth_end)
         IN /\ v \in Uris /\ v.path = u.path
            /\ \/ v.reg_name = u.reg_name \/ v.port = NoPort
               \/ v.has_err \/ v.threw
               \/ ~NumbersApart(auth)
               \/ /\ Cuts(raw).auth_start <= Cuts(raw).auth_end
                  /\ \E start, end \in 0 .. Len(auth) : Named(v, auth, start, end)
<1> DEFINE from == Cuts(raw).auth_start
           to == Cuts(raw).auth_end
           auth == Between(raw, from, to)
           v == ParseAuthority(u, auth)
<1>1. Len(raw) \in Nat /\ from \in 0 .. Len(raw) /\ to \in 0 .. Len(raw)
  BY CutsProperties, LenProperties DEF Texts
<1>2. ParsePart(u, "authority", raw, Cuts(raw))
        = IF from > to THEN [u EXCEPT !.threw = TRUE] ELSE v
  <2>1. ParsePart(u, "authority", raw, Cuts(raw))
          = IF from > to THEN [u EXCEPT !.threw = TRUE]
            ELSE Only({ParseAuthority(u, a) : a \in {auth}})
    BY DEF ParsePart
  <2>2. {ParseAuthority(u, a) : a \in {auth}} = {v}
    OBVIOUS
  <2>3. Only({v}) = v
    BY DEF Only
  <2>4. QED
    BY <2>1, <2>2, <2>3
<1> HIDE DEF from, to
<1>3. auth \in Texts
  <2>1. from \in Nat /\ to \in Int /\ to <= Len(raw)
    BY <1>1
  <2>2. QED
    BY <2>1, BetweenProperties DEF Texts
<1>4. /\ v \in Uris /\ v.path = u.path
      /\ \/ v.reg_name = u.reg_name \/ v.port = NoPort
         \/ v.has_err \/ v.threw
         \/ ~NumbersApart(auth)
         \/ \E start, end \in 0 .. Len(auth) : Named(v, auth, start, end)
  BY <1>3, AuthorityKeeps
<1> HIDE DEF auth, v
<1>5. CASE "authority" \notin flags \/ u.threw
  BY <1>5 DEF Part
<1>6. CASE ~("authority" \notin flags \/ u.threw) /\ from > to
  <2>1. Part(raw, flags, "authority", u) = [u EXCEPT !.threw = TRUE]
    BY <1>2, <1>6 DEF Part
  <2>2. QED
    BY <2>1 DEF Uris
<1>7. CASE ~("authority" \notin flags \/ u.threw) /\ ~(from > to)
  <2>1. Part(raw, flags, "authority", u) = v
    BY <1>2, <1>7 DEF Part
  <2>2. from <= to
    BY <1>1, <1>7
  <2>3. QED
    BY <1>4, <2>1, <2>2 DEF from, to, auth
<1>8. QED
  BY <1>5, <1>6, <1>7

(* The path leaves the host, and is stored only when it is a path.          *)
LEMMA PathPart ==
  ASSUME NEW u \in Uris, NEW raw \in Texts, NEW flags
  PROVE  LET v == Part(raw, flags, "path", u)
         IN /\ v \in Uris /\ SameHost(u, v)
            /\ v.path = u.path \/ v.path = <<>> \/ IsPath(v.path)
            /\ u.has_err \/ u.threw => v.has_err \/ v.threw
<1> DEFINE from == Cuts(raw).path_start
           to == Cuts(raw).path_end
           t == Between(raw, from, to)
<1>1. /\ Len(raw) \in Nat /\ NPos = -1
      /\ from = NPos \/ (from \in 0 .. Len(raw) - 1 /\ raw[from + 1] = "/")
      /\ to \in 0 .. Len(raw)
  BY CutsProperties, LenProperties DEF Texts, NPos
<1>2. ParsePart(u, "path", raw, Cuts(raw))
        = IF from = NPos THEN u
          ELSE IF from > to THEN [u EXCEPT !.has_err = TRUE] ELSE ParsePath(u, t)
  BY DEF ParsePart
<1> HIDE DEF from, to
<1>3. from # NPos /\ ~(from > to) => t \in Texts /\ (t = <<>> \/ t[1] = "/")
  <2> SUFFICES ASSUME from # NPos, ~(from > to)
               PROVE  t \in Texts /\ (t = <<>> \/ t[1] = "/")
    OBVIOUS
  <2>1. from \in Nat /\ to \in Int /\ to <= Len(raw) /\ from <= to
    BY <1>1
  <2>2. /\ t \in Texts /\ Len(t) = to - from
        /\ \A i \in 1 .. to - from : t[i] = raw[from + i]
    BY <2>1, BetweenProperties DEF Texts
  <2> HIDE DEF t
  <2>3. CASE from = to
    BY <2>1, <2>2, <2>3, EmptySeq DEF Texts
  <2>4. CASE from < to
    <3>1. 1 \in 1 .. to - from
      BY <2>1, <2>4
    <3>2. QED
      BY <1>1, <2>2, <3>1
  <2>5. QED
    BY <2>1, <2>3, <2>4
<1> HIDE DEF t
<1>4. \/ Part(raw, flags, "path", u) = u
      \/ Part(raw, flags, "path", u) = [u EXCEPT !.has_err = TRUE]
      \/ /\ t \in Texts /\ (t = <<>> \/ t[1] = "/")
         /\ Part(raw, flags, "path", u) = ParsePath(u, t)
  BY <1>2, <1>3 DEF Part
<1>5. CASE Part(raw, flags, "path", u) = u
  BY <1>5 DEF SameHost
<1>6. CASE Part(raw, flags, "path", u) = [u EXCEPT !.has_err = TRUE]
  BY <1>6 DEF SameHost, Uris
<1>7. CASE /\ t \in Texts /\ (t = <<>> \/ t[1] = "/")
           /\ Part(raw, flags, "path", u) = ParsePath(u, t)
  BY <1>7, PathStored
<1>8. QED
  BY <1>4, <1>5, <1>6, <1>7

(* The query leaves the rest.                                               *)
LEMMA QueryPart ==
  ASSUME NEW u \in Uris, NEW raw \in Texts, NEW flags
  PROVE  LET v == Part(raw, flags, "query", u)
         IN /\ v \in Uris /\ v.path = u.path /\ SameHost(u, v)
            /\ v = u \/ ("query" \in flags /\ Cuts(raw).query # NPos)
<1> DEFINE at == Cuts(raw).query
           t == After(raw, at)
<1>1. at # NPos => t \in Texts
  <2>1. at # NPos => at \in Nat
    BY CutsProperties, LenProperties DEF Texts
  <2> HIDE DEF at
  <2>2. QED
    BY <2>1, AfterProperties DEF Texts
<1>2. ParsePart(u, "query", raw, Cuts(raw)) = IF at = NPos THEN u ELSE ParseQuery(u, t)
  BY DEF ParsePart
<1> HIDE DEF at, t
<1>3. QED
  BY <1>1, <1>2, QueryKeeps DEF Part, SameHost, at

(* Whatever the later parts make the parser forget, a stored path is one.   *)
THEOREM PathIsSound == Spec => []PathSound
<1>1. UriInv => PathSound
  <2> SUFFICES ASSUME UriInv PROVE PathSound
    OBVIOUS
  <2> DEFINE a == Part(text, use.flags, "scheme", NewUri)
             b == Part(text, use.flags, "authority", a)
             c == Part(text, use.flags, "path", b)
             d == Part(text, use.flags, "query", c)
  <2>1. text \in Texts /\ NewUri \in Uris /\ NewUri.path = <<>>
    BY WhatIsParsed, NewUriTyped DEF Texts, NewUri
  <2>2. a \in Uris /\ a.path = <<>>
    BY <2>1, SchemePart
  <2> HIDE DEF a
  <2>3. b \in Uris /\ b.path = <<>>
    BY <2>1, <2>2, AuthorityPart
  <2> HIDE DEF b
  <2>4. c \in Uris /\ (c.path = <<>> \/ IsPath(c.path))
    BY <2>1, <2>3, PathPart
  <2> HIDE DEF c
  <2>5. d.path = c.path
    BY <2>1, <2>4, QueryPart
  <2>6. parsed => uri = d
    BY WhatIsParsed, PartsInOrder DEF a, b, c, d
  <2>7. ~parsed => uri.path = <<>>
    BY <2>1, WhatIsParsed
  <2>8. QED
    BY <2>4, <2>5, <2>6, <2>7 DEF PathSound
<1>2. QED
  BY <1>1, UriInductive, PTL

-----------------------------------------------------------------------------
(* part is what raw has from one place to another.                          *)
IsPiece(part, raw, from, to) ==
  /\ Len(part) = to - from
  /\ \A i \in 1 .. to - from : part[i] = raw[from + i]

(* What is cut from a text is a piece of it.                                *)
LEMMA BetweenIsPiece ==
  ASSUME NEW raw \in Texts, NEW from \in Nat, NEW to \in Nat,
         from <= to, to <= Len(raw)
  PROVE  Between(raw, from, to) \in Texts /\ IsPiece(Between(raw, from, to), raw, from, to)
<1>1. to \in Int
  OBVIOUS
<1>2. QED
  BY <1>1, BetweenProperties DEF Texts, IsPiece

(* A host name and a port that stand next to each other in the authority do *)
(* so in the text.                                                          *)
LEMMA NamedInText ==
  ASSUME NEW raw \in Texts, NEW v, IsRegName(v.reg_name),
         NEW from \in 0 .. Len(raw), NEW to \in 0 .. Len(raw), from <= to,
         from = 0 \/ raw[from + 1] = "/",
         to < Len(raw) => raw[to + 1] \in {"/", "?"},
         NEW auth \in Texts, IsPiece(auth, raw, from, to),
         NEW start \in 0 .. Len(auth), NEW end \in 0 .. Len(auth),
         Named(v, auth, start, end)
  PROVE  \E m \in 0 .. Len(raw) :
           /\ m = 0 \/ raw[m] = "@"
           /\ \E digits \in Digits :
                /\ Numbers[digits] = v.port
                /\ LET named == v.reg_name \o <<":", digits>>
                       rest  == After(raw, m + Len(named))
                   IN /\ Substr(raw, m, Len(named)) = named
                      /\ rest = <<>> \/ rest[1] \in {"/", "?"}
<1> DEFINE m == from + start
           name == v.reg_name
           digits == auth[end + 2]
           named == name \o <<":", digits>>
           rest == After(raw, to)
           n == end - start
<1>1. Len(raw) \in Nat /\ to <= Len(raw)
  BY LenProperties DEF Texts
<1> HIDE DEF m, name, digits, named, rest, n
<1>3. /\ auth \in Texts /\ Len(auth) = to - from
      /\ \A i \in 1 .. to - from : auth[i] = raw[from + i]
  BY DEF IsPiece
<1>4. /\ start < end /\ end + 2 = to - from
      /\ start = 0 \/ auth[start] = "@"
      /\ name = Between(auth, start, end)
      /\ auth[end + 1] = ":"
      /\ digits \in DOMAIN Numbers /\ Numbers[digits] = v.port
  BY <1>3 DEF Named, name, digits
<1>5. /\ start \in Nat /\ end \in Nat /\ n \in Nat /\ n > 0
      /\ m \in 0 .. Len(raw) /\ m + n + 2 = to
  <2>1. /\ start \in Nat /\ end \in Nat /\ from \in Nat /\ to \in Nat
        /\ start < end /\ end + 2 = to - from
    BY <1>1, <1>3, <1>4
  <2>2. n \in Nat /\ n > 0 /\ m \in Nat /\ m + n + 2 = to
    BY <2>1 DEF m, n
  <2>3. QED
    BY <1>1, <2>1, <2>2
<1>6. /\ name \in Texts /\ Len(name) = n
      /\ \A i \in 1 .. n : name[i] = auth[start + i]
  <2>1. auth \in Texts /\ start \in Nat /\ end \in Nat /\ start <= end /\ end <= Len(auth)
    BY <1>3, <1>4, <1>5
  <2>2. name \in Texts /\ IsPiece(name, auth, start, end)
    BY <1>4, <2>1, BetweenIsPiece
  <2>3. QED
    BY <2>2 DEF n, IsPiece
<1>7. \A i \in 1 .. n : name[i] = raw[m + i]
  <2> SUFFICES ASSUME NEW i \in 1 .. n PROVE name[i] = raw[m + i]
    OBVIOUS
  <2>1. start + i \in 1 .. to - from /\ from + (start + i) = m + i
    BY <1>1, <1>4, <1>5 DEF m, n
  <2>2. QED
    BY <1>3, <1>6, <2>1
<1>8. /\ raw[m + n + 1] = ":"
      /\ raw[m + n + 2] = digits
  <2>1. /\ end + 1 \in 1 .. to - from /\ from + (end + 1) = m + n + 1
        /\ end + 2 \in 1 .. to - from /\ from + (end + 2) = m + n + 2
    <3>1. m = from + start /\ n = end - start /\ end + 2 = to - from
      BY <1>4 DEF m, n
    <3>2. QED
      BY <1>1, <1>5, <3>1
  <2>2. QED
    BY <1>3, <1>4, <2>1 DEF digits
<1>9. m = 0 \/ raw[m] = "@"
  <2>1. CASE start > 0
    <3>1. start \in 1 .. to - from
      BY <1>3, <2>1
    <3>2. auth[start] = "@" /\ auth[start] = raw[from + start]
      BY <1>3, <1>4, <2>1, <3>1
    <3>3. QED
      BY <3>2 DEF m
  <2>2. CASE start = 0
    <3>1. m = from
      BY <1>1, <2>2 DEF m
    <3>2. 1 \in 1 .. n
      BY <1>5
    <3>3. DOMAIN name = 1 .. n
      BY <1>6, LenProperties DEF Texts
    <3>4. name[1] # "/"
      BY <3>2, <3>3 DEF IsRegName, All, RegularChars, Digits, name
    <3>5. QED
      BY <1>7, <3>1, <3>2, <3>4
  <2>3. QED
    BY <1>5, <2>1, <2>2
<1>10. digits \in Digits
  BY <1>4 DEF Numbers, Digits
<1>11. /\ named \in Texts /\ Len(named) = n + 2
       /\ \A i \in 1 .. n : named[i] = name[i]
       /\ named[n + 1] = ":" /\ named[n + 2] = digits
  <2> DEFINE tail == <<":", digits>>
  <2>1. /\ tail \in Texts /\ Len(tail) = 2
        /\ tail[1] = ":" /\ tail[2] = digits
    <3>1. ":" \in Tokens /\ digits \in Tokens
      BY <1>10 DEF Tokens, GenDelimiters, RegularChars
    <3>2. QED
      BY <3>1 DEF Texts
  <2> HIDE DEF tail
  <2> DEFINE both == name \o tail
  <2>2. /\ both \in Texts /\ Len(both) = n + 2
        /\ \A i \in 1 .. n + 2 : both[i] = IF i <= n THEN name[i] ELSE tail[i - n]
    <3>1. name \in Seq(Tokens) /\ Len(name) = n /\ tail \in Seq(Tokens)
      BY <1>6, <2>1 DEF Texts
    <3>2. /\ both \in Seq(Tokens) /\ Len(both) = Len(name) + Len(tail)
          /\ \A i \in 1 .. Len(name) + Len(tail) :
               both[i] = IF i <= Len(name) THEN name[i] ELSE tail[i - Len(name)]
      BY <3>1, ConcatProperties, Zenon
    <3>3. QED
      BY <2>1, <3>1, <3>2 DEF Texts
  <2> HIDE DEF both
  <2>3. /\ both[n + 1] = tail[1] /\ both[n + 2] = tail[2]
        /\ \A i \in 1 .. n : both[i] = name[i]
    <3>1. /\ n + 1 \in 1 .. n + 2 /\ ~(n + 1 <= n) /\ (n + 1) - n = 1
          /\ n + 2 \in 1 .. n + 2 /\ ~(n + 2 <= n) /\ (n + 2) - n = 2
          /\ \A i \in 1 .. n : i \in 1 .. n + 2 /\ i <= n
      BY <1>5
    <3>2. QED
      BY <2>2, <3>1
  <2>4. QED
    BY <2>1, <2>2, <2>3 DEF both, tail, named
<1>12. Substr(raw, m, Len(named)) = Between(raw, m, to)
  <2>1. m + (n + 2) = to /\ to \in Int /\ to <= Len(raw)
    BY <1>1, <1>5
  <2>2. Min({to, Len(raw)}) = to
    BY <1>1, <2>1, MinOfTwo
  <2>3. QED
    BY <1>11, <2>1, <2>2 DEF Substr, Between
<1>13. Between(raw, m, to) = named
  <2> DEFINE found == Between(raw, m, to)
  <2>1. m \in Nat /\ to \in Int /\ to <= Len(raw) /\ m <= to /\ to - m = n + 2
    BY <1>1, <1>5
  <2>2. /\ found \in Texts /\ Len(found) = n + 2
        /\ \A i \in 1 .. n + 2 : found[i] = raw[m + i]
    <3>1. raw \in Seq(Tokens)
      BY DEF Texts
    <3>2. /\ found \in Seq(Tokens)
          /\ Len(found) = IF m <= to THEN to - m ELSE 0
          /\ \A i \in 1 .. to - m : found[i] = raw[m + i]
      BY <2>1, <3>1, BetweenProperties, Zenon
    <3>3. QED
      BY <2>1, <3>2 DEF Texts
  <2> HIDE DEF found
  <2>3. \A i \in 1 .. n + 2 : found[i] = named[i]
    <3> SUFFICES ASSUME NEW i \in 1 .. n + 2 PROVE found[i] = named[i]
      OBVIOUS
    <3>1. i \in 1 .. n \/ i = n + 1 \/ i = n + 2
      BY <1>5
    <3>2. m + (n + 1) = m + n + 1 /\ m + (n + 2) = m + n + 2
      BY <1>5, <2>1
    <3>3. QED
      BY <1>7, <1>8, <1>11, <2>2, <3>1, <3>2
  <2>4. found = named
    BY <1>11, <2>2, <2>3, SeqEqual DEF Texts
  <2>5. QED
    BY <2>4 DEF found
<1>14. rest = <<>> \/ rest[1] \in {"/", "?"}
  <2>1. /\ rest \in Texts /\ Len(rest) = Len(raw) - to
        /\ \A i \in 1 .. Len(raw) - to : rest[i] = raw[to + i]
    BY <1>1, AfterProperties DEF Texts, rest
  <2>2. CASE to = Len(raw)
    BY <1>1, <2>1, <2>2, EmptySeq DEF Texts
  <2>3. CASE to < Len(raw)
    <3>1. 1 \in 1 .. Len(raw) - to
      BY <1>1, <2>3
    <3>2. QED
      BY <1>1, <2>1, <2>3, <3>1
  <2>4. QED
    BY <1>1, <2>2, <2>3
<1>15. m + Len(named) = to
  BY <1>1, <1>5, <1>11
<1>16. QED
  <2>1. /\ m = 0 \/ raw[m] = "@"
        /\ digits \in Digits /\ Numbers[digits] = v.port
        /\ Substr(raw, m, Len(named)) = named
        /\ After(raw, m + Len(named)) = <<>> \/ After(raw, m + Len(named))[1] \in {"/", "?"}
    BY <1>4, <1>9, <1>10, <1>12, <1>13, <1>14, <1>15 DEF rest
  <2>2. QED
    BY <1>5, <2>1, Zenon DEF named, name

(* When the parser forgets no error, a request that passes the test of its  *)
(* authority names the host it was sent to.  It forgets one where a query   *)
(* is parsed after an authority: those texts are left out.                  *)
THEOREM HostIsNamed ==
  ASSUME \A u \in Uses : {"authority", "query"} \subseteq u.flags => "?" \notin u.alphabet
  PROVE  Spec => []HostNamed
<1>1. UriInv => HostNamed
  <2> SUFFICES ASSUME UriInv, Accepted, IsRegName(uri.reg_name), uri.port # NoPort
               PROVE  HostNamed
    BY DEF HostNamed
  <2> DEFINE a == Part(text, use.flags, "scheme", NewUri)
             b == Part(text, use.flags, "authority", a)
             c == Part(text, use.flags, "path", b)
             d == Part(text, use.flags, "query", c)
             from == Cuts(text).auth_start
             to == Cuts(text).auth_end
             auth == Between(text, from, to)
  <2>1. /\ text \in Texts /\ NumbersApart(text)
        /\ NewUri \in Uris /\ NewUri.reg_name = <<>>
        /\ use \in Uses /\ text \in Seq(use.alphabet)
    BY WhatIsParsed, NewUriTyped DEF Texts, NewUri, UriInv
  <2>2. a \in Uris /\ a.reg_name = <<>>
    BY <2>1, SchemePart DEF SameHost
  <2>3. /\ b \in Uris
        /\ \/ b.reg_name = a.reg_name \/ b.port = NoPort
           \/ b.has_err \/ b.threw
           \/ ~NumbersApart(auth)
           \/ from <= to /\ \E start, end \in 0 .. Len(auth) : Named(b, auth, start, end)
    <3> HIDE DEF a
    <3>1. QED
      BY <2>1, <2>2, AuthorityPart
  <2>4. "authority" \notin use.flags => b = a
    BY DEF Part
  <2> HIDE DEF a, b
  <2>5. /\ c \in Uris /\ SameHost(b, c)
        /\ b.has_err \/ b.threw => c.has_err \/ c.threw
    BY <2>1, <2>3, PathPart
  <2> HIDE DEF c
  <2>6. /\ SameHost(c, d)
        /\ d = c \/ ("query" \in use.flags /\ Cuts(text).query # NPos)
    BY <2>1, <2>5, QueryPart
  <2> HIDE DEF d
  <2>7. uri = d
    BY WhatIsParsed, PartsInOrder DEF Accepted, a, b, c, d
  <2>8. SameHost(b, d) /\ IsRegName(d.reg_name) /\ d.port # NoPort /\ ~d.has_err /\ ~d.threw
    BY <2>5, <2>6, <2>7 DEF SameHost, Accepted
  <2>9. "authority" \in use.flags /\ b.reg_name # <<>> /\ b.port # NoPort
    BY <2>2, <2>4, <2>8 DEF SameHost, IsRegName
  <2>10. d = c
    <3> SUFFICES ASSUME "query" \in use.flags, Cuts(text).query # NPos PROVE FALSE
      BY <2>6
    <3>1. "?" \notin use.alphabet
      BY <2>1, <2>9
    <3>2. \E i \in 1 .. Len(text) : text[i] = "?"
      <4> DEFINE at == Cuts(text).query
      <4>1. Len(text) \in Nat /\ at \in 0 .. Len(text) - 1 /\ text[at + 1] = "?"
        BY <2>1, CutsProperties, LenProperties DEF Texts
      <4> HIDE DEF at
      <4>2. at + 1 \in 1 .. Len(text)
        BY <4>1
      <4>3. QED
        BY <4>1, <4>2
    <3>3. QED
      BY <2>1, <3>1, <3>2, ElementOfSeq
  <2>11. ~b.has_err /\ ~b.threw
    BY <2>5, <2>8, <2>10
  <2>12. /\ Len(text) \in Nat
         /\ from \in 0 .. Len(text) /\ to \in 0 .. Len(text)
         /\ from = 0 \/ text[from + 1] = "/"
         /\ to < Len(text) => text[to + 1] \in {"/", "?"}
    <3>1. \/ Find(text, <<"/", "/">>, 0) = NPos
          \/ text[Find(text, <<"/", "/">>, 0) + 1] = "/"
      BY <2>1, FindPair DEF Texts
    <3>2. QED
      BY <2>1, <3>1, CutsProperties, LenProperties DEF Texts
  <2> HIDE DEF from, to
  <2>13. from <= to => auth \in Texts /\ IsPiece(auth, text, from, to)
    <3>1. from \in Nat /\ to \in Nat /\ to <= Len(text)
      BY <2>12
    <3>2. QED
      BY <2>1, <3>1, BetweenIsPiece
  <2>14. NumbersApart(auth)
    <3>1. CASE from <= to
      <4> SUFFICES ASSUME NEW i \in 1 .. Len(auth) - 1
                   PROVE  ~(IsDigits(auth[i]) /\ IsDigits(auth[i + 1]))
        BY DEF NumbersApart
      <4>1. /\ from + i \in 1 .. Len(text) - 1
            /\ auth[i] = text[from + i] /\ auth[i + 1] = text[from + i + 1]
        <5> HIDE DEF auth
        <5>1. QED
          BY <2>12, <2>13, <3>1 DEF IsPiece
      <4>2. QED
        BY <2>1, <4>1 DEF NumbersApart
    <3>2. CASE ~(from <= to)
      <4>1. from \in Nat /\ to \in Int /\ to <= Len(text)
        BY <2>12
      <4>2. Len(auth) = 0
        BY <2>1, <3>2, <4>1, BetweenProperties DEF Texts
      <4> HIDE DEF auth
      <4>3. QED
        BY <4>2 DEF NumbersApart
    <3>3. QED
      BY <3>1, <3>2
  <2> HIDE DEF auth
  <2>15. PICK start, end \in 0 .. Len(auth) : from <= to /\ Named(b, auth, start, end)
    BY <2>2, <2>3, <2>9, <2>11, <2>14
  <2>16. IsRegName(b.reg_name)
    BY <2>8 DEF SameHost
  <2>17. \E m \in 0 .. Len(text) :
           /\ m = 0 \/ text[m] = "@"
           /\ \E digits \in Digits :
                /\ Numbers[digits] = b.port
                /\ LET named == b.reg_name \o <<":", digits>>
                       rest  == After(text, m + Len(named))
                   IN /\ Substr(text, m, Len(named)) = named
                      /\ rest = <<>> \/ rest[1] \in {"/", "?"}
    BY <2>1, <2>12, <2>13, <2>15, <2>16, NamedInText
  <2>18. uri.reg_name = b.reg_name /\ uri.port = b.port
    BY <2>7, <2>8 DEF SameHost
  <2>19. QED
    BY <2>17, <2>18 DEF HostNamed
<1>2. QED
  BY <1>1, UriInductive, PTL

-----------------------------------------------------------------------------
(* Where the parts of a path and a query are.                               *)
LEMMA TargetCuts ==
  ASSUME NEW raw \in Texts, SlashesApart(raw), NEW n \in 1 .. Len(raw),
         IsPath(Between(raw, 0, n)), IsQuery(After(raw, n))
  PROVE  LET at == Cuts(raw)
         IN /\ at.path_start = 0 /\ at.path_end = n
            /\ at.query = IF n = Len(raw) THEN NPos ELSE n
<1> DEFINE path == Between(raw, 0, n)
           query == After(raw, n)
           slashes == Find(raw, <<"/", "/">>, 0)
           first == Find(raw, <<"/">>, 0)
           mark == Find(raw, <<"?">>, 0)
<1>1. Len(raw) \in Nat /\ n \in Nat /\ 0 < n /\ n <= Len(raw) /\ NPos = -1
  BY LenProperties DEF Texts, NPos
<1>2. /\ path \in Texts /\ Len(path) = n
      /\ \A i \in 1 .. n : path[i] = raw[i]
  <2>1. 0 \in Nat /\ n - 0 = n /\ \A i \in 1 .. n : 0 + i = i
    BY <1>1
  <2>2. path \in Texts /\ IsPiece(path, raw, 0, n)
    BY <1>1, <2>1, BetweenIsPiece
  <2>3. QED
    BY <2>1, <2>2 DEF IsPiece
<1>3. /\ Len(query) = Len(raw) - n
      /\ \A i \in 1 .. Len(raw) - n : query[i] = raw[n + i]
  BY <1>1, AfterProperties DEF Texts
<1>4. /\ raw[1] = "/"
      /\ \A i \in 1 .. n : raw[i] # "?"
      /\ \A i \in 2 .. n : ~(raw[i - 1] = "/" /\ raw[i] = "/")
  <2>1. /\ path[1] = "/"
        /\ \A i \in 1 .. n : path[i] \in Pchars \cup {"/"}
        /\ \A i \in 2 .. n : ~(path[i - 1] = "/" /\ path[i] = "/")
    BY <1>2, LenProperties DEF IsPath, All, Texts
  <2>2. "?" \notin Pchars \cup {"/"}
    BY DEF Pchars, RegularChars, Digits
  <2> HIDE DEF path
  <2>3. /\ 1 \in 1 .. n
        /\ \A i \in 2 .. n : i \in 1 .. n /\ i - 1 \in 1 .. n
    BY <1>1
  <2>4. QED
    BY <1>2, <2>1, <2>2, <2>3
<1>5. n < Len(raw) => raw[n + 1] = "?"
  <2> SUFFICES ASSUME n < Len(raw) PROVE raw[n + 1] = "?"
    OBVIOUS
  <2>1. query # <<>> /\ 1 \in 1 .. Len(raw) - n
    BY <1>1, <1>3
  <2>2. QED
    BY <1>3, <2>1 DEF IsQuery
<1> HIDE DEF path, query
<1>6. slashes = NPos
  <2> SUFFICES ASSUME slashes # NPos PROVE FALSE
    OBVIOUS
  <2>1. slashes \in 0 .. Len(raw) - 2 /\ raw[slashes + 1] = "/" /\ raw[slashes + 2] = "/"
    BY FindPair DEF Texts
  <2> HIDE DEF slashes
  <2>2. CASE slashes + 2 <= n
    <3>1. slashes + 2 \in 2 .. n /\ (slashes + 2) - 1 = slashes + 1
      BY <2>1, <2>2
    <3>2. QED
      BY <1>4, <2>1, <3>1
  <2>3. CASE slashes + 2 = n + 1
    BY <1>1, <1>5, <2>1, <2>3
  <2>4. CASE slashes + 1 = n + 1
    BY <1>1, <1>5, <2>1, <2>4
  <2>5. CASE n + 1 < slashes + 1
    <3>1. /\ n + 1 \in 1 .. Len(raw) - 1 /\ slashes + 1 \in 1 .. Len(raw) - 1
          /\ (slashes + 1) + 1 = slashes + 2
      BY <1>1, <2>1, <2>5
    <3>2. raw[n + 1] = "?"
      BY <1>1, <1>5, <2>1, <2>5
    <3>3. QED
      BY <2>1, <2>5, <3>1, <3>2 DEF SlashesApart
  <2>6. QED
    BY <1>1, <2>1, <2>2, <2>3, <2>4, <2>5
<1>7. first = 0
  <2>1. \/ first = NPos /\ \A i \in 0 + 1 .. Len(raw) : raw[i] # "/"
        \/ first \in 0 .. Len(raw) - 1 /\ \A i \in 0 + 1 .. first : raw[i] # "/"
    BY FindToken DEF Texts
  <2> HIDE DEF first
  <2>2. QED
    BY <1>1, <1>4, <2>1
<1>8. mark = IF n = Len(raw) THEN NPos ELSE n
  <2>1. \/ mark = NPos /\ \A i \in 0 + 1 .. Len(raw) : raw[i] # "?"
        \/ /\ mark \in 0 .. Len(raw) - 1 /\ raw[mark + 1] = "?"
           /\ \A i \in 0 + 1 .. mark : raw[i] # "?"
    BY FindToken DEF Texts
  <2> HIDE DEF mark
  <2>2. CASE n = Len(raw)
    BY <1>1, <1>4, <2>1, <2>2
  <2>3. CASE n < Len(raw)
    <3>1. n + 1 \in 0 + 1 .. Len(raw) /\ raw[n + 1] = "?"
      BY <1>1, <1>5, <2>3
    <3>2. mark # NPos /\ ~(n < mark)
      BY <1>1, <2>1, <3>1
    <3>3. ~(mark < n)
      BY <1>1, <1>4, <2>1, <3>2
    <3>4. QED
      BY <1>1, <2>1, <2>3, <3>2, <3>3
  <2>4. QED
    BY <1>1, <2>2, <2>3
<1> HIDE DEF slashes, first, mark
<1>9. /\ Cuts(raw).path_start = IF slashes = NPos THEN first ELSE Find(raw, <<"/">>, slashes + 2)
      /\ Cuts(raw).path_end = IF mark # NPos THEN mark ELSE Len(raw)
      /\ Cuts(raw).query = mark
  BY DEF Cuts, slashes, first, mark
<1>10. QED
  BY <1>1, <1>6, <1>7, <1>8, <1>9

(* The parts of a target are accepted.                                      *)
LEMMA PathAccepted ==
  ASSUME NEW u, NEW path \in Texts, IsPath(path)
  PROVE  ParsePath(u, path) = [u EXCEPT !.path = path]
<1> DEFINE IsPathChar(c) == IsPchar(c) \/ c = "/"
<1>1. /\ Len(path) \in Nat /\ DOMAIN path = 1 .. Len(path)
      /\ \A i \in 1 .. Len(path) : path[i] \in Tokens
  BY LenProperties, ElementOfSeq DEF Texts
<1>2. ParsePattern(path, IsPathChar)
  BY <1>1, PcharIsPchar DEF IsPath, All, ParsePattern
<1>3. Find(path, <<"/", "/">>, 0) = NPos
  <2> DEFINE at == Find(path, <<"/", "/">>, 0)
  <2> SUFFICES ASSUME at # NPos PROVE FALSE
    OBVIOUS
  <2>1. at \in 0 .. Len(path) - 2 /\ path[at + 1] = "/" /\ path[at + 2] = "/"
    BY FindPair DEF Texts
  <2> HIDE DEF at
  <2>2. at + 2 \in 2 .. Len(path) /\ (at + 2) - 1 = at + 1
    BY <1>1, <2>1
  <2>3. QED
    BY <2>1, <2>2 DEF IsPath
<1>4. QED
  BY <1>2, <1>3 DEF ParsePath

(* A query of the grammar is stored as it is.                               *)
LEMMA QueryAccepted ==
  ASSUME NEW u, NEW query \in Texts, query # <<>>, IsQuery(query)
  PROVE  ParseQuery(u, query) = [u EXCEPT !.has_err = FALSE, !.query = query]
<1> DEFINE IsQueryChar(c) == IsPchar(c) \/ c \in {"/", "?"}
<1>1. /\ DOMAIN query = 1 .. Len(query)
      /\ \A i \in 1 .. Len(query) : query[i] \in Tokens
  BY LenProperties, ElementOfSeq DEF Texts
<1>2. ParsePattern(query, IsQueryChar)
  BY <1>1, PcharIsPchar DEF IsQuery, All, ParsePattern
<1>3. ParseQuery(u, query)
        = [u EXCEPT !.has_err = ~ParsePattern(query, IsQueryChar), !.query = query]
  BY DEF ParseQuery
<1> HIDE DEF IsQueryChar
<1>4. QED
  BY <1>2, <1>3

(* However long, a target is cut where its path ends.  The texts in which   *)
(* two slashes stand in the query, where the code takes them for the        *)
(* beginning of an authority, are left out.                                 *)
THEOREM TargetIsFound ==
  ASSUME ~SlashesInQuery
  PROVE  Spec => []TargetFound
<1>1. UriInv => TargetFound
  <2> SUFFICES ASSUME UriInv, parsed, use.flags = {"path", "query"},
                      NEW n \in 1 .. Len(text),
                      IsPath(Between(text, 0, n)), IsQuery(After(text, n))
               PROVE  /\ Accepted
                      /\ uri.path = Between(text, 0, n)
                      /\ uri.query = After(text, n)
    BY DEF TargetFound
  <2> DEFINE flags == use.flags
             path == Between(text, 0, n)
             query == After(text, n)
             at == Cuts(text)
             c == [NewUri EXCEPT !.path = path]
             d == [c EXCEPT !.has_err = FALSE, !.query = query]
  <2>1. text \in Texts /\ SlashesApart(text) /\ uri = ParseUri(NewUri, text, flags)
    BY WhatIsParsed DEF Texts
  <2>2. /\ Len(text) \in Nat /\ n \in Nat /\ 0 < n /\ n <= Len(text) /\ NPos = -1
    BY <2>1, LenProperties DEF Texts, NPos
  <2>3. /\ at.path_start = 0 /\ at.path_end = n
        /\ at.query = IF n = Len(text) THEN NPos ELSE n
    BY <2>1, TargetCuts
  <2>4. path \in Texts
    BY <2>1, <2>2, BetweenIsPiece
  <2>5. query \in Texts /\ Len(query) = Len(text) - n
    BY <2>1, <2>2, AfterProperties DEF Texts
  <2> HIDE DEF at, path, query
  <2>6. c.threw = FALSE /\ c.has_err = FALSE /\ c.query = <<>> /\ c.path = path
    BY DEF NewUri
  <2>7. d.threw = FALSE /\ d.has_err = FALSE /\ d.query = query /\ d.path = path
    BY DEF NewUri
  <2> HIDE DEF c, d
  <2>8. NewUri.threw = FALSE
    BY DEF NewUri
  <2>9. Part(text, flags, "scheme", NewUri) = NewUri
    BY DEF Part
  <2>10. Part(text, flags, "authority", NewUri) = NewUri
    BY DEF Part
  <2>11. Part(text, flags, "path", NewUri) = c
    <3>1. ParsePart(NewUri, "path", text, at) = ParsePath(NewUri, path)
      BY <2>2, <2>3 DEF ParsePart, path
    <3>2. ParsePath(NewUri, path) = c
      BY <2>4, PathAccepted DEF c, path
    <3>3. QED
      BY <2>8, <3>1, <3>2 DEF Part, at
  <2>12. uri = Part(text, flags, "query", c)
    BY <2>1, <2>9, <2>10, <2>11, PartsInOrder
  <2>13. CASE n = Len(text)
    <3>1. ParsePart(c, "query", text, at) = c
      BY <2>3, <2>13 DEF ParsePart
    <3>2. uri = c
      BY <2>12, <3>1 DEF Part, at
    <3>3. query = <<>>
      BY <2>2, <2>5, <2>13, EmptySeq DEF Texts
    <3>4. QED
      BY <2>6, <3>2, <3>3 DEF Accepted, path, query
  <2>14. CASE n # Len(text)
    <3>1. ParsePart(c, "query", text, at) = ParseQuery(c, query)
      BY <2>2, <2>3, <2>14 DEF ParsePart, query
    <3>2. query # <<>>
      BY <2>2, <2>5, <2>14
    <3>3. ParseQuery(c, query) = d
      BY <2>5, <3>2, QueryAccepted DEF d, query
    <3>4. uri = d
      BY <2>6, <2>12, <3>1, <3>3 DEF Part, at
    <3>5. QED
      BY <2>7, <3>4 DEF Accepted, path, query
  <2>15. QED
    BY <2>13, <2>14
<1>2. QED
  BY <1>1, UriInductive, PTL

-----------------------------------------------------------------------------
(* The grammar of an authority, in terms of the tokens of the whole text.   *)

UserinfoTo(raw, m) ==
  /\ \A i \in 1 .. m - 1 : raw[i] \in RegularChars
  /\ m > 0 => raw[m] = "@"

NameFrom(raw, m, n) ==
  /\ m < n
  /\ \A i \in m + 1 .. n : raw[i] \in RegularChars

LiteralFrom(raw, m, n) ==
  /\ m + 2 < n
  /\ raw[m + 1] = "[" /\ raw[m + 2] # "v" /\ raw[n] = "]"
  /\ \A i \in m + 2 .. n - 1 : raw[i] \in RegularChars \cup {":"}

PortFrom(raw, n) ==
  /\ n < Len(raw) => raw[n + 1] = ":"
  /\ Len(raw) <= n + 2
  /\ n + 2 = Len(raw) => raw[n + 2] \in Digits

(* A userinfo in terms of the places of the text.                           *)
LEMMA UserinfoInText ==
  ASSUME NEW raw \in Texts, NEW m \in 0 .. Len(raw), IsUserinfo(Between(raw, 0, m))
  PROVE  UserinfoTo(raw, m)
<1> DEFINE part == Between(raw, 0, m)
<1>1. Len(raw) \in Nat /\ m \in Nat /\ m <= Len(raw) /\ 0 \in Nat
  BY LenProperties DEF Texts
<1>2. part \in Texts /\ IsPiece(part, raw, 0, m)
  BY <1>1, BetweenIsPiece
<1>3. IsUserinfo(part)
  OBVIOUS
<1> HIDE DEF part
<1>4. Len(part) = m /\ \A i \in 1 .. m : part[i] = raw[i]
  BY <1>1, <1>2 DEF IsPiece
<1>5. CASE m = 0
  BY <1>5 DEF UserinfoTo
<1>6. CASE m > 0
  <2>1. part # <<>> /\ Last(part) = part[m] /\ m \in 1 .. m
    BY <1>1, <1>4, <1>6 DEF Last
  <2>2. raw[m] = "@" /\ All(Front(part), RegularChars)
    BY <1>3, <1>4, <2>1 DEF IsUserinfo
  <2>3. Front(part) = Between(part, 0, m - 1)
    BY <1>1, <1>4 DEF Front, Between
  <2>4. /\ Between(part, 0, m - 1) \in Texts
        /\ IsPiece(Between(part, 0, m - 1), part, 0, m - 1)
    <3> DEFINE to == m - 1
    <3>1. to \in Nat /\ 0 <= to /\ to <= Len(part)
      BY <1>1, <1>4, <1>6
    <3> HIDE DEF to
    <3>2. Between(part, 0, to) \in Texts /\ IsPiece(Between(part, 0, to), part, 0, to)
      BY <1>1, <1>2, <3>1, BetweenIsPiece
    <3>3. QED
      BY <3>2 DEF to
  <2>5. /\ Len(Front(part)) = m - 1 /\ DOMAIN Front(part) = 1 .. m - 1
        /\ \A i \in 1 .. m - 1 : Front(part)[i] = part[i]
    BY <1>1, <2>3, <2>4, LenProperties DEF IsPiece, Texts
  <2>6. \A i \in 1 .. m - 1 : raw[i] \in RegularChars
    BY <1>1, <1>4, <2>2, <2>5 DEF All
  <2>7. QED
    BY <2>2, <2>6 DEF UserinfoTo
<1>7. QED
  BY <1>1, <1>5, <1>6

(* No text is a host name and an address.                                   *)
LEMMA HostInText ==
  ASSUME NEW raw \in Texts, NEW m \in 0 .. Len(raw), NEW n \in 0 .. Len(raw),
         NEW host, host = Between(raw, m, n)
  PROVE  /\ IsRegName(host) => NameFrom(raw, m, n) /\ ~IsIpv6(host)
         /\ IsIpv6(host) => LiteralFrom(raw, m, n)
<1>1. Len(raw) \in Nat /\ m \in Nat /\ n \in Nat /\ n <= Len(raw)
  BY LenProperties DEF Texts
<1>2. CASE ~(m < n)
  <2>1. Len(host) = 0 /\ host \in Texts
    BY <1>1, <1>2, BetweenProperties DEF Texts
  <2>2. host = <<>>
    BY <2>1, EmptySeq DEF Texts
  <2>3. QED
    BY <2>1, <2>2 DEF IsRegName, IsIpv6
<1>3. CASE m < n
  <2>1. host \in Texts /\ IsPiece(host, raw, m, n)
    BY <1>1, <1>3, BetweenIsPiece
  <2>2. /\ DOMAIN host = 1 .. n - m /\ Len(host) = n - m
        /\ \A i \in 1 .. n - m : host[i] = raw[m + i]
    BY <2>1, LenProperties DEF IsPiece, Texts
  <2>3. ASSUME IsRegName(host) PROVE NameFrom(raw, m, n) /\ ~IsIpv6(host)
    <3>1. \A i \in 1 .. n - m : host[i] \in RegularChars
      BY <2>2, <2>3 DEF IsRegName, All
    <3>2. ~IsIpv6(host)
      <4>1. 1 \in 1 .. n - m
        BY <1>1, <1>3
      <4>2. "[" \notin RegularChars
        BY DEF RegularChars, Digits
      <4>3. QED
        BY <3>1, <4>1, <4>2 DEF IsIpv6
    <3>3. ASSUME NEW i \in m + 1 .. n PROVE raw[i] \in RegularChars
      <4>1. i - m \in 1 .. n - m /\ m + (i - m) = i
        BY <1>1
      <4>2. QED
        BY <2>2, <3>1, <4>1
    <3>4. QED
      BY <1>3, <3>2, <3>3 DEF NameFrom
  <2>4. ASSUME IsIpv6(host) PROVE LiteralFrom(raw, m, n)
    <3>1. /\ n - m > 2 /\ host[1] = "[" /\ host[2] # "v" /\ host[n - m] = "]"
          /\ \A i \in 2 .. n - m - 1 : host[i] \in RegularChars \cup {":"}
      BY <2>2, <2>4 DEF IsIpv6, Last
    <3>2. /\ 1 \in 1 .. n - m /\ 2 \in 1 .. n - m /\ n - m \in 1 .. n - m
          /\ m + (n - m) = n
      BY <1>1, <3>1
    <3>3. ASSUME NEW i \in m + 2 .. n - 1 PROVE raw[i] \in RegularChars \cup {":"}
      <4>1. i - m \in 2 .. n - m - 1 /\ i - m \in 1 .. n - m /\ m + (i - m) = i
        BY <1>1
      <4>2. QED
        BY <2>2, <3>1, <4>1
    <3>4. /\ raw[m + 1] = "[" /\ raw[m + 2] # "v" /\ raw[n] = "]" /\ m + 2 < n
      BY <1>1, <2>2, <3>1, <3>2
    <3>5. QED
      BY <3>3, <3>4 DEF LiteralFrom
  <2>5. QED
    BY <2>3, <2>4
<1>4. QED
  BY <1>2, <1>3

(* A port likewise.                                                         *)
LEMMA PortInText ==
  ASSUME NEW raw \in Texts, NEW n \in 0 .. Len(raw), NEW port,
         port = After(raw, n), IsPort(port)
  PROVE  /\ PortFrom(raw, n)
         /\ PortOf(port) = IF n + 2 = Len(raw) THEN Numbers[raw[n + 2]] ELSE NoPort
<1>1. Len(raw) \in Nat /\ n \in Nat /\ n <= Len(raw)
  BY LenProperties DEF Texts
<1>2. /\ port \in Texts /\ Len(port) = Len(raw) - n
      /\ \A i \in 1 .. Len(raw) - n : port[i] = raw[n + i]
  BY <1>1, AfterProperties DEF Texts
<1>3. CASE n = Len(raw)
  BY <1>1, <1>2, <1>3 DEF PortFrom, PortOf
<1>4. CASE n < Len(raw)
  <2>1. port # <<>> /\ 1 \in 1 .. Len(raw) - n
    BY <1>1, <1>2, <1>4
  <2>2. port[1] = ":" /\ Len(port) <= 2 /\ All(Tail(port), Digits)
    BY <2>1 DEF IsPort
  <2>3. raw[n + 1] = ":" /\ Len(raw) <= n + 2
    BY <1>1, <1>2, <2>1, <2>2
  <2>4. CASE n + 2 = Len(raw)
    <3>1. Len(port) = 2 /\ 2 \in 1 .. Len(raw) - n
      BY <1>1, <1>2, <2>4
    <3>2. Tail(port) \in Texts /\ Len(Tail(port)) = 1 /\ Tail(port)[1] = port[2]
      BY <1>2, <2>1, <3>1, HeadTailProperties DEF Texts
    <3>3. port[2] \in Digits
      <4> DEFINE tail == Tail(port)
      <4>1. tail \in Seq(Tokens) /\ Len(tail) = 1 /\ All(tail, Digits)
        BY <2>2, <3>2 DEF Texts
      <4> HIDE DEF tail
      <4>2. 1 \in DOMAIN tail
        BY <4>1, LenProperties
      <4>3. tail[1] \in Digits
        BY <4>1, <4>2 DEF All
      <4>4. QED
        BY <3>2, <4>3 DEF tail
    <3>4. QED
      BY <1>2, <2>3, <2>4, <3>1, <3>3 DEF PortFrom, PortOf
  <2>5. CASE n + 2 # Len(raw)
    BY <1>1, <1>2, <2>3, <2>5 DEF PortFrom, PortOf
  <2>6. QED
    BY <2>4, <2>5
<1>5. QED
  BY <1>1, <1>3, <1>4

(* Where the parser looks for the parts of an authority.                    *)
LEMMA AuthorityPlaces ==
  ASSUME NEW raw \in Texts, NEW m \in 0 .. Len(raw), NEW n \in 0 .. Len(raw),
         UserinfoTo(raw, m), NameFrom(raw, m, n) \/ LiteralFrom(raw, m, n),
         PortFrom(raw, n)
  PROVE  /\ Find(raw, <<"@">>, 0) = m - 1
         /\ Find(raw, <<":">>, Max({Find(raw, <<"]">>, 0), 0})) =
              IF n < Len(raw) THEN n ELSE NPos
<1> DEFINE at == Find(raw, <<"@">>, 0)
           close == Find(raw, <<"]">>, 0)
           from == Max({close, 0})
           colon == Find(raw, <<":">>, from)
<1>1. /\ Len(raw) \in Nat /\ m \in Nat /\ n \in Nat /\ n <= Len(raw) /\ NPos = -1
      /\ m < n
  BY LenProperties DEF Texts, NPos, NameFrom, LiteralFrom
<1>2. /\ \A c \in RegularChars : c \notin {"@", ":", "[", "]", "/", "?"}
      /\ \A c \in Digits : c \in RegularChars
  BY DEF RegularChars, Digits
<1>3. /\ \A i \in m + 1 .. Len(raw) : raw[i] # "@"
      /\ m = 0 \/ raw[m] = "@"
      /\ \A i \in 1 .. m - 1 : raw[i] # "@"
  <2>1. \A i \in m + 1 .. n : raw[i] # "@"
    <3>1. CASE NameFrom(raw, m, n)
      BY <1>2, <3>1 DEF NameFrom
    <3>2. CASE LiteralFrom(raw, m, n)
      <4>1. \A i \in m + 1 .. n : i = m + 1 \/ i = n \/ i \in m + 2 .. n - 1
        BY <1>1
      <4>2. QED
        BY <1>2, <3>2, <4>1 DEF LiteralFrom
    <3>3. QED
      BY <3>1, <3>2
  <2>2. \A i \in n + 1 .. Len(raw) : raw[i] # "@"
    <3>1. \A i \in n + 1 .. Len(raw) : i = n + 1 \/ (i = n + 2 /\ n + 2 = Len(raw))
      BY <1>1 DEF PortFrom
    <3>2. QED
      BY <1>1, <1>2, <3>1 DEF PortFrom
  <2>3. \A i \in m + 1 .. Len(raw) : i \in m + 1 .. n \/ i \in n + 1 .. Len(raw)
    BY <1>1
  <2>4. QED
    BY <1>1, <1>2, <2>1, <2>2, <2>3 DEF UserinfoTo
<1>4. at = m - 1
  <2>1. \/ at = NPos /\ \A i \in 0 + 1 .. Len(raw) : raw[i] # "@"
        \/ /\ at \in 0 .. Len(raw) - 1 /\ raw[at + 1] = "@"
           /\ \A i \in 0 + 1 .. at : raw[i] # "@"
    BY FindToken DEF Texts
  <2> HIDE DEF at
  <2>2. CASE m = 0
    BY <1>1, <1>3, <2>1, <2>2
  <2>3. CASE m > 0
    <3>1. m \in 0 + 1 .. Len(raw) /\ raw[m] = "@"
      BY <1>1, <1>3, <2>3
    <3>2. at \in 0 .. Len(raw) - 1 /\ ~(m <= at)
      BY <1>1, <2>1, <3>1
    <3>3. ~(at + 1 < m)
      BY <1>1, <1>3, <2>1, <3>2
    <3>4. QED
      BY <1>1, <3>2, <3>3
  <2>4. QED
    BY <1>1, <2>2, <2>3
<1>5. n < Len(raw) => raw[n + 1] = ":"
  BY DEF PortFrom
<1>6. from \in Nat /\ from <= n /\ \A i \in from + 1 .. n : raw[i] # ":"
  <2>1. \/ close = NPos /\ \A i \in 0 + 1 .. Len(raw) : raw[i] # "]"
        \/ /\ close \in 0 .. Len(raw) - 1 /\ raw[close + 1] = "]"
           /\ \A i \in 0 + 1 .. close : raw[i] # "]"
    BY FindToken DEF Texts
  <2> HIDE DEF close
  <2>2. from = IF close = NPos THEN 0 ELSE close
    BY <1>1, <2>1, MaxOfTwo
  <2>3. \A i \in n + 1 .. Len(raw) : raw[i] # "]"
    <3>1. \A i \in n + 1 .. Len(raw) : i = n + 1 \/ (i = n + 2 /\ n + 2 = Len(raw))
      BY <1>1 DEF PortFrom
    <3>2. QED
      BY <1>1, <1>2, <3>1 DEF PortFrom
  <2> HIDE DEF from
  <2>4. \A i \in 1 .. m : raw[i] # "]" /\ raw[i] # ":"
    <3>1. \A i \in 1 .. m : i = m \/ i \in 1 .. m - 1
      BY <1>1
    <3>2. QED
      BY <1>2, <3>1 DEF UserinfoTo
  <2>5. CASE NameFrom(raw, m, n)
    <3>1. \A i \in m + 1 .. n : raw[i] # "]" /\ raw[i] # ":"
      BY <1>2, <2>5 DEF NameFrom
    <3>2. \A i \in 1 .. Len(raw) : i \in 1 .. m \/ i \in m + 1 .. n \/ i \in n + 1 .. Len(raw)
      BY <1>1
    <3>3. \A i \in 1 .. Len(raw) : raw[i] # "]"
      BY <2>3, <2>4, <3>1, <3>2
    <3>4. close = NPos
      BY <1>1, <2>1, <3>3
    <3>5. \A i \in 0 + 1 .. n : i \in 1 .. m \/ i \in m + 1 .. n
      BY <1>1
    <3>6. QED
      BY <1>1, <2>2, <2>4, <3>1, <3>4, <3>5
  <2>6. CASE LiteralFrom(raw, m, n)
    <3>1. raw[n] = "]" /\ n \in 0 + 1 .. Len(raw)
      BY <1>1, <2>6 DEF LiteralFrom
    <3>2. close \in 0 .. Len(raw) - 1 /\ ~(n <= close)
      BY <1>1, <2>1, <3>1
    <3>3. \A i \in 1 .. n - 1 : raw[i] # "]"
      <4>1. \A i \in 1 .. n - 1 : i \in 1 .. m \/ i = m + 1 \/ i \in m + 2 .. n - 1
        BY <1>1
      <4>2. QED
        BY <1>2, <2>4, <2>6, <4>1 DEF LiteralFrom
    <3>4. close = n - 1
      BY <1>1, <2>1, <3>2, <3>3
    <3>5. QED
      BY <1>1, <2>2, <3>1, <3>4
  <2>7. QED
    BY <2>5, <2>6
<1> HIDE DEF from
<1>7. colon = IF n < Len(raw) THEN n ELSE NPos
  <2>1. \/ colon = NPos /\ \A i \in from + 1 .. Len(raw) : raw[i] # ":"
        \/ /\ colon \in from .. Len(raw) - 1 /\ raw[colon + 1] = ":"
           /\ \A i \in from + 1 .. colon : raw[i] # ":"
    BY <1>6, FindToken DEF Texts
  <2> HIDE DEF colon
  <2>2. CASE n < Len(raw)
    <3>1. n + 1 \in from + 1 .. Len(raw)
      BY <1>1, <1>6, <2>2
    <3>2. colon \in from .. Len(raw) - 1 /\ ~(n < colon)
      BY <1>1, <1>5, <1>6, <2>1, <2>2, <3>1
    <3>3. ~(colon < n)
      BY <1>1, <1>6, <2>1, <3>2
    <3>4. QED
      BY <1>1, <1>6, <2>2, <3>2, <3>3
  <2>3. CASE n = Len(raw)
    <3>1. colon # NPos => colon \in Nat /\ colon + 1 \in from + 1 .. n
      BY <1>1, <1>6, <2>1, <2>3
    <3>2. QED
      BY <1>6, <2>1, <2>3, <3>1
  <2>4. QED
    BY <1>1, <2>2, <2>3
<1>8. QED
  BY <1>4, <1>7 DEF at, colon, from, close

(* The whole of such a text is its authority.                               *)
LEMMA AuthorityAlone ==
  ASSUME NEW raw \in Texts, NEW m \in 0 .. Len(raw), NEW n \in 0 .. Len(raw),
         UserinfoTo(raw, m), NameFrom(raw, m, n) \/ LiteralFrom(raw, m, n),
         PortFrom(raw, n)
  PROVE  /\ Cuts(raw).scheme_end = NPos
         /\ Cuts(raw).auth_start = 0 /\ Cuts(raw).auth_end = Len(raw)
         /\ Between(raw, 0, Len(raw)) = raw
<1> DEFINE slashes == Find(raw, <<"/", "/">>, 0)
           first == Find(raw, <<"/">>, 0)
           mark == Find(raw, <<"?">>, 0)
           scheme_end == Find(raw, <<":", "/", "/">>, 0)
<1>1. /\ Len(raw) \in Nat /\ m \in Nat /\ n \in Nat /\ n <= Len(raw) /\ NPos = -1
      /\ m < n
  BY LenProperties DEF Texts, NPos, NameFrom, LiteralFrom
<1>2. /\ \A c \in RegularChars : c \notin {"/", "?"}
      /\ \A c \in Digits : c \in RegularChars
  BY DEF RegularChars, Digits
<1>3. \A i \in 1 .. Len(raw) : raw[i] # "/" /\ raw[i] # "?"
  <2>1. \A i \in 1 .. m : raw[i] \notin {"/", "?"}
    <3>1. \A i \in 1 .. m : i = m \/ i \in 1 .. m - 1
      BY <1>1
    <3>2. QED
      BY <1>1, <1>2, <3>1 DEF UserinfoTo
  <2>2. \A i \in m + 1 .. n : raw[i] \notin {"/", "?"}
    <3>1. CASE NameFrom(raw, m, n)
      BY <1>2, <3>1 DEF NameFrom
    <3>2. CASE LiteralFrom(raw, m, n)
      <4>1. \A i \in m + 1 .. n : i = m + 1 \/ i = n \/ i \in m + 2 .. n - 1
        BY <1>1
      <4>2. QED
        BY <1>2, <3>2, <4>1 DEF LiteralFrom
    <3>3. QED
      BY <3>1, <3>2
  <2>3. \A i \in n + 1 .. Len(raw) : raw[i] \notin {"/", "?"}
    <3>1. \A i \in n + 1 .. Len(raw) : i = n + 1 \/ (i = n + 2 /\ n + 2 = Len(raw))
      BY <1>1 DEF PortFrom
    <3>2. QED
      BY <1>1, <1>2, <3>1 DEF PortFrom
  <2>4. \A i \in 1 .. Len(raw) : i \in 1 .. m \/ i \in m + 1 .. n \/ i \in n + 1 .. Len(raw)
    BY <1>1
  <2>5. QED
    BY <2>1, <2>2, <2>3, <2>4
<1>4. slashes = NPos
  <2>1. slashes = NPos \/ (slashes \in 0 .. Len(raw) - 2 /\ raw[slashes + 1] = "/")
    BY FindPair DEF Texts
  <2> HIDE DEF slashes
  <2>2. QED
    BY <1>1, <1>3, <2>1
<1>5. first = NPos /\ mark = NPos
  <2>1. /\ first = NPos \/ (first \in 0 .. Len(raw) - 1 /\ raw[first + 1] = "/")
        /\ mark = NPos \/ (mark \in 0 .. Len(raw) - 1 /\ raw[mark + 1] = "?")
    BY FindToken DEF Texts
  <2> HIDE DEF first, mark
  <2>2. QED
    BY <1>1, <1>3, <2>1
<1>6. scheme_end = NPos
  <2> DEFINE pat == <<":", "/", "/">>
             k == scheme_end
             to == scheme_end + 3
             part == Between(raw, k, to)
  <2> SUFFICES ASSUME scheme_end # NPos PROVE FALSE
    OBVIOUS
  <2>1. Len(pat) = 3 /\ pat[2] = "/"
    OBVIOUS
  <2>2. k \in 0 .. Len(raw) - 3 /\ Occurs(raw, pat, k)
    BY <2>1, FindProperties DEF Texts
  <2>3. part = pat
    BY <2>1, <2>2 DEF Occurs, Between
  <2> HIDE DEF pat, k
  <2>4. /\ k \in Nat /\ to \in Nat /\ k <= to /\ to <= Len(raw) /\ to - k = 3
        /\ 2 \in 1 .. 3 /\ k + 2 \in 1 .. Len(raw)
    BY <1>1, <2>2 DEF k
  <2> HIDE DEF to
  <2>5. part[2] = raw[k + 2]
    <3>1. IsPiece(part, raw, k, to)
      BY <2>4, BetweenIsPiece
    <3> HIDE DEF part
    <3>2. QED
      BY <2>4, <3>1 DEF IsPiece
  <2>6. QED
    BY <1>3, <2>1, <2>3, <2>4, <2>5
<1>7. /\ Cuts(raw).scheme_end = scheme_end
      /\ Cuts(raw).auth_start = Max({slashes, 0})
      /\ Cuts(raw).auth_end = IF (IF slashes = NPos THEN first
                                  ELSE Find(raw, <<"/">>, slashes + 2)) # NPos
                              THEN IF slashes = NPos THEN first
                                   ELSE Find(raw, <<"/">>, slashes + 2)
                              ELSE IF mark # NPos THEN mark ELSE Len(raw)
  BY DEF Cuts, slashes, first, mark, scheme_end
<1> HIDE DEF slashes, first, mark, scheme_end
<1>8. Max({slashes, 0}) = 0
  BY <1>1, <1>4, MaxOfTwo
<1>9. Between(raw, 0, Len(raw)) = raw
  BY SubSeqFull DEF Between, Texts
<1>10. QED
  BY <1>4, <1>5, <1>6, <1>7, <1>8, <1>9

(* The host is stored as what it is.                                        *)
WithName(u, name) == [u EXCEPT !.has_err = FALSE, !.reg_name = name]

(* A name of the grammar is stored as it is.                                *)
LEMMA NameAccepted ==
  ASSUME NEW u \in Uris, NEW auth \in Texts,
         NEW m \in 0 .. Len(auth), NEW n \in 0 .. Len(auth), NameFrom(auth, m, n)
  PROVE  ParseHostPart(u, auth, m, n) = WithName(u, Between(auth, m, n))
<1> DEFINE host == Between(auth, m, n)
<1>1. Len(auth) \in Nat /\ m \in Nat /\ n \in Nat /\ m <= Len(auth) /\ n <= Len(auth)
  BY LenProperties DEF Texts
<1>2. m < n => host \in Texts /\ IsPiece(host, auth, m, n)
  BY <1>1, BetweenIsPiece
<1> HIDE DEF host
<1>3. m < n /\ m + 1 \in m + 1 .. n /\ m < Len(auth)
  BY <1>1 DEF NameFrom
<1>4. auth[m + 1] # "["
  BY <1>3 DEF NameFrom, RegularChars, Digits
<1>5. ParsePattern(host, IsRegular)
  <2>1. DOMAIN host = 1 .. n - m /\ \A i \in 1 .. n - m : host[i] = auth[m + i]
    BY <1>2, <1>3, LenProperties DEF IsPiece, Texts
  <2>2. \A i \in 1 .. n - m : m + i \in m + 1 .. n
    BY <1>1
  <2>3. \A i \in 1 .. n - m : host[i] \in RegularChars
    BY <2>1, <2>2 DEF NameFrom
  <2>4. \A i \in 1 .. n - m : host[i] \in Tokens
    BY <2>3 DEF Tokens
  <2>5. QED
    BY <2>1, <2>3, <2>4, RegularIsRegular DEF ParsePattern
<1>6. ~(m = n) /\ ~(m > n)
  BY <1>1, <1>3
<1>7. QED
  BY <1>4, <1>5, <1>6 DEF ParseHostPart, WithName, host

(* An address in brackets is stored without them.                           *)
LEMMA LiteralAccepted ==
  ASSUME NEW u \in Uris, NEW auth \in Texts,
         NEW m \in 0 .. Len(auth), NEW n \in 0 .. Len(auth), LiteralFrom(auth, m, n)
  PROVE  ParseHostPart(u, auth, m, n) =
           [u EXCEPT !.ipv6 = Between(Between(auth, m, n), 1, n - m - 1)]
<1> DEFINE host == Between(auth, m, n)
           from == m + 1
           to == n - 1
           inner == Between(auth, from, to)
           last == n - m - 1
<1>1. Len(auth) \in Nat /\ m \in Nat /\ n \in Nat /\ m <= Len(auth) /\ n <= Len(auth)
  BY LenProperties DEF Texts
<1>2. m < n => host \in Texts /\ IsPiece(host, auth, m, n)
  BY <1>1, BetweenIsPiece
<1> HIDE DEF host
<1>3. /\ m + 2 < n /\ ~(m = n) /\ ~(m > n) /\ m < Len(auth) /\ n > 0
      /\ from \in Nat /\ to \in Nat /\ from <= to /\ to <= Len(auth)
      /\ last \in Nat /\ 1 \in Nat /\ 1 <= last /\ last <= n - m
      /\ to - from = last - 1 /\ 1 \in 1 .. to - from /\ from + 1 = m + 2
  BY <1>1 DEF LiteralFrom
<1> HIDE DEF last
<1>4. inner \in Texts /\ IsPiece(inner, auth, from, to)
  <2> HIDE DEF from, to
  <2>1. QED
    BY <1>3, BetweenIsPiece
<1>5. /\ host \in Texts /\ Len(host) = n - m
      /\ \A i \in 1 .. n - m : host[i] = auth[m + i]
  BY <1>1, <1>2, <1>3 DEF IsPiece
<1> DEFINE within == Between(host, 1, last)
<1>6. within \in Texts /\ IsPiece(within, host, 1, last)
  BY <1>3, <1>5, BetweenIsPiece
<1> HIDE DEF inner, within
<1>7. inner = within
  <2>1. Len(inner) = last - 1 /\ Len(within) = last - 1
    BY <1>3, <1>4, <1>6 DEF IsPiece
  <2>2. ASSUME NEW i \in 1 .. last - 1 PROVE inner[i] = within[i]
    <3>1. i \in 1 .. to - from /\ 1 + i \in 1 .. n - m /\ from + i = m + (1 + i)
      BY <1>1, <1>3
    <3>2. inner[i] = auth[from + i] /\ within[i] = host[1 + i]
      BY <1>4, <1>6, <3>1 DEF IsPiece
    <3>3. QED
      BY <1>5, <3>1, <3>2
  <2>3. QED
    BY <1>4, <1>6, <2>1, <2>2, SeqEqual DEF Texts
<1>8. inner # <<>> /\ inner[1] \notin {"v", "V"}
  <2>1. inner[1] = auth[m + 2] /\ Len(inner) = to - from
    BY <1>3, <1>4 DEF IsPiece
  <2>2. auth[m + 2] # "v" /\ auth[m + 2] \in Tokens
    <3>1. m + 2 \in 1 .. Len(auth)
      BY <1>1, <1>3
    <3>2. QED
      BY <3>1, ElementOfSeq DEF LiteralFrom, Texts
  <2>3. "V" \notin Tokens
    BY DEF Tokens, RegularChars, Digits, GenDelimiters, Forbidden
  <2>4. QED
    BY <1>3, <2>1, <2>2, <2>3
<1>9. auth[m + 1] = "[" /\ auth[n] = "]"
  BY DEF LiteralFrom
<1>10. ParseHostPart(u, auth, m, n) = [u EXCEPT !.ipv6 = inner]
  BY <1>3, <1>8, <1>9 DEF ParseHostPart, inner
<1>11. QED
  BY <1>7, <1>10 DEF within, host, last

(* A port of one digit is stored as its number.                             *)
LEMMA PortAccepted ==
  ASSUME NEW u \in Uris, NEW auth \in Texts, NEW n \in 0 .. Len(auth), n < Len(auth),
         PortFrom(auth, n)
  PROVE  ParsePort(u, After(auth, n + 1)) =
           [u EXCEPT !.has_err = FALSE,
                     !.port = IF n + 2 = Len(auth) THEN Numbers[auth[n + 2]] ELSE NoPort]
<1> DEFINE from == n + 1
           t == After(auth, from)
           first == FindNotOf(t, "SP", 0)
<1>1. /\ Len(auth) \in Nat /\ n \in Nat /\ Len(auth) <= n + 2
      /\ from \in Nat /\ from <= Len(auth)
  BY LenProperties DEF PortFrom, Texts
<1>2. /\ t \in Texts /\ Len(t) = Len(auth) - from
      /\ \A i \in 1 .. Len(auth) - from : t[i] = auth[from + i]
  <2> HIDE DEF from
  <2>1. QED
    BY <1>1, AfterProperties DEF Texts
<1> HIDE DEF t
<1>3. CASE n + 2 = Len(auth)
  <2>1. Len(t) = 1 /\ t[1] = auth[n + 2] /\ t # <<>>
    BY <1>1, <1>2, <1>3
  <2>2. t[1] \in Digits
    BY <1>3, <2>1 DEF PortFrom
  <2>3. t[1] # "SP" /\ t[1] \in DOMAIN Numbers /\ IsDigits(t[1])
    BY <2>2 DEF Digits, Numbers, IsDigits
  <2>4. first = 0
    <3>1. \/ first = NPos /\ \A i \in 0 + 1 .. Len(t) : t[i] = "SP"
          \/ first \in 0 .. Len(t) - 1
      BY <1>2, FindNotOfProperties DEF Texts
    <3> HIDE DEF first
    <3>2. QED
      BY <2>1, <2>3, <3>1
  <2>5. ParsePattern(t, IsDigits)
    <3>1. DOMAIN t = 1 .. 1
      BY <1>2, <2>1, LenProperties DEF Texts
    <3>2. QED
      BY <2>3, <3>1 DEF ParsePattern
  <2>6. 0 # NPos /\ 0 + 1 = 1 /\ (~ParsePattern(t, IsDigits)) = FALSE
    BY <2>5 DEF NPos
  <2>7. ParsePort(u, t) = [u EXCEPT !.has_err = FALSE, !.port = Numbers[t[1]]]
    <3> HIDE DEF first
    <3>1. ParsePort(u, t) = [u EXCEPT !.has_err = ~ParsePattern(t, IsDigits),
                                      !.port = Numbers[t[first + 1]]]
      BY <2>1, <2>3, <2>4, <2>6 DEF ParsePort, first
    <3>2. QED
      BY <2>4, <2>6, <3>1
  <2>8. QED
    BY <1>3, <2>1, <2>7 DEF t
<1>4. CASE n + 2 # Len(auth)
  <2>1. Len(t) = 0
    BY <1>1, <1>2, <1>4
  <2>2. t = <<>>
    BY <1>2, <2>1, EmptySeq DEF Texts
  <2>3. QED
    BY <1>4, <2>2 DEF ParsePort, t
<1>5. QED
  BY <1>3, <1>4

(* Host and port together.                                                  *)
LEMMA HostPortAccepted ==
  ASSUME NEW u \in Uris, ~u.has_err, ~u.threw, NEW auth \in Texts,
         NEW m \in 0 .. Len(auth), NEW n \in 0 .. Len(auth),
         NameFrom(auth, m, n) \/ LiteralFrom(auth, m, n), PortFrom(auth, n)
  PROVE  LET v == ParseHostPort(u, auth, m, IF n < Len(auth) THEN n ELSE NPos)
         IN /\ ~v.has_err /\ ~v.threw /\ v.userinfo = u.userinfo
            /\ NameFrom(auth, m, n) => v.reg_name = Between(auth, m, n)
            /\ LiteralFrom(auth, m, n) =>
                 v.ipv6 = Between(Between(auth, m, n), 1, n - m - 1)
            /\ v.port = IF n + 2 = Len(auth) THEN Numbers[auth[n + 2]] ELSE NoPort
<1> DEFINE w == ParseHostPart(u, auth, m, n)
           host == Between(auth, m, n)
           inner == Between(host, 1, n - m - 1)
           port == IF n + 2 = Len(auth) THEN Numbers[auth[n + 2]] ELSE NoPort
           v == ParseHostPort(u, auth, m, IF n < Len(auth) THEN n ELSE NPos)
<1>1. Len(auth) \in Nat /\ n \in Nat /\ n <= Len(auth) /\ NPos = -1
  BY LenProperties DEF Texts, NPos
<1>2. /\ w \in Uris /\ ~w.has_err /\ ~w.threw /\ w.userinfo = u.userinfo
      /\ NameFrom(auth, m, n) => w.reg_name = host
      /\ LiteralFrom(auth, m, n) => w.ipv6 = inner
  <2>1. w \in Uris
    <3>1. m \in Nat
      BY LenProperties DEF Texts
    <3>2. QED
      BY <3>1, HostKeeps
  <2>2. /\ NameFrom(auth, m, n) => w = WithName(u, host)
        /\ LiteralFrom(auth, m, n) => w = [u EXCEPT !.ipv6 = inner]
    <3>1. ASSUME NameFrom(auth, m, n)
          PROVE  ParseHostPart(u, auth, m, n) = WithName(u, Between(auth, m, n))
      BY <3>1, NameAccepted
    <3>2. ASSUME LiteralFrom(auth, m, n)
          PROVE  ParseHostPart(u, auth, m, n) =
                   [u EXCEPT !.ipv6 = Between(Between(auth, m, n), 1, n - m - 1)]
      BY <3>2, LiteralAccepted
    <3>3. QED
      BY <3>1, <3>2, Zenon
  <2>3. ~(NameFrom(auth, m, n) /\ LiteralFrom(auth, m, n))
    <3> SUFFICES ASSUME NameFrom(auth, m, n), LiteralFrom(auth, m, n) PROVE FALSE
      OBVIOUS
    <3>1. m + 1 \in m + 1 .. n
      BY <1>1 DEF NameFrom
    <3>2. QED
      BY <3>1 DEF NameFrom, LiteralFrom, RegularChars, Digits
  <2> HIDE DEF w, host, inner
  <2>4. CASE NameFrom(auth, m, n)
    BY <2>1, <2>2, <2>3, <2>4 DEF Uris, WithName
  <2>5. CASE LiteralFrom(auth, m, n)
    BY <2>1, <2>2, <2>3, <2>5 DEF Uris
  <2>6. QED
    BY <2>4, <2>5
<1>3. CASE n < Len(auth)
  <2> DEFINE t == After(auth, n + 1)
             Then(x) == IF x.threw THEN x ELSE ParsePort(x, t)
  <2>1. v = Only({Then(x) : x \in {w}})
    <3>1. (IF n < Len(auth) THEN n ELSE NPos) = n /\ n # NPos
      BY <1>1, <1>3
    <3>2. ParseHostPort(u, auth, m, n) = Only({Then(x) : x \in {w}})
      BY <3>1, Zenon DEF ParseHostPort
    <3>3. QED
      BY <3>1, <3>2
  <2> HIDE DEF w, t
  <2>2. {Then(x) : x \in {w}} = {Then(w)}
    OBVIOUS
  <2>3. v = ParsePort(w, t)
    BY <1>2, <2>1, <2>2 DEF Only
  <2>4. ParsePort(w, t) = [w EXCEPT !.has_err = FALSE, !.port = port]
    BY <1>2, <1>3, PortAccepted DEF t
  <2> HIDE DEF v, port, host, inner
  <2>5. v = [w EXCEPT !.has_err = FALSE, !.port = port]
    BY <2>3, <2>4
  <2>6. /\ ~v.has_err /\ v.port = port /\ v.threw = w.threw
        /\ v.userinfo = w.userinfo /\ v.reg_name = w.reg_name /\ v.ipv6 = w.ipv6
    BY <1>2, <2>5 DEF Uris
  <2>7. QED
    BY <1>2, <2>6 DEF v, port, host, inner
<1>4. CASE n = Len(auth)
  <2>1. v = [w EXCEPT !.port = NoPort]
    BY <1>1, <1>4 DEF ParseHostPort
  <2>2. port = NoPort
    BY <1>1, <1>4
  <2> HIDE DEF v, w, port, host, inner
  <2>3. /\ ~v.has_err /\ v.port = port /\ v.threw = w.threw
        /\ v.userinfo = w.userinfo /\ v.reg_name = w.reg_name /\ v.ipv6 = w.ipv6
    BY <1>2, <2>1, <2>2 DEF Uris
  <2>4. QED
    BY <1>2, <2>3 DEF v, port, host, inner
<1>5. QED
  BY <1>1, <1>3, <1>4

(* However long, a host is cut out of its authority, and so are the user    *)
(* name in front of it and the port behind it.                              *)
THEOREM AuthorityIsFound == Spec => []AuthorityFound
<1>1. UriInv => AuthorityFound
  <2> SUFFICES ASSUME UriInv, parsed, use.flags = {"scheme", "authority"},
                      NEW m \in 0 .. Len(text), NEW n \in 0 .. Len(text),
                      IsUserinfo(Between(text, 0, m)),
                      IsRegName(Between(text, m, n)) \/ IsIpv6(Between(text, m, n)),
                      IsPort(After(text, n))
               PROVE  /\ Accepted
                      /\ uri.userinfo = (IF m = 0 THEN <<>> ELSE Front(Between(text, 0, m)))
                      /\ IF IsIpv6(Between(text, m, n))
                         THEN uri.ipv6 = Between(Between(text, m, n), 1,
                                                 Len(Between(text, m, n)) - 1)
                         ELSE uri.reg_name = Between(text, m, n)
                      /\ uri.port = PortOf(After(text, n))
    BY DEF AuthorityFound
  <2> DEFINE flags == use.flags
             at == Cuts(text)
             host == Between(text, m, n)
             user == Between(text, 0, m - 1)
             u1 == [NewUri EXCEPT !.scheme = <<>>]
             u2 == IF m = 0 THEN u1 ELSE ParseUserinfo(u1, user)
             v == ParseHostPort(u2, text, m, IF n < Len(text) THEN n ELSE NPos)
  <2>1. text \in Texts /\ uri = ParseUri(NewUri, text, flags)
    BY WhatIsParsed DEF Texts
  <2>2. /\ UserinfoTo(text, m) /\ PortFrom(text, n)
        /\ IsRegName(host) => NameFrom(text, m, n) /\ ~IsIpv6(host)
        /\ IsIpv6(host) => LiteralFrom(text, m, n)
        /\ PortOf(After(text, n)) = IF n + 2 = Len(text) THEN Numbers[text[n + 2]] ELSE NoPort
    BY <2>1, UserinfoInText, PortInText, HostInText
  <2>3. /\ NameFrom(text, m, n) \/ LiteralFrom(text, m, n)
        /\ Len(text) \in Nat /\ m \in Nat /\ n \in Nat /\ m < n /\ NPos = -1
        /\ m <= Len(text) /\ n <= Len(text)
    BY <2>1, <2>2, LenProperties DEF Texts, NPos, NameFrom, LiteralFrom
  <2>4. /\ at.scheme_end = NPos /\ at.auth_start = 0 /\ at.auth_end = Len(text)
        /\ Between(text, 0, Len(text)) = text
    BY <2>1, <2>2, <2>3, AuthorityAlone
  <2>5. m > 0 => user \in Texts /\ Front(Between(text, 0, m)) = user
    <3> SUFFICES ASSUME m > 0 PROVE user \in Texts /\ Front(Between(text, 0, m)) = user
      OBVIOUS
    <3> DEFINE part == Between(text, 0, m)
               to == m - 1
               front == Between(part, 0, to)
    <3>1. to \in Nat /\ 0 \in Nat /\ 0 <= to /\ to <= m /\ to <= Len(text) /\ 0 <= m
      BY <2>3
    <3>2. part \in Texts /\ IsPiece(part, text, 0, m)
      BY <2>1, <2>3, <3>1, BetweenIsPiece
    <3> HIDE DEF part, to
    <3>3. Len(part) = m /\ \A i \in 1 .. m : part[i] = text[0 + i]
      BY <2>3, <3>2 DEF IsPiece
    <3>4. front \in Texts /\ IsPiece(front, part, 0, to)
      BY <3>1, <3>2, <3>3, BetweenIsPiece
    <3>5. Between(text, 0, to) \in Texts /\ IsPiece(Between(text, 0, to), text, 0, to)
      BY <2>1, <3>1, BetweenIsPiece
    <3> DEFINE other == Between(text, 0, to)
    <3>6. front = other
      <4> HIDE DEF front, other
      <4>1. Len(front) = to /\ Len(other) = to
        BY <3>1, <3>4, <3>5 DEF IsPiece, other
      <4>2. \A i \in 1 .. to : 0 + i = i /\ i \in 1 .. m /\ i \in 1 .. to - 0
        BY <2>3, <3>1
      <4>3. \A i \in 1 .. to : front[i] = other[i]
        BY <3>3, <3>4, <3>5, <4>2 DEF IsPiece, other
      <4>4. QED
        BY <3>4, <3>5, <4>1, <4>3, SeqEqual DEF Texts, other
    <3>7. Front(part) = front
      BY <2>3, <3>1, <3>3 DEF Front, Between, to
    <3>8. QED
      BY <3>5, <3>6, <3>7 DEF part, to
  <2> HIDE DEF user
  <2>6. u1 \in Uris /\ ~u1.has_err /\ ~u1.threw /\ u1.userinfo = <<>>
    BY NewUriTyped, EmptySeq DEF NewUri, Uris, Texts
  <2> HIDE DEF u1
  <2>7. /\ u2 \in Uris /\ ~u2.has_err /\ ~u2.threw
        /\ u2.userinfo = (IF m = 0 THEN <<>> ELSE user)
    <3>1. CASE m = 0
      BY <2>6, <3>1
    <3>2. CASE m # 0
      <4>1. m > 0
        BY <2>3, <3>2
      <4>2. u2 = [u1 EXCEPT !.has_err = FALSE, !.userinfo = user]
        BY <3>2 DEF ParseUserinfo
      <4>3. QED
        BY <2>5, <2>6, <3>2, <4>1, <4>2 DEF Uris
    <3>3. QED
      BY <3>1, <3>2
  <2>8. ParseAuthority(u1, text) = v
    <3>1. /\ Find(text, <<"@">>, 0) = m - 1
          /\ Find(text, <<":">>, Max({Find(text, <<"]">>, 0), 0})) =
               IF n < Len(text) THEN n ELSE NPos
      BY <2>1, <2>2, <2>3, AuthorityPlaces
    <3>2. (m - 1 = NPos <=> m = 0) /\ (m - 1) + 1 = m
      BY <2>3
    <3>3. ParseAuthority(u1, text) =
            ParseHostPort(IF m - 1 = NPos THEN u1
                          ELSE ParseUserinfo(u1, Between(text, 0, m - 1)),
                          text, (m - 1) + 1, IF n < Len(text) THEN n ELSE NPos)
      BY <3>1, Zenon DEF ParseAuthority
    <3>4. QED
      BY <3>2, <3>3 DEF user
  <2>9. /\ ~v.has_err /\ ~v.threw /\ v.userinfo = u2.userinfo
        /\ NameFrom(text, m, n) => v.reg_name = host
        /\ LiteralFrom(text, m, n) => v.ipv6 = Between(host, 1, n - m - 1)
        /\ v.port = IF n + 2 = Len(text) THEN Numbers[text[n + 2]] ELSE NoPort
    <3> HIDE DEF u2
    <3>1. QED
      BY <2>1, <2>2, <2>3, <2>7, HostPortAccepted
  <2>10. Len(host) = n - m
    BY <2>1, <2>3, BetweenIsPiece DEF IsPiece
  <2> HIDE DEF at, v, u2, host
  <2>11. uri = v
    <3>1. ParsePart(NewUri, "scheme", text, at) = u1
      BY <2>4 DEF ParsePart, u1
    <3>2. Part(text, flags, "scheme", NewUri) = u1
      BY <3>1 DEF Part, NewUri, at
    <3>3. ParsePart(u1, "authority", text, at) = v
      <4>1. ~(0 > Len(text))
        BY <2>3
      <4>2. ParsePart(u1, "authority", text, at)
              = Only({ParseAuthority(u1, auth) : auth \in {text}})
        BY <2>4, <4>1 DEF ParsePart
      <4>3. {ParseAuthority(u1, auth) : auth \in {text}} = {v}
        BY <2>8
      <4>4. QED
        BY <4>2, <4>3 DEF Only
    <3>4. Part(text, flags, "authority", u1) = v
      BY <2>6, <3>3 DEF Part, at
    <3>5. Part(text, flags, "path", v) = v /\ Part(text, flags, "query", v) = v
      BY DEF Part
    <3>6. QED
      BY <2>1, <3>2, <3>4, <3>5, PartsInOrder
  <2>12. IsRegName(host) \/ IsIpv6(host)
    BY DEF host
  <2>13. QED
    BY <2>2, <2>3, <2>5, <2>7, <2>9, <2>10, <2>11, <2>12 DEF Accepted, host
<1>2. QED
  BY <1>1, UriInductive, PTL

=============================================================================
