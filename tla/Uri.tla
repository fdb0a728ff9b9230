-------------------------------- MODULE Uri ---------------------------------
(***************************************************************************)
(* uri/src/parser.cpp: a URI, or the part of one that the caller's flags   *)
(* name, is cut up by searching for delimiters, and each part is checked   *)
(* against its grammar.                                                    *)
(*                                                                         *)
(* Positions in a text are those of the code's iterators.  Where a part    *)
(* would end before it begins the code leaves the text it was given: what  *)
(* then happens is modelled at each place.                                 *)
(***************************************************************************)
EXTENDS Text

(* struct uri.  reg_name stands for ipv4 too, which always has the same     *)
(* value.  threw: an exception has left the parser, or it has read memory   *)
(* it does not own.  The constructor leaves port unset; as long as no host  *)
(* was parsed nothing depends on it.                                        *)
NoPort == -1

NewUri ==
  [has_err |-> FALSE, threw |-> FALSE, scheme |-> <<>>, userinfo |-> <<>>,
   reg_name |-> <<>>, ipv6 |-> <<>>, future_version |-> <<>>,
   ipvfuture |-> <<>>, port |-> NoPort, path |-> <<>>, query |-> <<>>]

UriFlags == {"scheme", "authority", "path", "query"}

-----------------------------------------------------------------------------
(* Character classes.  A word token is made of letters unless it is a       *)
(* number; "huge" is a number too large for an int, "bad" a character that  *)
(* no part of a URI may have.  No number follows another.                   *)

Numbers == [n \in {"0", "1", "2", "3", "9000"} |->
              CASE n = "0" -> 0 [] n = "1" -> 1 [] n = "2" -> 2
                [] n = "3" -> 3 [] n = "9000" -> 9000]

IsDigits(c) == c \in DOMAIN Numbers \cup {"huge"}

IsHex(c) == IsDigits(c) \/ c \in {"a", "b"}

GenDelimiters == {":", "/", "?", "[", "]", "@"}

SubDelimiters == {"*", ",", ";"}

Forbidden == {"bad", "SP", "CR", "LF"}

(* is_unreserved or is_sub_delimiter                                        *)
IsRegular(c) == c \notin GenDelimiters \cup Forbidden

IsPchar(c) == IsRegular(c) \/ c \in {":", "@"}

IsAlpha(c) == IsRegular(c) /\ ~IsDigits(c) /\ c \notin SubDelimiters \cup {"."}

IsSchemeChar(c) == IsAlpha(c) \/ IsDigits(c) \/ c = "."

(* utils::parse_pattern                                                     *)
ParsePattern(text, Class(_)) == \A i \in DOMAIN text : Class(text[i])

-----------------------------------------------------------------------------
(* The parts.  Those that assign has_err, rather than only set it, forget   *)
(* an error that a part before them has found.                              *)

ParseScheme(u, text) ==
  IF text = <<>> \/ ~IsAlpha(text[1])
  THEN [u EXCEPT !.has_err = TRUE]
  ELSE [u EXCEPT !.has_err = ~ParsePattern(text, IsSchemeChar), !.scheme = text]

(* The class of a userinfo ends in "|| ':'", which is true of every         *)
(* character.                                                               *)
ParseUserinfo(u, text) == [u EXCEPT !.has_err = FALSE, !.userinfo = text]

(* "v" version "." address, without its brackets.                           *)
ParseIpvfuture(u, text) ==
  LET IsAddress(c) == IsRegular(c) \/ c = ":"
      Split(version, address) ==
        IF version = <<>> THEN [u EXCEPT !.has_err = TRUE]
        ELSE IF address = <<>>
        THEN [u EXCEPT !.has_err = TRUE, !.future_version = version]
        ELSE [u EXCEPT !.has_err = ~ /\ ParsePattern(version, IsHex)
                                     /\ ParsePattern(address, IsAddress),
                       !.future_version = version,
                       !.ipvfuture = address]
      dot == Find(text, <<".">>, 0)
  IN IF text[1] # "v" \/ dot = NPos THEN [u EXCEPT !.has_err = TRUE]
     ELSE Split(Between(text, 1, dot), After(text, dot + 1))

(* The host is auth from start to end.  It ends before it starts when the   *)
(* colon taken for that of the port belongs to the userinfo; the            *)
(* constructor of the string then throws, but for an opening bracket that   *)
(* has no closing one where the end is.                                     *)
ParseHostPart(u, auth, start, end) ==
  LET host    == Between(auth, start, end)
      bracket == start < Len(auth) /\ auth[start + 1] = "["
      closed  == end > 0 /\ auth[end] = "]"
      inner   == Between(auth, start + 1, end - 1)
  IN IF start = end \/ (bracket /\ ~closed) THEN [u EXCEPT !.has_err = TRUE]
     ELSE IF start > end THEN [u EXCEPT !.threw = TRUE]
     ELSE IF ~bracket
     THEN [u EXCEPT !.has_err = ~ParsePattern(host, IsRegular), !.reg_name = host]
     ELSE IF inner # <<>> /\ inner[1] \in {"v", "V"} THEN ParseIpvfuture(u, inner)
     ELSE [u EXCEPT !.ipv6 = inner]

(* Mutant of ParsePort: what stoi leaves is not looked at.                  *)
ParsePortLoose(u, text) ==
  LET first == FindNotOf(text, "SP", 0)
  IN IF text = <<>> THEN [u EXCEPT !.has_err = FALSE, !.port = NoPort]
     ELSE IF first = NPos \/ text[first + 1] \notin DOMAIN Numbers
     THEN [u EXCEPT !.threw = TRUE]
     ELSE [u EXCEPT !.has_err = FALSE, !.port = Numbers[text[first + 1]]]

(* std::stoi skips white space, and throws when no number follows and when  *)
(* it is too large.                                                         *)
ParsePort(u, text) ==
  LET first == FindNotOf(text, "SP", 0)
  IN IF text = <<>> THEN [u EXCEPT !.has_err = FALSE, !.port = NoPort]
     ELSE IF first = NPos \/ text[first + 1] \notin DOMAIN Numbers
     THEN [u EXCEPT !.threw = TRUE]
     ELSE [u EXCEPT !.has_err = ~ParsePattern(text, IsDigits),
                    !.port = Numbers[text[first + 1]]]

(* Mutants of ParsePath: no segment may be empty; the path is stored before *)
(* it is checked.                                                           *)
ParsePathFull(u, text) ==
  LET IsPathChar(c) == IsPchar(c) \/ c = "/"
  IN IF /\ ParsePattern(text, IsPathChar)
        /\ Find(text, <<"/", "/">>, 0) = NPos /\ Last(text) # "/"
     THEN [u EXCEPT !.path = text]
     ELSE [u EXCEPT !.has_err = TRUE]

ParsePathStored(u, text) ==
  LET IsPathChar(c) == IsPchar(c) \/ c = "/"
  IN [u EXCEPT !.path = text,
               !.has_err = @ \/ ~ParsePattern(text, IsPathChar)
                             \/ Find(text, <<"/", "/">>, 0) # NPos]

(* Segments of pchars, each begun by a slash; only the last may be empty.   *)
ParsePath(u, text) ==
  LET IsPathChar(c) == IsPchar(c) \/ c = "/"
  IN IF ParsePattern(text, IsPathChar) /\ Find(text, <<"/", "/">>, 0) = NPos
     THEN [u EXCEPT !.path = text]
     ELSE [u EXCEPT !.has_err = TRUE]

(* The query keeps its question mark.                                       *)
ParseQuery(u, text) ==
  LET IsQueryChar(c) == IsPchar(c) \/ c \in {"/", "?"}
  IN [u EXCEPT !.has_err = ~ParsePattern(text, IsQueryChar), !.query = text]

-----------------------------------------------------------------------------
(* parse_authority and parse_uri: where the parts are.  npos + 1 is 0, so   *)
(* that a host without userinfo starts at 0.                                *)

ParseHostPort(u, auth, host_start, port_start) ==
  IF port_start = NPos
  THEN [ParseHostPart(u, auth, host_start, Len(auth)) EXCEPT !.port = NoPort]
  ELSE Only({IF v.threw THEN v ELSE ParsePort(v, After(auth, port_start + 1)) :
               v \in {ParseHostPart(u, auth, host_start, port_start)}})

(* Mutant of ParseAuthority: the port's colon may be one of an IPv6 address. *)
ParseAuthorityAnyColon(u, auth) ==
  LET userinfo_end == Find(auth, <<"@">>, 0)
  IN ParseHostPort(IF userinfo_end = NPos THEN u
                   ELSE ParseUserinfo(u, Between(auth, 0, userinfo_end)),
                   auth, userinfo_end + 1, Find(auth, <<":">>, 0))

ParseAuthority(u, auth) ==
  LET userinfo_end == Find(auth, <<"@">>, 0)
      literal_end  == Find(auth, <<"]">>, 0)
  IN ParseHostPort(IF userinfo_end = NPos THEN u
                   ELSE ParseUserinfo(u, Between(auth, 0, userinfo_end)),
                   auth, userinfo_end + 1,
                   Find(auth, <<":">>, Max({literal_end, 0})))

(* Where each part of the text begins and ends.  The double slash is looked *)
(* for in the whole text and belongs to the authority.                      *)
Cuts(raw) ==
  LET slashes == Find(raw, <<"/", "/">>, 0)
      query   == Find(raw, <<"?">>, 0)
      path    == IF slashes = NPos THEN Find(raw, <<"/">>, 0)
                 ELSE Find(raw, <<"/">>, slashes + 2)
  IN [scheme_end |-> Find(raw, <<":", "/", "/">>, 0),
      auth_start |-> Max({slashes, 0}),
      auth_end   |-> IF path # NPos THEN path
                     ELSE IF query # NPos THEN query ELSE Len(raw),
      path_start |-> path,
      path_end   |-> IF query # NPos THEN query ELSE Len(raw),
      query      |-> query]

(* A query that begins before the authority gives a view of a negative      *)
(* length; one that begins before the path makes the search for the end of  *)
(* the path run on to the first character that no path may have.            *)
ParsePart(u, part, raw, at) ==
  CASE part = "scheme" ->
         IF at.scheme_end = NPos THEN [u EXCEPT !.scheme = <<>>]
         ELSE ParseScheme(u, Between(raw, 0, at.scheme_end))
    [] part = "authority" ->
         IF at.auth_start > at.auth_end THEN [u EXCEPT !.threw = TRUE]
         ELSE Only({ParseAuthority(u, auth) :
                      auth \in {Between(raw, at.auth_start, at.auth_end)}})
    [] part = "path" ->
         IF at.path_start = NPos THEN u
         ELSE IF at.path_start > at.path_end THEN [u EXCEPT !.has_err = TRUE]
         ELSE ParsePath(u, Between(raw, at.path_start, at.path_end))
    [] part = "query" ->
         IF at.query = NPos THEN u ELSE ParseQuery(u, After(raw, at.query))

ParseUri(u, raw, flags) ==
  Only({Fold(LAMBDA v, part : IF part \notin flags \/ v.threw THEN v
                              ELSE ParsePart(v, part, raw, at),
             u, <<"scheme", "authority", "path", "query">>) :
          at \in {Cuts(raw)}})

=============================================================================
