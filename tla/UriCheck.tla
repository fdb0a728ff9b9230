------------------------------ MODULE UriCheck ------------------------------
(***************************************************************************)
(* uri::parse_uri against the grammar it is written for (RFC 3986, without *)
(* schemes and fragments).  One URI object parses one text.                *)
(***************************************************************************)
EXTENDS Uri

(* The tokens a text is made of.                                            *)
Digits == {"0", "1", "2", "3", "9000"}

RegularChars == {"a", "b", "v", ".", "*", ",", ";", "huge"} \cup Digits

Tokens == RegularChars \cup GenDelimiters \cup Forbidden

CONSTANTS
  Uses,           \* records of flags, the alphabet of the texts that are
                  \* parsed with them, and the length of the longest
  SlashesInQuery  \* TRUE: a query may contain two slashes in a row

ASSUME UsesAssumption ==
  /\ \A u \in Uses : u.alphabet \subseteq Tokens
  /\ SlashesInQuery \in BOOLEAN

VARIABLES
  use,        \* how the parser is called
  text,       \* with what
  uri,        \* struct uri
  parsed      \* parse_uri has returned

vars == <<use, text, uri, parsed>>

Init ==
  /\ use \in Uses
  /\ text = <<>>
  /\ uri = NewUri
  /\ parsed = FALSE

(* One more token of the text.  Two numbers in a row would be one.          *)
Write ==
  /\ ~parsed
  /\ Len(text) < use.length
  /\ \E c \in use.alphabet :
       /\ ~(text # <<>> /\ IsDigits(c) /\ IsDigits(Last(text)))
       /\ \/ SlashesInQuery
          \/ ~(Contains(text, "?") /\ c = "/" /\ Last(text) = "/")
       /\ text' = Append(text, c)
  /\ UNCHANGED <<use, uri, parsed>>

Parse ==
  /\ ~parsed
  /\ uri' = ParseUri(uri, text, use.flags)
  /\ parsed' = TRUE
  /\ UNCHANGED <<use, text>>

Next == Write \/ Parse

Spec == Init /\ [][Next]_vars

-----------------------------------------------------------------------------
(* The grammar                                                              *)

All(part, S) == \A i \in DOMAIN part : part[i] \in S

Pchars == RegularChars \cup {":", "@"}

(* A list of segments, each begun by a slash; only the last may be empty.   *)
IsPath(part) ==
  /\ part # <<>> /\ part[1] = "/"
  /\ All(part, Pchars \cup {"/"})
  /\ \A i \in 2 .. Len(part) : ~(part[i - 1] = "/" /\ part[i] = "/")

IsQuery(part) ==
  part = <<>> \/ (part[1] = "?" /\ All(part, Pchars \cup {"/", "?"}))

(* A user name.  With a colon and a password behind it the parser takes the *)
(* colon for that of the port and throws.                                   *)
IsUserinfo(part) ==
  part = <<>> \/ (Last(part) = "@" /\ All(Front(part), RegularChars))

IsRegName(part) == part # <<>> /\ All(part, RegularChars)

(* The parser takes anything in brackets that does not begin with a v for   *)
(* an IPv6 address.                                                         *)
IsIpv6(part) ==
  /\ Len(part) > 2 /\ part[1] = "[" /\ Last(part) = "]"
  /\ part[2] # "v"
  /\ \A i \in 2 .. Len(part) - 1 : part[i] \in RegularChars \cup {":"}

IsPort(part) ==
  part = <<>> \/ (part[1] = ":" /\ Len(part) <= 2 /\ All(Tail(part), Digits))

PortOf(part) == IF Len(part) = 2 THEN Numbers[part[2]] ELSE NoPort

Accepted == parsed /\ ~uri.has_err /\ ~uri.threw

-----------------------------------------------------------------------------
(* Properties                                                               *)

(* A target made of a path and a query is accepted, and cut where the path  *)
(* ends.                                                                    *)
TargetFound ==
  parsed /\ use.flags = {"path", "query"} =>
    \A n \in 1 .. Len(text) :
      LET path  == Between(text, 0, n)
          query == After(text, n)
      IN IsPath(path) /\ IsQuery(query) =>
           Accepted /\ uri.path = path /\ uri.query = query

(* A host, with or without userinfo in front of it and a port behind it, is *)
(* accepted and cut into these parts.                                       *)
AuthorityFound ==
  parsed /\ use.flags = {"scheme", "authority"} =>
    \A m, n \in 0 .. Len(text) :
      LET userinfo == Between(text, 0, m)
          host     == Between(text, m, n)
          port     == After(text, n)
      IN IsUserinfo(userinfo) /\ (IsRegName(host) \/ IsIpv6(host)) /\ IsPort(port) =>
           /\ Accepted
           /\ uri.userinfo = (IF m = 0 THEN <<>> ELSE Front(userinfo))
           /\ IF IsIpv6(host) THEN uri.ipv6 = Between(host, 1, Len(host) - 1)
              ELSE uri.reg_name = host
           /\ uri.port = PortOf(port)

(* Whichever errors a later part makes the parser forget, a path it stores  *)
(* is one: route_to_resource_handler never sees another.                    *)
PathSound == uri.path = <<>> \/ IsPath(uri.path)

(* When a text is accepted with a host name and a port, they stand in it    *)
(* next to each other, and nothing follows but a path or a query: a request *)
(* that passes the test of its authority in parse_content was sent to it.   *)
HostNamed ==
  Accepted /\ IsRegName(uri.reg_name) /\ uri.port # NoPort =>
    \E m \in 0 .. Len(text) :
      /\ m = 0 \/ text[m] = "@"
      /\ \E digits \in Digits :
           /\ Numbers[digits] = uri.port
           /\ LET named == uri.reg_name \o <<":", digits>>
                  rest  == After(text, m + Len(named))
              IN /\ Substr(text, m, Len(named)) = named
                 /\ rest = <<>> \/ rest[1] \in {"/", "?"}

=============================================================================
