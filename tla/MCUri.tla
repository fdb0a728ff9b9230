------------------------------- MODULE MCUri --------------------------------
(* Texts for UriCheck, for each way http/src/parser.cpp calls parse_uri.    *)
EXTENDS UriCheck

Use(flags, alphabet, length) ==
  [flags |-> flags, alphabet |-> alphabet, length |-> length]

(* In the last of the hosts stoi meets a number that is too large and white *)
(* space.                                                                   *)
PlainUses == {
  Use({"path", "query"}, {"/", "?", "a", ":", "bad"}, 6),
  Use({"scheme", "authority"}, {"a", "1", "v", ".", ":", "@", "[", "]"}, 5),
  Use({"scheme", "authority"}, {"a", "9000", "huge", "SP", "/", ":", "bad"}, 5),
  Use({"authority"}, {"a", "1", ":", "@"}, 5),
  Use(UriFlags \ {"authority"}, {"a", "/", "?", ":", "bad"}, 5),
  Use(UriFlags, {"a", "1", "/", ":", "@"}, 6)}

QueryUse == {Use(UriFlags, {"a", "1", "/", "?", ":"}, 6)}

=============================================================================
