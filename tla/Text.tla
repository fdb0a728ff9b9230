-------------------------------- MODULE Text --------------------------------
(***************************************************************************)
(* The string operations the parsers are built on: the searches and        *)
(* substrings of std::string_view, utils::parse_list, the keyword map.     *)
(*                                                                         *)
(* A text is a sequence of tokens.  "CR", "LF", "SP" and the punctuation   *)
(* tokens are the characters the code looks for; any other token stands    *)
(* for a word none of whose characters it looks for, or for one byte of    *)
(* content.  Positions are the code's, counted from 0.                     *)
(***************************************************************************)
EXTENDS Integers, Sequences, SequencesExt, FiniteSetsExt

(* std::string_view::npos.  It is the largest size_t, so that sums and      *)
(* differences with it are those of -1.                                     *)
NPos == -1

Crlf == <<"CR", "LF">>

(* string_view::find: the first place at or after from where pat occurs.    *)
Find(text, pat, from) ==
  LET hits == {i \in from .. Len(text) - Len(pat) :
                 SubSeq(text, i + 1, i + Len(pat)) = pat}
  IN IF hits = {} THEN NPos ELSE Min(hits)

FindNotOf(text, token, from) ==
  LET hits == {i \in from .. Len(text) - 1 : text[i + 1] # token}
  IN IF hits = {} THEN NPos ELSE Min(hits)

(* string_view::substr(from, n), which gives less where the text ends, and  *)
(* the text from one place to another.                                      *)
Substr(text, from, n) ==
  SubSeq(text, from + 1, Min({from + n, Len(text)}))

Between(text, from, to) == SubSeq(text, from + 1, to)

After(text, from) == SubSeq(text, from + 1, Len(text))

(* The element of a set of one.  Only({Op(x) : x \in {value}}) is Op(value), *)
(* for which TLC evaluates the value once and not wherever Op uses it.      *)
Only(S) == CHOOSE x \in S : TRUE

(* Op(state, element) for each element of seq in turn, likewise.            *)
Fold(Op(_, _), state, seq) ==
  LET after[i \in 0 .. Len(seq)] ==
        IF i = 0 THEN state ELSE Only({Op(s, seq[i]) : s \in {after[i - 1]}})
  IN after[Len(seq)]

(* A loop of at most n iterations; Body is the identity once it has ended.  *)
Loop(Body(_), state, n) ==
  LET after[i \in 0 .. n] ==
        IF i = 0 THEN state ELSE Only({Body(s) : s \in {after[i - 1]}})
  IN after[n]

-----------------------------------------------------------------------------
(* utils::parse_list: "s1, s2,s3".  An empty element ends the loop; that it *)
(* is an error is written to a copy of the caller's pointer and lost.       *)
ListElement(list, s) ==
  LET comma == Find(list, <<",">>, s.at)
      end   == IF comma = NPos THEN Len(list) ELSE comma
      skip  == IF end + 1 < Len(list) /\ list[end + 2] = "SP" THEN 2 ELSE 1
  IN IF s.done \/ s.at >= Len(list) \/ s.at = end
     THEN [s EXCEPT !.done = TRUE]
     ELSE [at     |-> IF comma = NPos THEN end ELSE end + skip,
           parsed |-> Append(s.parsed, Between(list, s.at, end)),
           done   |-> FALSE]

ParseList(list) ==
  LET Body(s) == ListElement(list, s)
  IN Loop(Body, [at |-> 0, parsed |-> <<>>, done |-> FALSE], Len(list)).parsed

(* http_keyword_map: one table for the values of all the enumerations of    *)
(* msg.h, in which 0 is the invalid member of each.                         *)
Keywords ==
  [GET |-> 1, POST |-> 2, OPTIONS |-> 3, HEAD |-> 4, PUT |-> 5, DELETE |-> 6,
   TRACE |-> 7, CONNECT |-> 8, EXTENSION |-> 9,
   keep_alive |-> 1, close |-> 2,
   application |-> 1, text |-> 2, html |-> 1, json |-> 2,
   chunked |-> 1, identity |-> 2, gzip |-> 3, compress |-> 4, deflate |-> 5,
   utf8 |-> 1]

KeywordVal(word) ==
  IF Len(word) = 1 /\ word[1] \in DOMAIN Keywords THEN Keywords[word[1]] ELSE 0

=============================================================================
