----------------------------- MODULE TextProofs -----------------------------
(* What the searches and substrings of Text return, for every text.         *)
EXTENDS Text, SequenceTheorems, WellFoundedInduction, TLAPS

(* Numbers have a least among them.                                         *)
LEMMA MinOfNumbers ==
  ASSUME NEW S \in SUBSET Nat, S # {}
  PROVE  Min(S) \in S /\ \A m \in S : Min(S) <= m
<1>1. PICK n \in S : \A m \in S : ~(<<m, n>> \in OpToRel(<, Nat))
  BY NatLessThanWellFounded, WFMin, Zenon
<1>2. \A m \in S : ~(m < n)
  BY <1>1 DEF OpToRel
<1>3. \A m \in S : n <= m
  BY <1>2
<1>4. QED
  BY <1>3, Zenon DEF Min

(* The larger of two numbers.                                               *)
LEMMA MaxOfTwo ==
  ASSUME NEW a \in Int, NEW b \in Int
  PROVE  Max({a, b}) = IF a <= b THEN b ELSE a
BY DEF Max

(* The smaller.                                                             *)
LEMMA MinOfTwo ==
  ASSUME NEW a \in Int, NEW b \in Int
  PROVE  Min({a, b}) = IF a <= b THEN a ELSE b
BY DEF Min

-----------------------------------------------------------------------------

(* The text from one place to another: its length and its tokens.           *)
LEMMA BetweenProperties ==
  ASSUME NEW T, NEW text \in Seq(T), NEW from \in Nat, NEW to \in Int,
         to <= Len(text)
  PROVE  /\ Between(text, from, to) \in Seq(T)
         /\ Len(Between(text, from, to)) = IF from <= to THEN to - from ELSE 0
         /\ \A i \in 1 .. to - from : Between(text, from, to)[i] = text[from + i]
<1>1. Len(text) \in Nat
  BY LenProperties
<1>2. \A i \in from + 1 .. to : text[i] \in T
  BY <1>1, ElementOfSeq
<1>3. /\ Between(text, from, to) \in Seq(T)
      /\ Len(Between(text, from, to)) =
           IF from + 1 <= to THEN to - (from + 1) + 1 ELSE 0
      /\ \A i \in 1 .. to - (from + 1) + 1 :
           Between(text, from, to)[i] = text[(from + 1) + i - 1]
  BY <1>2, SubSeqProperties DEF Between
<1>4. QED
  BY <1>3

(* The text from one place on.                                              *)
LEMMA AfterProperties ==
  ASSUME NEW T, NEW text \in Seq(T), NEW from \in Nat
  PROVE  /\ After(text, from) \in Seq(T)
         /\ Len(After(text, from)) =
              IF from <= Len(text) THEN Len(text) - from ELSE 0
         /\ \A i \in 1 .. Len(text) - from : After(text, from)[i] = text[from + i]
<1>1. Len(text) \in Nat
  BY LenProperties
<1> DEFINE to == Len(text)
<1>2. After(text, from) = Between(text, from, to)
  BY DEF After, Between
<1>3. to \in Int /\ to <= Len(text)
  BY <1>1
<1> HIDE DEF to
<1>4. /\ Between(text, from, to) \in Seq(T)
      /\ Len(Between(text, from, to)) = IF from <= to THEN to - from ELSE 0
      /\ \A i \in 1 .. to - from : Between(text, from, to)[i] = text[from + i]
  BY <1>3, BetweenProperties
<1>5. QED
  BY <1>2, <1>4 DEF to

-----------------------------------------------------------------------------
(* Find gives the first place of the pattern; what it gives is NPos when    *)
(* and only when there is none.                                             *)
Occurs(text, pat, i) == SubSeq(text, i + 1, i + Len(pat)) = pat

(* The place found, for a pattern of any length.                            *)
LEMMA FindProperties ==
  ASSUME NEW T, NEW text \in Seq(T), NEW pat, Len(pat) \in Nat, NEW from \in Nat
  PROVE  LET found == Find(text, pat, from)
         IN \/ /\ found = NPos
               /\ \A i \in from .. Len(text) - Len(pat) : ~Occurs(text, pat, i)
            \/ /\ found \in from .. Len(text) - Len(pat)
               /\ Occurs(text, pat, found)
               /\ \A i \in from .. found - 1 : ~Occurs(text, pat, i)
<1> DEFINE hits == {i \in from .. Len(text) - Len(pat) : Occurs(text, pat, i)}
<1>1. Find(text, pat, from) = IF hits = {} THEN NPos ELSE Min(hits)
  BY DEF Find, Occurs
<1>2. Len(text) \in Nat
  BY LenProperties
<1>3. CASE hits = {}
  BY <1>1, <1>3
<1>4. CASE hits # {}
  <2>1. hits \in SUBSET Nat
    BY <1>2
  <2>2. Min(hits) \in hits /\ \A m \in hits : Min(hits) <= m
    BY <1>4, <2>1, MinOfNumbers
  <2> DEFINE first == Min(hits)
  <2>3. /\ first \in from .. Len(text) - Len(pat)
        /\ Occurs(text, pat, first)
    BY <2>2
  <2>4. \A i \in from .. first - 1 : i \notin hits
    BY <2>2, <2>3
  <2>5. Find(text, pat, from) = first
    BY <1>1, <1>4
  <2> HIDE DEF first
  <2>6. \A i \in from .. first - 1 : ~Occurs(text, pat, i)
    BY <1>2, <2>3, <2>4
  <2>7. QED
    BY <2>3, <2>5, <2>6
<1>5. QED
  BY <1>3, <1>4

(* The patterns the parsers look for have one token, or two of a kind.      *)
LEMMA OccursToken ==
  ASSUME NEW T, NEW text \in Seq(T), NEW c, NEW i \in 0 .. Len(text) - 1
  PROVE  Occurs(text, <<c>>, i) <=> text[i + 1] = c
<1> DEFINE n == i + 1
           part == Between(text, i, n)
<1>1. /\ Len(text) \in Nat /\ Len(<<c>>) = 1
      /\ i \in Nat /\ n \in Int /\ n <= Len(text) /\ i <= n /\ n - i = 1
  BY LenProperties
<1>2. Occurs(text, <<c>>, i) <=> part = <<c>>
  BY <1>1 DEF Occurs, Between
<1> HIDE DEF n
<1>3. /\ part \in Seq(T)
      /\ Len(part) = IF i <= n THEN n - i ELSE 0
      /\ \A k \in 1 .. n - i : part[k] = text[i + k]
  BY <1>1, BetweenProperties
<1> HIDE DEF part
<1>4. Len(part) = 1 /\ part[1] = text[i + 1]
  BY <1>1, <1>3
<1>5. part = <<c>> <=> part[1] = c
  BY <1>3, <1>4
<1>6. QED
  BY <1>2, <1>4, <1>5

(* A pair of tokens occurs where they stand.                                *)
LEMMA OccursPair ==
  ASSUME NEW T, NEW text \in Seq(T), NEW c, NEW d, NEW i \in 0 .. Len(text) - 2
  PROVE  Occurs(text, <<c, d>>, i) <=> text[i + 1] = c /\ text[i + 2] = d
<1> DEFINE n == i + 2
           part == Between(text, i, n)
<1>1. /\ Len(text) \in Nat /\ Len(<<c, d>>) = 2
      /\ i \in Nat /\ n \in Int /\ n <= Len(text) /\ i <= n /\ n - i = 2
  BY LenProperties
<1>2. Occurs(text, <<c, d>>, i) <=> part = <<c, d>>
  BY <1>1 DEF Occurs, Between
<1> HIDE DEF n
<1>3. /\ part \in Seq(T)
      /\ Len(part) = IF i <= n THEN n - i ELSE 0
      /\ \A k \in 1 .. n - i : part[k] = text[i + k]
  BY <1>1, BetweenProperties
<1> HIDE DEF part
<1>4. Len(part) = 2 /\ part[1] = text[i + 1] /\ part[2] = text[i + 2]
  BY <1>1, <1>3
<1>5. part = <<c, d>> <=> part[1] = c /\ part[2] = d
  BY <1>3, <1>4
<1>6. QED
  BY <1>2, <1>4, <1>5

(* The place found, for a pattern of one token.                             *)
LEMMA FindToken ==
  ASSUME NEW T, NEW text \in Seq(T), NEW c, NEW from \in Nat
  PROVE  LET found == Find(text, <<c>>, from)
         IN \/ /\ found = NPos
               /\ \A i \in from + 1 .. Len(text) : text[i] # c
            \/ /\ found \in from .. Len(text) - 1
               /\ text[found + 1] = c
               /\ \A i \in from + 1 .. found : text[i] # c
<1> DEFINE found == Find(text, <<c>>, from)
<1>1. Len(text) \in Nat /\ Len(<<c>>) = 1
  BY LenProperties
<1>2. \/ /\ found = NPos
         /\ \A i \in from .. Len(text) - 1 : ~Occurs(text, <<c>>, i)
      \/ /\ found \in from .. Len(text) - 1
         /\ Occurs(text, <<c>>, found)
         /\ \A i \in from .. found - 1 : ~Occurs(text, <<c>>, i)
  BY <1>1, FindProperties
<1> HIDE DEF found
<1>3. CASE found = NPos /\ \A i \in from .. Len(text) - 1 : ~Occurs(text, <<c>>, i)
  <2>1. ASSUME NEW i \in from + 1 .. Len(text) PROVE text[i] # c
    <3>1. i - 1 \in from .. Len(text) - 1 /\ i - 1 \in 0 .. Len(text) - 1
          /\ (i - 1) + 1 = i
      BY <1>1
    <3>2. QED
      BY <1>3, <3>1, OccursToken
  <2>2. QED
    BY <1>3, <2>1 DEF found
<1>4. CASE /\ found \in from .. Len(text) - 1
           /\ Occurs(text, <<c>>, found)
           /\ \A i \in from .. found - 1 : ~Occurs(text, <<c>>, i)
  <2>1. found \in 0 .. Len(text) - 1
    BY <1>1, <1>4
  <2>2. text[found + 1] = c
    BY <1>4, <2>1, OccursToken
  <2>3. ASSUME NEW i \in from + 1 .. found PROVE text[i] # c
    <3>1. i - 1 \in from .. found - 1 /\ i - 1 \in 0 .. Len(text) - 1
          /\ (i - 1) + 1 = i
      BY <1>1, <2>1
    <3>2. QED
      BY <1>4, <3>1, OccursToken
  <2>4. QED
    BY <1>4, <2>2, <2>3 DEF found
<1>5. QED
  BY <1>2, <1>3, <1>4

(* For a pair it matters where the first token stands and the second next   *)
(* to it.                                                                   *)
LEMMA FindPair ==
  ASSUME NEW T, NEW text \in Seq(T), NEW c, NEW d, NEW from \in Nat
  PROVE  LET found == Find(text, <<c, d>>, from)
         IN \/ /\ found = NPos
               /\ \A i \in from + 1 .. Len(text) - 1 : ~(text[i] = c /\ text[i + 1] = d)
            \/ /\ found \in from .. Len(text) - 2
               /\ text[found + 1] = c /\ text[found + 2] = d
               /\ \A i \in from + 1 .. found : ~(text[i] = c /\ text[i + 1] = d)
<1> DEFINE found == Find(text, <<c, d>>, from)
<1>1. Len(text) \in Nat /\ Len(<<c, d>>) = 2
  BY LenProperties
<1>2. \/ /\ found = NPos
         /\ \A i \in from .. Len(text) - 2 : ~Occurs(text, <<c, d>>, i)
      \/ /\ found \in from .. Len(text) - 2
         /\ Occurs(text, <<c, d>>, found)
         /\ \A i \in from .. found - 1 : ~Occurs(text, <<c, d>>, i)
  BY <1>1, FindProperties
<1> HIDE DEF found
<1>3. ASSUME NEW i \in from + 1 .. Len(text) - 1, ~Occurs(text, <<c, d>>, i - 1)
      PROVE  ~(text[i] = c /\ text[i + 1] = d)
  <2>1. /\ i - 1 \in 0 .. Len(text) - 2
        /\ (i - 1) + 1 = i /\ (i - 1) + 2 = i + 1
    BY <1>1
  <2>2. QED
    BY <1>3, <2>1, OccursPair
<1>4. CASE found = NPos /\ \A i \in from .. Len(text) - 2 : ~Occurs(text, <<c, d>>, i)
  <2>1. \A i \in from + 1 .. Len(text) - 1 : i - 1 \in from .. Len(text) - 2
    BY <1>1
  <2>2. QED
    BY <1>3, <1>4, <2>1 DEF found
<1>5. CASE /\ found \in from .. Len(text) - 2
           /\ Occurs(text, <<c, d>>, found)
           /\ \A i \in from .. found - 1 : ~Occurs(text, <<c, d>>, i)
  <2>1. found \in 0 .. Len(text) - 2
    BY <1>1, <1>5
  <2>2. text[found + 1] = c /\ text[found + 2] = d
    BY <1>5, <2>1, OccursPair
  <2>3. \A i \in from + 1 .. found :
          i - 1 \in from .. found - 1 /\ i \in from + 1 .. Len(text) - 1
    BY <1>1, <2>1
  <2>4. \A i \in from + 1 .. found : ~(text[i] = c /\ text[i + 1] = d)
    BY <1>3, <1>5, <2>3
  <2>5. QED
    BY <1>5, <2>2, <2>4 DEF found
<1>6. QED
  BY <1>2, <1>4, <1>5

(* The first token that is another one.                                     *)
LEMMA FindNotOfProperties ==
  ASSUME NEW T, NEW text \in Seq(T), NEW c, NEW from \in Nat
  PROVE  LET found == FindNotOf(text, c, from)
         IN \/ /\ found = NPos
               /\ \A i \in from + 1 .. Len(text) : text[i] = c
            \/ /\ found \in from .. Len(text) - 1
               /\ text[found + 1] # c
               /\ \A i \in from + 1 .. found : text[i] = c
<1> DEFINE hits == {i \in from .. Len(text) - 1 : text[i + 1] # c}
<1>1. FindNotOf(text, c, from) = IF hits = {} THEN NPos ELSE Min(hits)
  BY DEF FindNotOf
<1>2. Len(text) \in Nat
  BY LenProperties
<1>3. CASE hits = {}
  <2>1. ASSUME NEW i \in from + 1 .. Len(text) PROVE text[i] = c
    <3>1. i - 1 \in from .. Len(text) - 1 /\ (i - 1) + 1 = i
      BY <1>2
    <3>2. QED
      BY <1>3, <3>1
  <2>2. QED
    BY <1>1, <1>3, <2>1
<1>4. CASE hits # {}
  <2>1. hits \in SUBSET Nat
    BY <1>2
  <2>2. Min(hits) \in hits /\ \A m \in hits : Min(hits) <= m
    BY <1>4, <2>1, MinOfNumbers
  <2> DEFINE first == Min(hits)
  <2>3. first \in from .. Len(text) - 1 /\ text[first + 1] # c
    BY <2>2
  <2>4. ASSUME NEW i \in from + 1 .. first PROVE text[i] = c
    <3>1. i - 1 \in from .. Len(text) - 1 /\ i - 1 < first /\ (i - 1) + 1 = i
      BY <1>2, <2>3
    <3>2. i - 1 \notin hits
      BY <2>2, <2>3, <3>1
    <3>3. QED
      BY <3>1, <3>2
  <2>5. FindNotOf(text, c, from) = first
    BY <1>1, <1>4
  <2> HIDE DEF first
  <2>6. QED
    BY <2>3, <2>4, <2>5
<1>5. QED
  BY <1>3, <1>4

=============================================================================
