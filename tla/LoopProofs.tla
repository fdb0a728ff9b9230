----------------------------- MODULE LoopProofs -----------------------------
(***************************************************************************)
(* Induction over the iterations of Fold and Loop.  A theorem that takes a *)
(* predicate for parameter cannot be used by the provers; a module whose   *)
(* constants are the body of the loop and its invariant can be             *)
(* instantiated for each loop.                                             *)
(***************************************************************************)
EXTENDS Text, WellFoundedInduction, TLAPS

CONSTANTS
  Body(_, _, _, _),  \* Body(x, y, i, state): the state after iteration i of a
                     \* loop that reads x and y
  Good(_, _, _, _)   \* Good(x, y, i, state): what is true of the state then

(* The states after each of n iterations, and after the last.  Any f that   *)
(* satisfies f = StatesOf(f, ...) is their sequence.                           *)
Once(x, y, i, state) == Only({Body(x, y, i, s) : s \in {state}})

StatesOf(f, x, y, start, n) ==
  [i \in 0 .. n |-> IF i = 0 THEN start ELSE Once(x, y, i, f[i - 1])]

Iterate(x, y, start, n) ==
  (CHOOSE after : after = StatesOf(after, x, y, start, n))[n]

(* f has the states of a loop of n iterations.                              *)
IsRun(f, x, y, start, n) ==
  /\ f[0] = start
  /\ \A i \in 1 .. n : f[i] = Body(x, y, i, f[i - 1])
  /\ Iterate(x, y, start, n) = f[n]

(* A set of numbers that contains 0 and the successors of its elements      *)
(* contains all: otherwise there would be a least number outside it.        *)
LEMMA Induction ==
  ASSUME NEW S, 0 \in S, \A n \in Nat : n \in S => n + 1 \in S
  PROVE  Nat \subseteq S
<1> DEFINE Outside == {n \in Nat : n \notin S}
<1> SUFFICES ASSUME Outside # {} PROVE FALSE
  OBVIOUS
<1>1. PICK n \in Outside : \A m \in Outside : ~(<<m, n>> \in OpToRel(<, Nat))
  BY NatLessThanWellFounded, WFMin, Zenon
<1>2. \A m \in Outside : ~(m < n)
  BY <1>1 DEF OpToRel
<1>3. n \in Nat /\ n # 0 /\ n \notin S
  BY <1>1
<1>4. n - 1 \in Nat /\ n - 1 \notin Outside
  BY <1>2, <1>3
<1>5. QED
  BY <1>3, <1>4

(* Only({e}) is e.                                                          *)
LEMMA OnceIsBody ==
  ASSUME NEW x, NEW y, NEW i, NEW state
  PROVE  Once(x, y, i, state) = Body(x, y, i, state)
<1>1. {Body(x, y, i, s) : s \in {state}} = {Body(x, y, i, state)}
  OBVIOUS
<1>2. \A e : Only({e}) = e
  BY DEF Only
<1>3. QED
  BY <1>1, <1>2, Zenon DEF Once

(* The recursive definition of the states defines something.                *)
LEMMA StatesExist ==
  ASSUME NEW x, NEW y, NEW start, NEW n \in Nat
  PROVE  \E f : f = StatesOf(f, x, y, start, n)
<1> DEFINE S == {k \in Nat : \E f : f = StatesOf(f, x, y, start, k)}
<1>1. 0 \in S
  <2>1. [i \in 0 .. 0 |-> start] = StatesOf([i \in 0 .. 0 |-> start], x, y, start, 0)
    BY DEF StatesOf
  <2>2. QED
    BY <2>1
<1>2. ASSUME NEW k \in Nat, k \in S PROVE k + 1 \in S
  <2>1. PICK f : f = StatesOf(f, x, y, start, k)
    BY <1>2
  <2> DEFINE g == [i \in 0 .. k + 1 |->
                     IF i = k + 1 THEN Once(x, y, i, f[k]) ELSE f[i]]
  <2>2. g = StatesOf(g, x, y, start, k + 1)
    <3>1. ASSUME NEW i \in 0 .. k + 1
          PROVE  g[i] = IF i = 0 THEN start ELSE Once(x, y, i, g[i - 1])
      BY <2>1 DEF StatesOf
    <3>2. QED
      BY <3>1 DEF StatesOf
  <2> HIDE DEF g
  <2>3. QED
    BY <2>2
<1> HIDE DEF S
<1>3. n \in S
  BY <1>1, <1>2, Induction
<1>4. QED
  BY <1>3 DEF S

(* The states in between.                                                   *)
LEMMA States ==
  ASSUME NEW x, NEW y, NEW start, NEW n \in Nat
  PROVE  \E f : IsRun(f, x, y, start, n)
<1>1. PICK f : f = StatesOf(f, x, y, start, n) /\ Iterate(x, y, start, n) = f[n]
  BY StatesExist, Zenon DEF Iterate
<1>2. \A i \in 0 .. n : f[i] = IF i = 0 THEN start ELSE Body(x, y, i, f[i - 1])
  BY <1>1, OnceIsBody DEF StatesOf
<1>3. IsRun(f, x, y, start, n)
  BY <1>1, <1>2 DEF IsRun
<1>4. QED
  BY <1>3, Zenon

(* What is true at the start and preserved by each iteration is true        *)
(* throughout.                                                              *)
LEMMA RunInvariant ==
  ASSUME NEW x, NEW y, NEW start, NEW n \in Nat, NEW f,
         IsRun(f, x, y, start, n), Good(x, y, 0, start),
         \A i \in 1 .. n : \A s : Good(x, y, i - 1, s) => Good(x, y, i, Body(x, y, i, s))
  PROVE  \A i \in 0 .. n : Good(x, y, i, f[i])
<1> DEFINE S == {k \in Nat : k <= n => Good(x, y, k, f[k])}
<1>2. 0 \in S
  BY DEF IsRun
<1>3. ASSUME NEW k \in Nat, k \in S PROVE k + 1 \in S
  <2> SUFFICES ASSUME k + 1 <= n PROVE Good(x, y, k + 1, f[k + 1])
    OBVIOUS
  <2>1. Good(x, y, k, f[k]) /\ k + 1 \in 1 .. n /\ (k + 1) - 1 = k
    BY <1>3
  <2>2. f[k + 1] = Body(x, y, k + 1, f[k])
    BY <2>1 DEF IsRun
  <2>3. QED
    BY <2>1, <2>2
<1> HIDE DEF S
<1>4. Nat \subseteq S
  BY <1>2, <1>3, Induction
<1>5. QED
  BY <1>4 DEF S

(* It is true at the end.                                                   *)
LEMMA LoopInvariant ==
  ASSUME NEW x, NEW y, NEW start, NEW n \in Nat,
         Good(x, y, 0, start),
         \A i \in 1 .. n : \A s : Good(x, y, i - 1, s) => Good(x, y, i, Body(x, y, i, s))
  PROVE  Good(x, y, n, Iterate(x, y, start, n))
<1>1. PICK f : IsRun(f, x, y, start, n)
  BY States, Zenon
<1>2. \A i \in 0 .. n : Good(x, y, i, f[i])
  BY <1>1, RunInvariant
<1>3. QED
  BY <1>1, <1>2 DEF IsRun

(* A state that an iteration leaves as it is lasts to the end.              *)
LEMMA RunSettles ==
  ASSUME NEW x, NEW y, NEW start, NEW n \in Nat, NEW f,
         IsRun(f, x, y, start, n), NEW k \in 0 .. n,
         \A i \in 1 .. n : Body(x, y, i, f[k]) = f[k]
  PROVE  f[n] = f[k]
<1> DEFINE S == {j \in Nat : k + j <= n => f[k + j] = f[k]}
<1>1. 0 \in S
  OBVIOUS
<1>2. ASSUME NEW j \in Nat, j \in S PROVE j + 1 \in S
  <2> SUFFICES ASSUME k + (j + 1) <= n PROVE f[k + (j + 1)] = f[k]
    OBVIOUS
  <2>1. k + (j + 1) \in 1 .. n /\ (k + (j + 1)) - 1 = k + j /\ f[k + j] = f[k]
    BY <1>2
  <2>2. QED
    BY <2>1 DEF IsRun
<1> HIDE DEF S
<1>3. n - k \in S
  BY <1>1, <1>2, Induction
<1>4. QED
  BY <1>3 DEF S

=============================================================================
