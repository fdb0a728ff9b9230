------------------------------- MODULE Handoff -------------------------------
(***************************************************************************)
(* What the event loop promises its connections, which have no lock: the   *)
(* right to work on a connection, its token, is in one place at a time.    *)
(* epoll has it while the descriptor is armed; epoll_wait gives it to a    *)
(* worker, which gives it back by arming the descriptor again or closes    *)
(* the connection.  Module ServerHandoff shows that Server implements this.*)
(***************************************************************************)
CONSTANTS
  Fds,        \* descriptors
  Workers,    \* the threads that handle events
  T0,         \* the thread that accepts connections
  Epoll,      \* the kernel's epoll instance
  Lossy       \* TRUE: a token may get lost

Threads == Workers \cup {T0}

VARIABLES
  token,      \* token[f]: where the token of descriptor f is
  phase       \* phase[f]: "free", in use for an "open" connection, or for one
              \* that is "closed" and not destroyed yet

vars == <<token, phase>>

TypeOK ==
  /\ token \in [Fds -> SUBSET (Threads \cup {Epoll})]
  /\ phase \in [Fds -> {"free", "open", "closed"}]

Init ==
  /\ token = [f \in Fds |-> {}]
  /\ phase = [f \in Fds |-> "free"]

Accept(f) ==
  /\ phase[f] = "free"
  /\ phase' = [phase EXCEPT ![f] = "open"]
  /\ token' = [token EXCEPT ![f] = {T0}]

Arm(t, f) ==
  /\ token[f] = {t}
  /\ token' = [token EXCEPT ![f] = {Epoll}]
  /\ UNCHANGED phase

(* A worker gets the tokens of several descriptors at once.                 *)
Deliver(w, S) ==
  /\ \A f \in S : token[f] = {Epoll}
  /\ token' = [f \in Fds |-> IF f \in S THEN {w} ELSE token[f]]
  /\ UNCHANGED phase

Close(w, f) ==
  /\ token[f] = {w}
  /\ phase' = [phase EXCEPT ![f] = "closed"]
  /\ token' = [token EXCEPT ![f] = {}]

Free(f) ==
  /\ phase[f] = "closed"
  /\ phase' = [phase EXCEPT ![f] = "free"]
  /\ UNCHANGED token

Lose(t, f) ==
  /\ Lossy
  /\ token[f] = {t}
  /\ token' = [token EXCEPT ![f] = {}]
  /\ UNCHANGED phase

Next ==
  \/ \E f \in Fds : Accept(f) \/ Free(f)
  \/ \E t \in Threads, f \in Fds : Arm(t, f) \/ Lose(t, f)
  \/ \E w \in Workers, S \in SUBSET Fds : Deliver(w, S)
  \/ \E w \in Workers, f \in Fds : Close(w, f)

Spec == Init /\ [][Next]_vars

-----------------------------------------------------------------------------
(* A token is in one place only, and only that of an open connection; it is *)
(* nowhere only if it may get lost.                                         *)
OnePlace ==
  \A f \in Fds :
    /\ token[f] = {} \/ \E x \in Threads \cup {Epoll} : token[f] = {x}
    /\ phase[f] # "open" => token[f] = {}
    /\ phase[f] = "open" /\ ~Lossy => token[f] # {}

=============================================================================
