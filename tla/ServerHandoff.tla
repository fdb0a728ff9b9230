---------------------------- MODULE ServerHandoff ----------------------------
(***************************************************************************)
(* Server implements Handoff.                                              *)
(***************************************************************************)
EXTENDS ServerInv

CONSTANT Epoll      \* stands for the kernel as a place of tokens

ASSUME EpollAssumption == Epoll \notin Threads

(* Thread t has the token of descriptor f: an event for it that it has not  *)
(* looked up, or the connection itself.                                     *)
Owns(t, f) ==
  IF t = T0
  THEN pc[T0] \in {"insert", "reg_get", "reg_ctl"} /\ handle[held[T0]] = f
  ELSE Pending(t, f) \/ (pc[t] \in Handling /\ ev[t].fd = f)

(* Between accept and Insert the connection is T0's own.                    *)
InUse(f) ==
  \/ conns_[f] # NoConn
  \/ pc[T0] = "insert" /\ handle[held[T0]] = f

Token ==
  [f \in Fds |-> {t \in Threads : Owns(t, f)}
                 \cup (IF Armed(f) THEN {Epoll} ELSE {})]

Phase ==
  [f \in Fds |-> IF "open" \notin skt[f] THEN "free"
                 ELSE IF InUse(f) THEN "open" ELSE "closed"]

(* A token gets lost when epoll_ctl fails, whose callers do not look at its *)
(* result, and when an event comes before its connection is published.      *)
H == INSTANCE Handoff WITH token <- Token, phase <- Phase,
                           Lossy <- CtlFails \/ EarlyPeer

(* Server implements Handoff: every step of reg, loop, on_conn, on_close    *)
(* and ~conn hands tokens over as Handoff allows, or none at all.           *)
HandoffSpec == H!Spec

-----------------------------------------------------------------------------
(* Behind NoOrphan: until a connection is published in events_ its socket   *)
(* stays as accept made it, so that no event for it can come before.        *)
QuietInv ==
  /\ pc[T0] \in {"insert", "reg_get", "reg_ctl"} =>
       skt[handle[held[T0]]] = FreshSocket
  /\ pc[T0] \in {"reg_get", "reg_ctl"} => want[T0] = "in"
  /\ \A f \in Fds : Armed(f) =>
       \/ events_[f] # NoConn
       \/ /\ pc[T0] = "reg_pub" /\ handle[held[T0]] = f
          /\ skt[f] = FreshSocket /\ interest[f] = "in"
  /\ \A w \in Workers, f \in Fds : Pending(w, f) => events_[f] # NoConn
  /\ \A w \in Workers : pc[w] = "check" => weak[w] # NoConn

=============================================================================
