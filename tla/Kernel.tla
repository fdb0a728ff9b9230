------------------------------- MODULE Kernel -------------------------------
(***************************************************************************)
(* The Linux side of Beemo: the connected sockets and the one epoll        *)
(* instance, as the code in linux/socket.cpp and linux/ev_epoll.cpp uses   *)
(* them.  A socket is reduced to what recv, send and epoll report of it;   *)
(* the bytes themselves belong to module Stream.                           *)
(*                                                                         *)
(* Every registration Beemo makes is EPOLLET | EPOLLONESHOT: a delivered   *)
(* event switches the descriptor off until the next epoll_ctl.  As each    *)
(* EPOLL_CTL_ADD and EPOLL_CTL_MOD looks at the readiness of the socket    *)
(* anew, an armed descriptor is reported as soon as it is ready.           *)
(***************************************************************************)
EXTENDS Naturals, FiniteSets

CONSTANTS
  Fds,        \* the socket descriptors accept() can return
  MaxEvents   \* config.max_events_per_thread: room in one epoll_wait

ASSUME MaxEventsAssumption == MaxEvents \in Nat \ {0}

(* A process has a bounded number of descriptors.                           *)
ASSUME FdsAssumption == IsFiniteSet(Fds)

VARIABLES
  skt,        \* skt[f]: the socket behind descriptor f
  interest    \* interest[f]: the epoll registration of f

kernelVars == <<skt, interest>>

(* "none": not in the epoll set; "off": disabled by EPOLLONESHOT.           *)
Interest == {"none", "off", "in", "out"}

(* A socket is the set of what holds of it.  inq: unread data; fin: the     *)
(* peer has shut down; rst: the connection is broken; space: the send       *)
(* buffer takes more.                                                       *)
Socket == SUBSET {"open", "inq", "fin", "rst", "space"}

Event == [fd: Fds, mask: {"err", "in", "out"}]

ClosedSocket == {}

FreshSocket == {"open", "space"}

(* Once the connection is broken what was queued no longer matters: recv    *)
(* and send end with an error whatever they transferred before.             *)
BrokenSocket == {"open", "rst"}

KernelTypeOK ==
  /\ skt \in [Fds -> Socket]
  /\ interest \in [Fds -> Interest]

KernelInit ==
  /\ skt = [f \in Fds |-> ClosedSocket]
  /\ interest = [f \in Fds |-> "none"]

-----------------------------------------------------------------------------
(* What epoll reports.  A broken connection is reported as EPOLLERR         *)
(* whatever was asked for; a peer that has shut down makes the socket       *)
(* readable (recv returns 0).                                               *)

Readable(f) == "inq" \in skt[f] \/ "fin" \in skt[f]

Ready(f) ==
  \/ interest[f] \in {"in", "out"} /\ "rst" \in skt[f]
  \/ interest[f] = "in" /\ Readable(f)
  \/ interest[f] = "out" /\ "space" \in skt[f]

EventOf(f) == [fd |-> f, mask |-> IF "rst" \in skt[f] THEN "err" ELSE interest[f]]

(* epoll_wait takes the ready descriptors S and, as they are one-shot,      *)
(* switches them off.                                                       *)
Deliverable(S) ==
  /\ S # {}
  /\ Cardinality(S) <= MaxEvents
  /\ \A f \in S : Ready(f)

(* Mutant of SwitchOff: registrations without EPOLLONESHOT.                 *)
SwitchOffNever(S) == interest

SwitchOff(S) == [f \in Fds |-> IF f \in S THEN "off" ELSE interest[f]]

(* epoll_ctl rejects an ADD of a member (EEXIST) and a MOD of a             *)
(* non-member (ENOENT).                                                     *)
CtlAccepts(op, f) == (op = "add") <=> (interest[f] = "none")

-----------------------------------------------------------------------------
(* The peer at the other end of the connection.                             *)

PeerSend(f) ==
  /\ "open" \in skt[f] /\ skt[f] \cap {"inq", "fin", "rst"} = {}
  /\ skt' = [skt EXCEPT ![f] = @ \cup {"inq"}]
  /\ UNCHANGED interest

PeerShutdown(f) ==
  /\ "open" \in skt[f] /\ skt[f] \cap {"fin", "rst"} = {}
  /\ skt' = [skt EXCEPT ![f] = @ \cup {"fin"}]
  /\ UNCHANGED interest

PeerReset(f) ==
  /\ "open" \in skt[f] /\ "rst" \notin skt[f]
  /\ skt' = [skt EXCEPT ![f] = BrokenSocket]
  /\ UNCHANGED interest

(* The peer's acknowledgements free room in the send buffer.                *)
PeerDrain(f) ==
  /\ "open" \in skt[f] /\ skt[f] \cap {"rst", "space"} = {}
  /\ skt' = [skt EXCEPT ![f] = @ \cup {"space"}]
  /\ UNCHANGED interest

Peer(f) == PeerSend(f) \/ PeerShutdown(f) \/ PeerReset(f) \/ PeerDrain(f)

-----------------------------------------------------------------------------
(* ::accept returns a descriptor that is not in use; close() frees it and   *)
(* takes it out of the epoll set.                                           *)

AcceptFd(f) ==
  /\ "open" \notin skt[f]
  /\ skt' = [skt EXCEPT ![f] = FreshSocket]

CloseFd(f) ==
  /\ skt' = [skt EXCEPT ![f] = ClosedSocket]
  /\ interest' = [interest EXCEPT ![f] = "none"]

=============================================================================
