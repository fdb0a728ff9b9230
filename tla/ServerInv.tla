------------------------------ MODULE ServerInv ------------------------------
(***************************************************************************)
(* The inductive invariant behind SingleHandler, HandlerOnItsSocket,       *)
(* NoNullConn and CtlOpValid.                                              *)
(*                                                                         *)
(* The right to work on an open connection is a token.  It is in one place *)
(* at a time: in the kernel while the descriptor is armed, in a worker     *)
(* that has the event pending, or in the thread that works on the          *)
(* connection.  Delivering an event moves it to a worker, epoll_ctl moves  *)
(* it back, on_close destroys it.                                          *)
(***************************************************************************)
EXTENDS Server

(* Where a thread holds a shared_ptr.                                       *)
Holding == Working \cup {"reg_pub", "notify", "release"}

(* Where a worker works on a connection that is open.                       *)
Handling == {"in", "out", "on_rx", "on_tx", "reg_get", "reg_ctl", "close"}

Armed(f) == interest[f] \in {"in", "out"}

PcInv ==
  /\ pc[T0] \in T0Pc
  /\ \A w \in Workers : pc[w] \in WorkerPc \ {"null"}
  /\ \A t \in Threads : held[t] # NoConn <=> pc[t] \in Holding
  /\ \A t \in Threads :
       pc[t] = "reg_ctl" => op[t] = IF t = T0 THEN "add" ELSE "mod"

(* Objects and descriptors correspond one to one, and the pointers kept     *)
(* under a descriptor lead to its object.                                   *)
HandleInv ==
  /\ \A c, d \in Conns : handle[c] = handle[d] /\ handle[c] # NoFd => c = d
  /\ \A c \in Conns : handle[c] # NoFd => "open" \in skt[handle[c]]
  /\ \A f \in Fds : "open" \notin skt[f] => interest[f] = "none"
  /\ \A t \in Threads : held[t] # NoConn => handle[held[t]] \in Fds
  /\ \A f \in Fds : conns_[f] # NoConn => handle[conns_[f]] = f
  /\ \A f \in Fds : events_[f] # NoConn => handle[events_[f]] = f

(* A worker's event, the weak pointer it looked up and the connection it    *)
(* locked belong together.                                                  *)
EventInv ==
  /\ \A w \in Workers : pc[w] # "loop" => ev[w] \in Event
  /\ \A w \in Workers : held[w] # NoConn => handle[held[w]] = ev[w].fd
  /\ \A w \in Workers : weak[w] # NoConn =>
       /\ pc[w] \in {"check", "lock"}
       /\ conns_[ev[w].fd] = weak[w]
       /\ events_[ev[w].fd] = weak[w]
  /\ \A w \in Workers : pc[w] = "lock" => weak[w] # NoConn

(* What holds of a descriptor in each place its token can be.               *)
TokenInv ==
  /\ \A f \in Fds : Armed(f) => conns_[f] # NoConn
  /\ \A w \in Workers, f \in Fds :
       Pending(w, f) => interest[f] = "off" /\ conns_[f] # NoConn
  /\ \A w \in Workers : pc[w] \in Handling =>
       /\ interest[ev[w].fd] = "off"
       /\ conns_[ev[w].fd] = held[w]
       /\ events_[ev[w].fd] = held[w]
  /\ pc[T0] \in {"insert", "reg_get", "reg_ctl"} =>
       /\ interest[handle[held[T0]]] = "none"
       /\ events_[handle[held[T0]]] = NoConn
       /\ conns_[handle[held[T0]]] =
            IF pc[T0] = "insert" THEN NoConn ELSE held[T0]
       /\ \A u \in Threads : held[u] = held[T0] => u = T0
  /\ \A t \in Threads : pc[t] = "dtor" =>
       /\ conns_[handle[held[t]]] = NoConn
       /\ events_[handle[held[t]]] = NoConn
       /\ \A u \in Threads : held[u] = held[t] => u = t

(* No two workers have the token of the same descriptor, and none has it    *)
(* twice.                                                                   *)
UniqueInv ==
  /\ \A w, v \in Workers, f \in Fds : Pending(w, f) /\ Pending(v, f) => w = v
  /\ \A w \in Workers : \A e, d \in batch[w] : e.fd = d.fd => e = d
  /\ \A w \in Workers : pc[w] \in {"check", "lock"} =>
       \A e \in batch[w] : e.fd # ev[w].fd
  /\ \A w, v \in Workers :
       pc[v] \in Handling => ~Pending(w, ev[v].fd)
  /\ \A w, v \in Workers :
       pc[w] \in Handling /\ pc[v] \in Handling /\ ev[w].fd = ev[v].fd => w = v

(* The conjunction is inductive: the kernel's one-shot delivery in          *)
(* EpollWait, reg's order of epoll_ctl and publication, and on_close's      *)
(* erasure each preserve it only together with the other parts.             *)
IInv == TypeOK /\ PcInv /\ HandleInv /\ EventInv /\ TokenInv /\ UniqueInv

-----------------------------------------------------------------------------
(* Behind ConnLimit and SocketLimit: T0 accepts only when there is room and *)
(* nobody else takes it before T0 is done with the connection; and a socket *)
(* that is open has an entry in conns_ or a thread that holds its object.   *)
CapacityInv ==
  /\ ConnLimit
  /\ pc[T0] = "accept" => Cardinality(Open) < MaxConns
  /\ held[T0] # NoConn => Cardinality(Open \ {handle[held[T0]]}) < MaxConns
  /\ \A f \in Fds : "open" \in skt[f] =>
       f \in Open \/ \E t \in Threads : held[t] # NoConn /\ handle[held[t]] = f

=============================================================================
