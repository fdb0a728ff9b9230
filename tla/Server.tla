------------------------------- MODULE Server -------------------------------
(***************************************************************************)
(* beemo::server (http/server.cpp) on top of the event loop: the accept    *)
(* loop of T0, the callbacks the workers call, and the destructor that     *)
(* runs when accepting fails.                                              *)
(***************************************************************************)
EXTENDS Evloop

CONSTANTS
  MaxConns,     \* config.max_concurrent_connections
  EarlyPeer,    \* TRUE: a peer may act before its connection is published
  AcceptFails   \* TRUE: accept (or fcntl on the new socket) may fail

ASSUME ServerAssumption ==
  /\ MaxConns \in Nat \ {0}
  /\ EarlyPeer \in BOOLEAN
  /\ AcceptFails \in BOOLEAN

VARIABLE
  mtxHeld       \* ~server is inside its critical section on conn_mtx_

vars == <<kernelVars, evloopVars, mtxHeld>>

Init ==
  /\ KernelInit
  /\ EvloopInit
  /\ mtxHeld = FALSE

(* The keys of conns_.                                                      *)
Open == {f \in Fds : conns_[f] # NoConn}

-----------------------------------------------------------------------------
(* server::start, run by T0                                                 *)

(* Mutant of WaitCapacity: <= for <.                                        *)
WaitCapacityOffByOne ==
  /\ ~mtxHeld
  /\ Goto(T0, "capacity",
          IF Cardinality(Open) <= MaxConns THEN "accept" ELSE "sleep")
  /\ UNCHANGED <<kernelVars, batch, ev, weak, held, want, op, events_, conns_,
                 connVars, mtxHeld>>

(* conn_cond_.wait: test the predicate and go to sleep if it is false.      *)
WaitCapacity ==
  /\ ~mtxHeld
  /\ Goto(T0, "capacity",
          IF Cardinality(Open) < MaxConns THEN "accept" ELSE "sleep")
  /\ UNCHANGED <<kernelVars, batch, ev, weak, held, want, op, events_, conns_,
                 connVars, mtxHeld>>

SpuriousWakeup ==
  /\ Goto(T0, "sleep", "capacity")
  /\ UNCHANGED <<kernelVars, batch, ev, weak, held, want, op, events_, conns_,
                 connVars, mtxHeld>>

(* acceptor::accept and the construction of the connection in on_conn.      *)
Accept ==
  /\ Goto(T0, "accept", "insert")
  /\ \E f \in Fds, c \in Conns :
       /\ handle[c] = NoFd
       /\ AcceptFd(f)
       /\ handle' = [handle EXCEPT ![c] = f]
       /\ keepAlive' = [keepAlive EXCEPT ![c] = TRUE]
       /\ buffered' = [buffered EXCEPT ![c] = FALSE]
       /\ held' = [held EXCEPT ![T0] = c]
  /\ UNCHANGED <<interest, batch, ev, weak, want, op, events_, conns_, mtxHeld>>

(* A transport_err makes start() return; main destroys the server.          *)
AcceptError ==
  /\ AcceptFails
  /\ Goto(T0, "accept", "unwind")
  /\ UNCHANGED <<kernelVars, batch, ev, weak, held, want, op, events_, conns_,
                 connVars, mtxHeld>>

(* Mutant of Insert: the connection is registered and not owned.            *)
InsertForgotten ==
  /\ ~mtxHeld
  /\ Goto(T0, "insert", "reg_get")
  /\ want' = [want EXCEPT ![T0] = "in"]
  /\ UNCHANGED <<kernelVars, batch, ev, weak, held, op, events_, conns_,
                 connVars, mtxHeld>>

(* The rest of on_conn up to the call of reg: conns_ owns the connection.   *)
Insert ==
  /\ ~mtxHeld
  /\ Goto(T0, "insert", "reg_get")
  /\ conns_' = [conns_ EXCEPT ![handle[held[T0]]] = held[T0]]
  /\ want' = [want EXCEPT ![T0] = "in"]
  /\ UNCHANGED <<kernelVars, batch, ev, weak, held, op, events_, connVars,
                 mtxHeld>>

(* ~server locks conn_mtx_ and calls on_close for every open connection,    *)
(* which locks the same mutex again: with a connection open T0 never gets   *)
(* past the first one and never gives the mutex back.                       *)
Destructor ==
  /\ ~mtxHeld
  /\ Goto(T0, "unwind", IF Open = {} THEN "ended" ELSE "stuck")
  /\ mtxHeld' = (Open # {})
  /\ UNCHANGED <<kernelVars, batch, ev, weak, held, want, op, events_, conns_,
                 connVars>>

-----------------------------------------------------------------------------
(* The callbacks, run by the workers                                        *)

(* server::on_rx.  What the parser makes of the buffer (module Stream) is   *)
(* left open: an incomplete request, a response, or an error response after *)
(* which the connection is not kept.                                        *)
OnRx(w) ==
  /\ Goto(w, "on_rx", "reg_get")
  /\ \/ /\ want' = [want EXCEPT ![w] = "in"]
        /\ UNCHANGED keepAlive
     \/ /\ want' = [want EXCEPT ![w] = "out"]
        /\ UNCHANGED keepAlive
     \/ /\ want' = [want EXCEPT ![w] = "out"]
        /\ keepAlive' = [keepAlive EXCEPT ![held[w]] = FALSE]
  /\ UNCHANGED <<kernelVars, batch, ev, weak, held, op, events_, conns_, handle,
                 buffered, mtxHeld>>

(* Mutant of OnTx: a kept connection is not registered again.               *)
OnTxNotRegistered(w) ==
  /\ Goto(w, "on_tx", IF keepAlive[held[w]] THEN "release" ELSE "close")
  /\ UNCHANGED <<kernelVars, batch, ev, weak, held, want, op, events_, conns_,
                 connVars, mtxHeld>>

(* server::on_tx.  reset_state clears the request and the response, not     *)
(* io_rx_.                                                                  *)
OnTx(w) ==
  /\ pc[w] = "on_tx"
  /\ IF keepAlive[held[w]]
     THEN /\ Goto(w, "on_tx", "reg_get")
          /\ want' = [want EXCEPT ![w] = "in"]
     ELSE /\ Goto(w, "on_tx", "close")
          /\ UNCHANGED want
  /\ UNCHANGED <<kernelVars, batch, ev, weak, held, op, events_, conns_,
                 connVars, mtxHeld>>

(* Mutant of OnClose: no notify_one.                                        *)
OnCloseSilent(w) ==
  /\ ~mtxHeld
  /\ Goto(w, "close", "release")
  /\ conns_' = [conns_ EXCEPT ![handle[held[w]]] = NoConn]
  /\ UNCHANGED <<kernelVars, batch, ev, weak, held, want, op, events_, connVars,
                 mtxHeld>>

(* server::on_close: erase under conn_mtx_, then notify.                    *)
OnClose(w) ==
  /\ ~mtxHeld
  /\ Goto(w, "close", "notify")
  /\ conns_' = [conns_ EXCEPT ![handle[held[w]]] = NoConn]
  /\ UNCHANGED <<kernelVars, batch, ev, weak, held, want, op, events_, connVars,
                 mtxHeld>>

Notify(w) ==
  /\ pc[w] = "notify"
  /\ pc' = [pc EXCEPT ![w] = "release",
                      ![T0] = IF @ = "sleep" THEN "capacity" ELSE @]
  /\ UNCHANGED <<kernelVars, batch, ev, weak, held, want, op, events_, conns_,
                 connVars, mtxHeld>>

-----------------------------------------------------------------------------
(* Next                                                                     *)

(* Outside its two callbacks a peer acts on any socket; without EarlyPeer   *)
(* only once a lookup of the descriptor finds the connection.               *)
PeerStep(f) ==
  /\ EarlyPeer \/ events_[f] # NoConn
  /\ Peer(f)
  /\ UNCHANGED <<evloopVars, mtxHeld>>

(* The steps a worker takes inside one iteration of loop().                 *)
Iterate(w) ==
  \/ OnRx(w) \/ OnTx(w) \/ OnClose(w) \/ Notify(w)
  \/ /\ \/ NextEvent(w) \/ DropEvent(w) \/ NotExpired(w) \/ LockConn(w)
        \/ HandleIn(w) \/ HandleOut(w)
        \/ RegGet(w) \/ RegCtl(w) \/ RegPub(w) \/ Release(w) \/ Destroy(w)
     /\ UNCHANGED mtxHeld

Poll(w, S) == EpollWait(w, S) /\ UNCHANGED mtxHeld

(* The steps of T0 that wait for nobody outside the process.                *)
Acceptor ==
  \/ WaitCapacity \/ Insert \/ Destructor
  \/ (RegGet(T0) \/ RegCtl(T0) \/ RegPub(T0) \/ Release(T0) \/ Destroy(T0))
     /\ UNCHANGED mtxHeld

Next ==
  \/ \E w \in Workers, S \in SUBSET Fds : Poll(w, S)
  \/ \E w \in Workers : Iterate(w)
  \/ Acceptor
  \/ Accept
  \/ AcceptError
  \/ SpuriousWakeup
  \/ \E f \in Fds : PeerStep(f)

Spec == Init /\ [][Next]_vars

-----------------------------------------------------------------------------
(* Who may use a connection                                                 *)

(* Thread t is working on connection c: it reads or writes its members, or  *)
(* is about to.  Between a successful epoll_ctl and the end of its          *)
(* iteration it only keeps the object alive.                                *)
Working == {"insert", "in", "out", "on_rx", "on_tx", "reg_get", "reg_ctl",
            "close", "dtor"}

Touching(t, c) == held[t] = c /\ pc[t] \in Working

(* Where a worker may hold a connection that conns_ no longer has.          *)
LettingGo == {"reg_pub", "notify", "release", "dtor"}

(* Worker w has an event for descriptor f that it has not looked up yet.    *)
Pending(w, f) ==
  \/ \E e \in batch[w] : e.fd = f
  \/ pc[w] \in {"check", "lock"} /\ ev[w].fd = f

-----------------------------------------------------------------------------
(* Properties                                                               *)

TypeOK ==
  /\ KernelTypeOK
  /\ EvloopTypeOK
  /\ mtxHeld \in BOOLEAN

(* No two threads work on the same connection at a time, although conn has  *)
(* no lock: EPOLLONESHOT and the order of the steps of reg, on_conn and     *)
(* on_close hand it from one thread to the next.                            *)
SingleHandler ==
  \A c \in Conns : \A t, u \in Threads :
    Touching(t, c) /\ Touching(u, c) => t = u

(* A handler works on the connection the event was raised for, its socket   *)
(* is open and conns_ still owns it: descriptors that are closed and reused *)
(* never lead an old event to a new connection.                             *)
HandlerOnItsSocket ==
  \A w \in Workers :
    pc[w] \in {"in", "out", "on_rx", "on_tx", "reg_get", "reg_ctl", "close"} =>
      /\ held[w] # NoConn
      /\ handle[held[w]] = ev[w].fd
      /\ "open" \in skt[ev[w].fd]
      /\ conns_[ev[w].fd] = held[w]

(* weak_ptr::lock after the expired() test never yields a null pointer.     *)
NoNullConn == \A w \in Workers : pc[w] # "null"

(* The operation reg chooses from events_ is the one the kernel accepts.    *)
CtlOpValid ==
  \A t \in Threads :
    pc[t] = "reg_ctl" => CtlAccepts(op[t], handle[held[t]])

(* conns_ never holds more than max_concurrent_connections.                 *)
ConnLimit == Cardinality(Open) <= MaxConns

(* Descriptors outlive their entry in conns_ while a worker still holds the *)
(* connection: there are never more sockets than max_concurrent_connections *)
(* allows and the workers that are letting go of one.                       *)
SocketLimit ==
  Cardinality({f \in Fds : "open" \in skt[f]}) <=
    MaxConns + Cardinality({w \in Workers : pc[w] \in LettingGo})

(* T0 never sleeps with room in conns_ unless a notification is on its way. *)
NoLostWakeup ==
  pc[T0] = "sleep" /\ Cardinality(Open) < MaxConns =>
    \E w \in Workers : pc[w] = "notify"

(* Every open connection is armed in epoll, in an event some worker is yet  *)
(* to handle, or in the hands of a thread: nothing waits for an event that  *)
(* cannot come.                                                             *)
NoOrphan ==
  \A f \in Open :
    \/ interest[f] \in {"in", "out"}
    \/ \E w \in Workers : Pending(w, f)
    \/ \E t \in Threads : Touching(t, conns_[f])

-----------------------------------------------------------------------------
(* Liveness.  The scheduler runs every thread that can run.  epoll's ready  *)
(* list is a queue, so a descriptor that stays ready is delivered as long   *)
(* as workers keep polling.  Peers, accept and the choice of a spurious     *)
(* wakeup are not fair.                                                     *)

Fairness ==
  /\ \A w \in Workers : WF_vars(Iterate(w))
  /\ WF_vars(Acceptor)
  /\ \A f \in Fds :
       SF_vars(\E w \in Workers, S \in SUBSET Fds : f \in S /\ Poll(w, S))

FairSpec == Spec /\ Fairness

(* Input that arrives on a connection armed for input is read.              *)
InputServed ==
  \A f \in Fds : interest[f] = "in" /\ "inq" \in skt[f] ~> "inq" \notin skt[f]

(* A broken connection is taken out of conns_.                              *)
ResetClosed ==
  \A f \in Fds : f \in Open /\ "rst" \in skt[f] ~> f \notin Open

(* A closed connection makes a sleeping acceptor accept again.              *)
AcceptorResumes ==
  pc[T0] = "sleep" /\ Cardinality(Open) < MaxConns ~> pc[T0] = "accept"

=============================================================================
