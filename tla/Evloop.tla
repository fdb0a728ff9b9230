------------------------------- MODULE Evloop -------------------------------
(***************************************************************************)
(* beemo::evloop (linux/ev_epoll.cpp, ev/evloop.h) and the lifetime of the *)
(* connection objects it hands to its threads (http/conn.h).               *)
(*                                                                         *)
(* Every worker thread runs loop(): it takes a batch of events from        *)
(* epoll_wait, turns the descriptor of each into a connection through      *)
(* events_, a map of weak pointers, and calls handle_in or handle_out.     *)
(* The thread that accepts, T0, shares reg() with the workers.             *)
(*                                                                         *)
(* A connection object is a member of Conns.  shared_ptrs are the entries  *)
(* of the server's conns_ and the threads' held; the object is destroyed   *)
(* when the last one goes, at which moment the weak pointers to it expire: *)
(* NoConn is an expired or empty weak pointer.                             *)
(***************************************************************************)
EXTENDS Kernel

CONSTANTS
  Workers,    \* the pool threads running loop()
  T0,         \* the thread running server::start
  Conns,      \* connection objects
  NoConn,     \* no object: an empty pointer
  NoFd,       \* no descriptor
  CtlFails    \* TRUE: epoll_ctl may fail for lack of kernel memory

ASSUME ThreadsAssumption ==
  /\ IsFiniteSet(Workers) /\ T0 \notin Workers
  /\ NoConn \notin Conns
  /\ NoFd \notin Fds
  /\ CtlFails \in BOOLEAN

Threads == Workers \cup {T0}

VARIABLES
  pc,         \* where each thread is
  batch,      \* batch[w]: the events of its epoll_wait w has not looked at
  ev,         \* ev[w]: the event w is looking at
  weak,       \* weak[w]: loop()'s local ev_conn
  held,       \* held[t]: the shared_ptr of thread t
  want,       \* want[t]: the mask argument of reg()
  op,         \* op[t]: the local op of reg()
  events_,    \* evloop::events_
  conns_,     \* server::conns_
  handle,     \* handle[c]: conn::skt_->handle_; NoFd: c does not exist
  keepAlive,  \* conn_keep_alive is set in conn::status_
  buffered    \* conn::io_rx_ is not empty

threadVars == <<pc, batch, ev, weak, held, want, op>>
connVars   == <<handle, keepAlive, buffered>>
evloopVars == <<threadVars, events_, conns_, connVars>>

NoEvent == [fd |-> NoFd, mask |-> "err"]

WorkerPc == {"loop", "check", "lock", "null", "in", "out", "on_rx", "on_tx",
             "reg_get", "reg_ctl", "reg_pub", "close", "notify", "release",
             "dtor"}

T0Pc == {"capacity", "sleep", "accept", "insert", "reg_get", "reg_ctl",
         "reg_pub", "release", "dtor", "unwind", "stuck", "ended"}

EvloopTypeOK ==
  /\ pc \in [Threads -> WorkerPc \cup T0Pc]
  /\ batch \in [Workers -> SUBSET Event]
  /\ ev \in [Workers -> Event \cup {NoEvent}]
  /\ weak \in [Workers -> Conns \cup {NoConn}]
  /\ held \in [Threads -> Conns \cup {NoConn}]
  /\ want \in [Threads -> {"in", "out"}]
  /\ op \in [Threads -> {"add", "mod"}]
  /\ events_ \in [Fds -> Conns \cup {NoConn}]
  /\ conns_ \in [Fds -> Conns \cup {NoConn}]
  /\ handle \in [Conns -> Fds \cup {NoFd}]
  /\ keepAlive \in [Conns -> BOOLEAN]
  /\ buffered \in [Conns -> BOOLEAN]

EvloopInit ==
  /\ pc = [t \in Threads |-> IF t = T0 THEN "capacity" ELSE "loop"]
  /\ batch = [w \in Workers |-> {}]
  /\ ev = [w \in Workers |-> NoEvent]
  /\ weak = [w \in Workers |-> NoConn]
  /\ held = [t \in Threads |-> NoConn]
  /\ want = [t \in Threads |-> "in"]
  /\ op = [t \in Threads |-> "add"]
  /\ events_ = [f \in Fds |-> NoConn]
  /\ conns_ = [f \in Fds |-> NoConn]
  /\ handle = [c \in Conns |-> NoFd]
  /\ keepAlive = [c \in Conns |-> FALSE]
  /\ buffered = [c \in Conns |-> FALSE]

Goto(t, from, to) ==
  /\ pc[t] = from
  /\ pc' = [pc EXCEPT ![t] = to]

(* Where a thread goes on once it has let go of its connection.             *)
Resume(t) == IF t = T0 THEN "capacity" ELSE "loop"

-----------------------------------------------------------------------------
(* evloop::loop                                                             *)

EpollWait(w, S) ==
  /\ Goto(w, "loop", "loop")
  /\ batch[w] = {}
  /\ Deliverable(S)
  /\ batch' = [batch EXCEPT ![w] = {EventOf(f) : f \in S}]
  /\ interest' = SwitchOff(S)
  /\ UNCHANGED <<skt, ev, weak, held, want, op, events_, conns_, connVars>>

(* Take one event and look its connection up: get_event copies the weak     *)
(* pointer under events_mtx_.                                               *)
NextEvent(w) ==
  /\ Goto(w, "loop", "check")
  /\ \E e \in batch[w] :
       /\ batch' = [batch EXCEPT ![w] = @ \ {e}]
       /\ ev' = [ev EXCEPT ![w] = e]
       /\ weak' = [weak EXCEPT ![w] = events_[e.fd]]
  /\ UNCHANGED <<kernelVars, held, want, op, events_, conns_, connVars>>

(* ev_conn.expired(): the event is logged and dropped.                      *)
DropEvent(w) ==
  /\ weak[w] = NoConn
  /\ Goto(w, "check", "loop")
  /\ ev' = [ev EXCEPT ![w] = NoEvent]
  /\ UNCHANGED <<kernelVars, batch, weak, held, want, op, events_, conns_,
                 connVars>>

(* Mutant of NotExpired: the test is inverted.                              *)
NotExpiredDropped(w) ==
  /\ weak[w] # NoConn
  /\ Goto(w, "check", "loop")
  /\ ev' = [ev EXCEPT ![w] = NoEvent]
  /\ weak' = [weak EXCEPT ![w] = NoConn]
  /\ UNCHANGED <<kernelVars, batch, held, want, op, events_, conns_, connVars>>

NotExpired(w) ==
  /\ weak[w] # NoConn
  /\ Goto(w, "check", "lock")
  /\ UNCHANGED <<kernelVars, batch, ev, weak, held, want, op, events_, conns_,
                 connVars>>

(* Mutants of LockConn: EPOLLERR has no branch of its own; its branch logs  *)
(* and does not close.                                                      *)
LockConnNoErr(w) ==
  /\ Goto(w, "lock", IF weak[w] = NoConn THEN "null" ELSE ev[w].mask)
  /\ held' = [held EXCEPT ![w] = weak[w]]
  /\ weak' = [weak EXCEPT ![w] = NoConn]
  /\ UNCHANGED <<kernelVars, batch, ev, want, op, events_, conns_, connVars>>

LockConnLogsErr(w) ==
  /\ Goto(w, "lock", IF ev[w].mask = "err" THEN "release" ELSE ev[w].mask)
  /\ held' = [held EXCEPT ![w] = weak[w]]
  /\ weak' = [weak EXCEPT ![w] = NoConn]
  /\ UNCHANGED <<kernelVars, batch, ev, want, op, events_, conns_, connVars>>

(* ev_conn.lock() and the branch on the event mask.  Had the object died    *)
(* since the check, lock() would give a null pointer: "null".               *)
LockConn(w) ==
  /\ Goto(w, "lock", IF weak[w] = NoConn THEN "null"
                     ELSE IF ev[w].mask = "err" THEN "close"
                     ELSE ev[w].mask)
  /\ held' = [held EXCEPT ![w] = weak[w]]
  /\ weak' = [weak EXCEPT ![w] = NoConn]
  /\ UNCHANGED <<kernelVars, batch, ev, want, op, events_, conns_, connVars>>

-----------------------------------------------------------------------------
(* evloop::handle_in: conn::do_rx reads until recv would block (PARTIAL),   *)
(* returns 0 (COMPLETE: the peer has shut down, the connection will not be  *)
(* kept) or fails (ERROR: what was read is thrown away).  Anything buffered *)
(* goes to on_rx_; an empty buffer and an error go to on_close_.            *)
HandleIn(w) ==
  /\ pc[w] = "in"
  /\ LET c == held[w]
         f == handle[c]
         full == buffered[c] \/ "inq" \in skt[f]
     IN \/ /\ "rst" \in skt[f]
           /\ Goto(w, "in", "close")
           /\ UNCHANGED <<skt, buffered, keepAlive>>
        \/ /\ "rst" \notin skt[f]
           /\ skt' = [skt EXCEPT ![f] = @ \ {"inq"}]
           /\ buffered' = [buffered EXCEPT ![c] = full]
           /\ keepAlive' = [keepAlive EXCEPT ![c] = @ /\ "fin" \notin skt[f]]
           /\ Goto(w, "in", IF full THEN "on_rx" ELSE "close")
  /\ UNCHANGED <<interest, batch, ev, weak, held, want, op, events_, conns_,
                 handle>>

(* evloop::handle_out: conn::do_tx sends until everything is out            *)
(* (COMPLETE), send would block (PARTIAL: the rest is prepared again and    *)
(* the connection registered for output once more) or send fails (ERROR).   *)
HandleOut(w) ==
  /\ pc[w] = "out"
  /\ LET f == handle[held[w]]
     IN \/ /\ "rst" \in skt[f]
           /\ Goto(w, "out", "close")
           /\ UNCHANGED <<skt, want>>
        \/ /\ "rst" \notin skt[f]
           /\ \E rest \in {{}, {"space"}} : skt' = [skt EXCEPT ![f] = @ \ rest]
           /\ Goto(w, "out", "on_tx")
           /\ UNCHANGED want
        \/ /\ "rst" \notin skt[f]
           /\ skt' = [skt EXCEPT ![f] = @ \ {"space"}]
           /\ Goto(w, "out", "reg_get")
           /\ want' = [want EXCEPT ![w] = "out"]
  /\ UNCHANGED <<interest, batch, ev, weak, held, op, events_, conns_, connVars>>

-----------------------------------------------------------------------------
(* evloop::reg, in its three steps: choose the operation by what events_    *)
(* says, tell the kernel, and only then publish the connection in events_.  *)

RegGet(t) ==
  /\ Goto(t, "reg_get", "reg_ctl")
  /\ op' = [op EXCEPT ![t] =
              IF events_[handle[held[t]]] = NoConn THEN "add" ELSE "mod"]
  /\ UNCHANGED <<kernelVars, batch, ev, weak, held, want, events_, conns_,
                 connVars>>

RegCtl(t) ==
  /\ pc[t] = "reg_ctl"
  /\ LET f == handle[held[t]]
     IN \/ /\ CtlAccepts(op[t], f)
           /\ interest' = [interest EXCEPT ![f] = want[t]]
           /\ Goto(t, "reg_ctl", "reg_pub")
        \/ /\ CtlFails \/ ~CtlAccepts(op[t], f)
           /\ Goto(t, "reg_ctl", "release")
           /\ UNCHANGED interest
  /\ UNCHANGED <<skt, batch, ev, weak, held, want, op, events_, conns_, connVars>>

(* Mutant of RegPub: a connection that will not be kept is closed as soon   *)
(* as its last response is registered.                                      *)
RegPubCloses(t) ==
  /\ Goto(t, "reg_pub", IF t # T0 /\ ~keepAlive[held[t]] THEN "close"
                        ELSE "release")
  /\ events_' = [events_ EXCEPT ![handle[held[t]]] = held[t]]
  /\ UNCHANGED <<kernelVars, batch, ev, weak, held, want, op, conns_, connVars>>

RegPub(t) ==
  /\ Goto(t, "reg_pub", "release")
  /\ events_' = [events_ EXCEPT ![handle[held[t]]] = held[t]]
  /\ UNCHANGED <<kernelVars, batch, ev, weak, held, want, op, conns_, connVars>>

-----------------------------------------------------------------------------
(* The end of an iteration of loop(), or of on_conn: the thread's           *)
(* shared_ptr goes out of scope, as reg's locals have.  The last shared_ptr *)
(* destroys the object.                                                     *)

Shared(t, c) ==
  \/ \E u \in Threads \ {t} : held[u] = c
  \/ \E f \in Fds : conns_[f] = c

(* Mutant of Expire: events_ keeps plain pointers.                          *)
ExpireNever(ptr, c) == ptr

Expire(ptr, c) == [x \in DOMAIN ptr |-> IF ptr[x] = c THEN NoConn ELSE ptr[x]]

ForgetEvent(t) ==
  ev' = [w \in Workers |-> IF w = t THEN NoEvent ELSE ev[w]]

Release(t) ==
  /\ pc[t] = "release"
  /\ \/ /\ Shared(t, held[t])
        /\ Goto(t, "release", Resume(t))
        /\ held' = [held EXCEPT ![t] = NoConn]
        /\ ForgetEvent(t)
        /\ UNCHANGED <<weak, events_>>
     \/ /\ ~Shared(t, held[t])
        /\ Goto(t, "release", "dtor")
        /\ events_' = Expire(events_, held[t])
        /\ weak' = Expire(weak, held[t])
        /\ UNCHANGED <<held, ev>>
  /\ want' = [want EXCEPT ![t] = "in"]
  /\ op' = [op EXCEPT ![t] = "add"]
  /\ UNCHANGED <<kernelVars, batch, conns_, connVars>>

(* ~conn and with it ~socket: shutdown and close.                           *)
Destroy(t) ==
  /\ Goto(t, "dtor", Resume(t))
  /\ CloseFd(handle[held[t]])
  /\ handle' = [handle EXCEPT ![held[t]] = NoFd]
  /\ held' = [held EXCEPT ![t] = NoConn]
  /\ keepAlive' = [keepAlive EXCEPT ![held[t]] = FALSE]
  /\ buffered' = [buffered EXCEPT ![held[t]] = FALSE]
  /\ ForgetEvent(t)
  /\ UNCHANGED <<batch, weak, want, op, events_, conns_>>

=============================================================================
