---------------------------- MODULE ServerProofs -----------------------------
(***************************************************************************)
(* Beemo's connections have no lock.  Here is the proof that the event     *)
(* loop hands each of them from thread to thread without one: the          *)
(* invariant IInv of ServerInv is inductive, and the properties of Server  *)
(* about who works on a connection follow from it.  That is so for any     *)
(* sets of workers, descriptors and connection objects, any limits, and    *)
(* whatever the peers do, with or without failing epoll_ctl and accept.    *)
(***************************************************************************)
EXTENDS ServerInv, FiniteSetTheorems, TLAPS

-----------------------------------------------------------------------------
(* Types                                                                    *)

(* The sockets the kernel makes, and a socket that gains or loses a flag.   *)
LEMMA SocketTypes ==
  /\ ClosedSocket \in Socket /\ FreshSocket \in Socket /\ BrokenSocket \in Socket
  /\ \A s \in Socket :
       /\ \A a : s \ a \in Socket
       /\ \A a \in {"inq", "fin", "space"} : s \cup {a} \in Socket
BY DEF ClosedSocket, FreshSocket, BrokenSocket, Socket

(* Every step keeps the variables in their types.                           *)
LEMMA TypeStep == TypeOK /\ [Next]_vars => TypeOK'
<1> SUFFICES ASSUME TypeOK, [Next]_vars
             PROVE  TypeOK'
  OBVIOUS
<1> USE ThreadsAssumption
    DEF TypeOK, KernelTypeOK, EvloopTypeOK, Goto, Threads, kernelVars,
        connVars, T0Pc, WorkerPc
<1>1. ASSUME NEW w \in Workers, NEW S \in SUBSET Fds, Poll(w, S)
      PROVE  TypeOK'
  BY <1>1 DEF Poll, EpollWait, Deliverable, Ready, SwitchOff, EventOf, Event,
              Interest, Socket
<1>2. ASSUME NEW w \in Workers, NextEvent(w), UNCHANGED mtxHeld
      PROVE  TypeOK'
  BY <1>2 DEF NextEvent, Event
<1>3. ASSUME NEW w \in Workers, DropEvent(w) \/ NotExpired(w), UNCHANGED mtxHeld
      PROVE  TypeOK'
  BY <1>3 DEF DropEvent, NotExpired
<1>4. ASSUME NEW w \in Workers, LockConn(w), UNCHANGED mtxHeld
      PROVE  TypeOK'
  BY <1>4 DEF LockConn, Event, NoEvent
<1>5. ASSUME NEW w \in Workers, HandleIn(w), UNCHANGED mtxHeld
      PROVE  TypeOK'
  <2>1. skt' \in [Fds -> Socket]
    BY <1>5, SMT DEF HandleIn, Socket
  <2>2. /\ buffered' \in [Conns -> BOOLEAN]
        /\ keepAlive' \in [Conns -> BOOLEAN]
    BY <1>5 DEF HandleIn
  <2>3. QED
    BY <1>5, <2>1, <2>2 DEF HandleIn
<1>6. ASSUME NEW w \in Workers, HandleOut(w), UNCHANGED mtxHeld
      PROVE  TypeOK'
  <2>1. skt' \in [Fds -> Socket]
    BY <1>6, SMT DEF HandleOut, Socket
  <2>2. QED
    BY <1>6, <2>1 DEF HandleOut
<1>7. ASSUME NEW t \in Threads, RegGet(t), UNCHANGED mtxHeld
      PROVE  TypeOK'
  BY <1>7 DEF RegGet
<1>8. ASSUME NEW t \in Threads, RegCtl(t), UNCHANGED mtxHeld
      PROVE  TypeOK'
  BY <1>8 DEF RegCtl, Interest
<1>9. ASSUME NEW t \in Threads, RegPub(t), UNCHANGED mtxHeld
      PROVE  TypeOK'
  BY <1>9 DEF RegPub
<1>10. ASSUME NEW t \in Threads, Release(t), UNCHANGED mtxHeld
       PROVE  TypeOK'
  <2>1. ev' \in [Workers -> Event \cup {NoEvent}]
    BY <1>10 DEF Release, ForgetEvent
  <2>2. /\ weak' \in [Workers -> Conns \cup {NoConn}]
        /\ events_' \in [Fds -> Conns \cup {NoConn}]
        /\ held' \in [Threads -> Conns \cup {NoConn}]
    BY <1>10 DEF Release, Expire
  <2>3. pc' \in [Threads -> WorkerPc \cup T0Pc]
    BY <1>10 DEF Release, Resume
  <2>4. QED
    BY <1>10, <2>1, <2>2, <2>3 DEF Release
<1>11. ASSUME NEW t \in Threads, Destroy(t), UNCHANGED mtxHeld
       PROVE  TypeOK'
  <2>1. ev' \in [Workers -> Event \cup {NoEvent}]
    BY <1>11 DEF Destroy, ForgetEvent
  <2>2. skt' \in [Fds -> Socket] /\ interest' \in [Fds -> Interest]
    BY <1>11, SocketTypes DEF Destroy, CloseFd, Interest
  <2>3. pc' \in [Threads -> WorkerPc \cup T0Pc]
    BY <1>11 DEF Destroy, Resume
  <2>4. /\ handle' \in [Conns -> Fds \cup {NoFd}]
        /\ held' \in [Threads -> Conns \cup {NoConn}]
        /\ keepAlive' \in [Conns -> BOOLEAN]
        /\ buffered' \in [Conns -> BOOLEAN]
    BY <1>11 DEF Destroy
  <2>5. UNCHANGED <<batch, weak, want, op, events_, conns_>>
    BY <1>11 DEF Destroy
  <2>6. QED
    BY <1>11, <2>1, <2>2, <2>3, <2>4, <2>5
<1>12. ASSUME NEW w \in Workers, OnRx(w) \/ OnTx(w) \/ OnClose(w) \/ Notify(w)
       PROVE  TypeOK'
  <2>1. CASE OnRx(w)
    BY <2>1 DEF OnRx
  <2>2. CASE OnTx(w)
    BY <2>2 DEF OnTx
  <2>3. CASE OnClose(w) \/ Notify(w)
    BY <2>3 DEF OnClose, Notify
  <2>4. QED
    BY <1>12, <2>1, <2>2, <2>3
<1>13. CASE WaitCapacity \/ Insert \/ Destructor \/ AcceptError \/ SpuriousWakeup
  <2>1. CASE WaitCapacity \/ AcceptError \/ SpuriousWakeup
    BY <2>1 DEF WaitCapacity, AcceptError, SpuriousWakeup
  <2>2. CASE Insert
    BY <2>2 DEF Insert
  <2>3. CASE Destructor
    BY <2>3 DEF Destructor
  <2>4. QED
    BY <1>13, <2>1, <2>2, <2>3
<1>14. CASE Accept
  BY <1>14, SocketTypes DEF Accept, AcceptFd
<1>15. ASSUME NEW f \in Fds, PeerStep(f)
       PROVE  TypeOK'
  <2>1. skt' \in [Fds -> Socket]
    BY <1>15
       DEF PeerStep, Peer, PeerSend, PeerShutdown, PeerReset, PeerDrain,
           BrokenSocket, Socket
  <2>2. QED
    BY <1>15, <2>1 DEF PeerStep, Peer, PeerSend, PeerShutdown, PeerReset,
                       PeerDrain, evloopVars, threadVars
<1>16. CASE UNCHANGED vars
  BY <1>16 DEF vars, evloopVars, threadVars
<1>17. QED
  BY <1>1, <1>2, <1>3, <1>4, <1>5, <1>6, <1>7, <1>8, <1>9, <1>10, <1>11, <1>12,
     <1>13, <1>14, <1>15, <1>16
     DEF Next, Iterate, Acceptor

(* So do the initial values.                                                *)
LEMMA InitType == Init => TypeOK
<1> SUFFICES ASSUME Init PROVE TypeOK
  OBVIOUS
<1>1. KernelTypeOK
  BY SocketTypes DEF Init, KernelInit, KernelTypeOK, Interest
<1>2. pc \in [Threads -> WorkerPc \cup T0Pc]
  BY DEF Init, EvloopInit, WorkerPc, T0Pc
<1>3. EvloopTypeOK
  BY <1>2 DEF Init, EvloopInit, EvloopTypeOK
<1>4. QED
  BY <1>1, <1>3 DEF Init, TypeOK

(* Each variable of the event loop, the kernel and the server keeps its     *)
(* type in every reachable state.                                           *)
THEOREM TypeCorrect == Spec => []TypeOK
BY InitType, TypeStep, PTL DEF Spec

-----------------------------------------------------------------------------
(* Who works on a connection                                                *)

(* UniqueInv speaks of the workers that have a token.  A step in which no   *)
(* worker receives one keeps it.                                            *)
LEMMA NoTokenMoves ==
  ASSUME UniqueInv, batch' = batch,
         \A v \in Workers : pc'[v] \in Handling =>
           pc[v] \in Handling /\ ev'[v] = ev[v],
         \A v \in Workers : pc'[v] \in {"check", "lock"} =>
           pc[v] \in {"check", "lock"} /\ ev'[v] = ev[v]
  PROVE  UniqueInv'
<1>1. \A v \in Workers : \A f : Pending(v, f)' => Pending(v, f)
  BY DEF Pending
<1>2. \A v \in Workers : pc'[v] \in Handling => ev'[v].fd = ev[v].fd
  OBVIOUS
<1>3. QED
  BY <1>1, <1>2 DEF UniqueInv

(* EpollWait takes tokens out of the kernel.                                *)
LEMMA PollStep ==
  ASSUME IInv, TypeOK', NEW w \in Workers, NEW S \in SUBSET Fds, Poll(w, S)
  PROVE  IInv'
<1> USE ThreadsAssumption
    DEF IInv, TypeOK, KernelTypeOK, EvloopTypeOK, Goto, Threads, connVars,
        Poll, EpollWait
<1>0. /\ pc' = pc
      /\ batch[w] = {}
      /\ \A f \in S : Armed(f) /\ interest'[f] = "off"
      /\ \A f \in Fds \ S : interest'[f] = interest[f]
      /\ \A e \in batch'[w] : e.fd \in S
      /\ \A e, d \in batch'[w] : e.fd = d.fd => e = d
  BY DEF Deliverable, Ready, SwitchOff, EventOf, Armed
<1>1. PcInv'
  BY <1>0 DEF PcInv
<1>2. HandleInv'
  BY <1>0 DEF HandleInv, Armed
<1>3. EventInv'
  BY <1>0 DEF EventInv
<1>4. \A v \in Workers, f \in Fds :
        Pending(v, f)' => Pending(v, f) \/ (v = w /\ f \in S)
  BY <1>0 DEF Pending
<1>5. TokenInv'
  <2>1. \A f \in Fds : Armed(f)' => Armed(f)
    BY <1>0 DEF Armed
  <2>2. \A f \in S : conns_[f] # NoConn
    BY <1>0 DEF TokenInv
  <2>3. \A v \in Workers, f \in Fds :
          Pending(v, f)' => interest'[f] = "off" /\ conns_[f] # NoConn
    BY <1>0, <1>4, <2>2 DEF TokenInv
  <2>4. \A f \in Fds : ~Armed(f) => interest'[f] = interest[f]
    BY <1>0
  <2>5. \A v \in Workers : pc[v] \in Handling => ev[v].fd \in Fds
    BY DEF EventInv, Handling, Event
  <2>6. pc[T0] \in {"insert", "reg_get", "reg_ctl"} => handle[held[T0]] \in Fds
    BY DEF PcInv, HandleInv, Holding, Working
  <2>7. QED
    BY <1>0, <2>1, <2>2, <2>3, <2>4, <2>5, <2>6 DEF TokenInv, Armed
<1>6. UniqueInv'
  <2>1. \A v \in Workers, f \in S : ~Pending(v, f)
    BY <1>0 DEF TokenInv, Armed
  <2>2. \A v \in Workers : pc[v] \in Handling => ev[v].fd \in Fds \ S
    BY <1>0 DEF TokenInv, Armed, EventInv, Handling, Event
  <2>3. \A v, u \in Workers, f \in Fds :
          Pending(v, f)' /\ Pending(u, f)' => v = u
    BY <1>4, <2>1 DEF UniqueInv
  <2>4. \A v \in Workers : \A e, d \in batch'[v] : e.fd = d.fd => e = d
    BY <1>0 DEF UniqueInv
  <2>5. \A v \in Workers : pc[v] \in {"check", "lock"} =>
          \A e \in batch'[v] : e.fd # ev[v].fd
    BY <1>0 DEF UniqueInv
  <2>6. \A v, u \in Workers : pc[u] \in Handling => ~Pending(v, ev[u].fd)'
    BY <1>4, <2>2 DEF UniqueInv
  <2>7. QED
    BY <1>0, <2>3, <2>4, <2>5, <2>6 DEF UniqueInv
<1>7. QED
  BY <1>1, <1>2, <1>3, <1>5, <1>6

(* NextEvent looks the connection of a pending event up.                    *)
LEMMA NextEventStep ==
  ASSUME IInv, TypeOK', NEW w \in Workers, NextEvent(w)
  PROVE  IInv'
<1> USE ThreadsAssumption
    DEF IInv, TypeOK, KernelTypeOK, EvloopTypeOK, Goto, Threads, kernelVars,
        connVars, NextEvent
<1>1. PcInv'
  BY DEF PcInv, Holding, Working, T0Pc, WorkerPc
<1>2. HandleInv'
  BY DEF HandleInv
<1>3. EventInv'
  <2> PICK e \in batch[w] :
        /\ ev' = [ev EXCEPT ![w] = e]
        /\ weak' = [weak EXCEPT ![w] = events_[e.fd]]
    OBVIOUS
  <2>1. e \in Event /\ e.fd \in Fds /\ Pending(w, e.fd)
    BY DEF Event, Pending
  <2>2. events_[e.fd] # NoConn => conns_[e.fd] = events_[e.fd]
    BY <2>1 DEF TokenInv, HandleInv
  <2>3. held[w] = NoConn
    BY DEF PcInv, Holding, Working
  <2>4. QED
    BY <2>1, <2>2, <2>3 DEF EventInv
<1>4. TokenInv'
  BY DEF TokenInv, PcInv, Pending, Armed, Handling, Holding, Working
<1>5. UniqueInv'
  BY DEF UniqueInv, Pending, Handling
<1>6. QED
  BY <1>1, <1>2, <1>3, <1>4, <1>5

(* The two outcomes of the test expired().                                  *)
LEMMA ExpiredStep ==
  ASSUME IInv, TypeOK', NEW w \in Workers, DropEvent(w) \/ NotExpired(w)
  PROVE  IInv'
<1> USE ThreadsAssumption
    DEF IInv, TypeOK, KernelTypeOK, EvloopTypeOK, Goto, Threads, kernelVars,
        connVars
<1>1. CASE DropEvent(w)
  <2> USE <1>1 DEF DropEvent
  <2>1. PcInv'
    BY DEF PcInv, Holding, Working, T0Pc, WorkerPc
  <2>2. HandleInv' /\ EventInv'
    BY DEF HandleInv, EventInv, PcInv, Holding, Working
  <2>3. TokenInv'
    BY DEF TokenInv, PcInv, Pending, Armed, Handling, Holding, Working
  <2>4. UniqueInv'
    BY NoTokenMoves DEF Handling
  <2>5. QED
    BY <2>1, <2>2, <2>3, <2>4
<1>2. CASE NotExpired(w)
  <2> USE <1>2 DEF NotExpired
  <2>1. PcInv'
    BY DEF PcInv, Holding, Working, T0Pc, WorkerPc
  <2>2. HandleInv' /\ EventInv'
    BY DEF HandleInv, EventInv
  <2>3. TokenInv'
    BY DEF TokenInv, PcInv, Pending, Armed, Handling, Holding, Working
  <2>4. UniqueInv'
    BY NoTokenMoves DEF Handling
  <2>5. QED
    BY <2>1, <2>2, <2>3, <2>4
<1>3. QED
  BY <1>1, <1>2

(* lock() turns a pending event into work on the connection.                *)
LEMMA LockStep ==
  ASSUME IInv, TypeOK', NEW w \in Workers, LockConn(w)
  PROVE  IInv'
<1> USE ThreadsAssumption
    DEF IInv, TypeOK, KernelTypeOK, EvloopTypeOK, Goto, Threads, kernelVars,
        connVars, LockConn
<1>0. /\ weak[w] # NoConn /\ held'[w] = weak[w]
      /\ pc'[w] \in {"in", "out", "close"}
      /\ ev[w].fd \in Fds
      /\ conns_[ev[w].fd] = weak[w] /\ events_[ev[w].fd] = weak[w]
      /\ handle[weak[w]] = ev[w].fd
      /\ Pending(w, ev[w].fd)
  BY DEF EventInv, HandleInv, Event, Pending
<1>1. PcInv'
  BY <1>0 DEF PcInv, Holding, Working, T0Pc, WorkerPc
<1>2. HandleInv'
  BY <1>0 DEF HandleInv
<1>3. EventInv'
  BY <1>0 DEF EventInv
<1>4. TokenInv'
  BY <1>0 DEF TokenInv, PcInv, Pending, Armed, Handling, Holding, Working
<1>5. UniqueInv'
  BY <1>0 DEF UniqueInv, Pending, Handling
<1>6. QED
  BY <1>1, <1>2, <1>3, <1>4, <1>5

(* The handlers move between the places where a worker works on an open     *)
(* connection; what they change besides is of no concern to the tokens.     *)
LEMMA HandlerStep ==
  ASSUME IInv, TypeOK', NEW w \in Workers,
         HandleIn(w) \/ HandleOut(w) \/ OnRx(w) \/ OnTx(w)
  PROVE  IInv'
<1> USE ThreadsAssumption
    DEF IInv, TypeOK, KernelTypeOK, EvloopTypeOK, Goto, Threads, kernelVars,
        connVars
<1>0. /\ pc[w] \in {"in", "out", "on_rx", "on_tx"}
      /\ pc' = [pc EXCEPT ![w] = pc'[w]]
      /\ pc'[w] \in {"on_rx", "on_tx", "reg_get", "close"}
      /\ UNCHANGED <<interest, batch, ev, weak, held, op, events_, conns_,
                     handle>>
      /\ \A f \in Fds : "open" \in skt'[f] <=> "open" \in skt[f]
  <2>1. CASE HandleIn(w)
    BY <2>1 DEF HandleIn
  <2>2. CASE HandleOut(w)
    BY <2>2 DEF HandleOut
  <2>3. CASE OnRx(w) \/ OnTx(w)
    BY <2>3 DEF OnRx, OnTx
  <2>4. QED
    BY <2>1, <2>2, <2>3
<1>1. PcInv'
  BY <1>0 DEF PcInv, Holding, Working, T0Pc, WorkerPc
<1>2. HandleInv'
  BY <1>0 DEF HandleInv
<1>3. EventInv'
  BY <1>0 DEF EventInv
<1>4. TokenInv'
  BY <1>0 DEF TokenInv, Pending, Armed, Handling
<1>5. UniqueInv'
  BY <1>0, NoTokenMoves DEF Handling
<1>6. QED
  BY <1>1, <1>2, <1>3, <1>4, <1>5

(* reg: choosing the operation.                                             *)
LEMMA RegGetStep ==
  ASSUME IInv, TypeOK', NEW t \in Threads, RegGet(t)
  PROVE  IInv'
<1> USE ThreadsAssumption
    DEF IInv, TypeOK, KernelTypeOK, EvloopTypeOK, Goto, Threads, kernelVars,
        connVars, RegGet
<1>1. PcInv'
  BY DEF PcInv, TokenInv, EventInv, HandleInv, Handling, Holding, Working, T0Pc,
         WorkerPc
<1>2. HandleInv' /\ EventInv'
  BY DEF HandleInv, EventInv
<1>3. TokenInv'
  BY DEF TokenInv, Pending, Armed, Handling
<1>4. UniqueInv'
  BY NoTokenMoves DEF Handling
<1>5. QED
  BY <1>1, <1>2, <1>3, <1>4

(* reg: epoll_ctl gives the token back to the kernel, or fails and loses it. *)
LEMMA RegCtlStep ==
  ASSUME IInv, TypeOK', NEW t \in Threads, RegCtl(t)
  PROVE  IInv'
<1> USE ThreadsAssumption
    DEF IInv, TypeOK, KernelTypeOK, EvloopTypeOK, Goto, Threads, kernelVars,
        connVars, RegCtl
<1> DEFINE f == handle[held[t]]
<1>0. /\ f \in Fds /\ conns_[f] = held[t] /\ held[t] # NoConn
      /\ \A g \in Fds : g # f => interest'[g] = interest[g]
      /\ \A w \in Workers : ~Pending(w, f)
      /\ \A w \in Workers : pc[w] \in Handling /\ ev[w].fd = f => w = t
      /\ pc' = [pc EXCEPT ![t] = pc'[t]] /\ pc'[t] \in {"reg_pub", "release"}
  <2>1. held[t] # NoConn /\ f \in Fds
    BY DEF PcInv, HandleInv, Holding, Working
  <2>2. CASE t = T0
    <3>1. conns_[f] = held[t] /\ interest[f] = "none"
      BY <2>2 DEF TokenInv
    <3>2. QED
      BY <2>1, <2>2, <3>1 DEF TokenInv, EventInv, Handling, Event
  <2>3. CASE t \in Workers
    <3>1. ev[t].fd = f /\ conns_[f] = held[t] /\ pc[t] \in Handling
      BY <2>1, <2>3 DEF EventInv, TokenInv, Handling
    <3>2. QED
      BY <2>1, <2>3, <3>1 DEF UniqueInv
  <2>4. QED
    BY <2>2, <2>3
<1>1. PcInv'
  BY <1>0 DEF PcInv, Holding, Working, T0Pc, WorkerPc
<1>2. HandleInv'
  BY <1>0 DEF HandleInv
<1>3. EventInv'
  BY <1>0 DEF EventInv
<1>4. \A w \in Workers, g \in Fds : Pending(w, g)' => Pending(w, g) /\ g # f
  BY <1>0 DEF Pending
<1>5. TokenInv'
  <2>1. \A g \in Fds : Armed(g)' => conns_[g] # NoConn
    BY <1>0 DEF TokenInv, Armed
  <2>2. \A w \in Workers : pc'[w] \in Handling =>
          pc[w] \in Handling /\ ev[w].fd \in Fds \ {f}
    BY <1>0 DEF EventInv, Handling, Event
  <2>3. pc'[T0] \in {"insert", "reg_get", "reg_ctl"} =>
          /\ pc'[T0] = pc[T0]
          /\ handle[held[T0]] \in Fds \ {f}
    BY <1>0 DEF TokenInv, PcInv, HandleInv, Holding, Working
  <2>4. QED
    BY <1>0, <1>4, <2>1, <2>2, <2>3 DEF TokenInv
<1>6. UniqueInv'
  BY <1>0, NoTokenMoves DEF Handling
<1>7. QED
  BY <1>1, <1>2, <1>3, <1>5, <1>6

(* reg: publishing the connection, when it may long be in other hands.      *)
LEMMA RegPubStep ==
  ASSUME IInv, TypeOK', NEW t \in Threads, RegPub(t)
  PROVE  IInv'
<1> USE ThreadsAssumption
    DEF IInv, TypeOK, KernelTypeOK, EvloopTypeOK, Goto, Threads, kernelVars,
        connVars, RegPub
<1> DEFINE f == handle[held[t]]
<1>0. /\ f \in Fds /\ held[t] # NoConn /\ held[t] \in Conns
      /\ events_' = [events_ EXCEPT ![f] = held[t]]
      /\ \A c \in Conns : handle[c] = f => c = held[t]
  BY DEF PcInv, HandleInv, Holding, Working
<1>1. PcInv'
  BY DEF PcInv, Holding, Working, T0Pc, WorkerPc
<1>2. HandleInv'
  BY <1>0 DEF HandleInv
<1>3. EventInv'
  BY <1>0 DEF EventInv, HandleInv
<1>4. TokenInv'
  <2>1. \A w \in Workers : pc'[w] \in Handling =>
          pc[w] \in Handling /\ events_'[ev[w].fd] = held[w]
    BY <1>0 DEF TokenInv, EventInv, PcInv, Handling, Holding, Working, Event
  <2>2. pc'[T0] \in {"insert", "reg_get", "reg_ctl"} =>
          pc'[T0] = pc[T0] /\ handle[held[T0]] # f
    BY <1>0 DEF TokenInv, PcInv, Holding, Working
  <2>3. \A u \in Threads : pc'[u] = "dtor" =>
          pc[u] = "dtor" /\ handle[held[u]] # f
    BY <1>0 DEF TokenInv, PcInv, Holding, Working
  <2>4. QED
    BY <1>0, <2>1, <2>2, <2>3 DEF TokenInv, Pending, Armed
<1>5. UniqueInv'
  BY NoTokenMoves DEF Handling
<1>6. QED
  BY <1>1, <1>2, <1>3, <1>4, <1>5

(* A thread lets go of its shared_ptr.  If it was the last one, no weak     *)
(* pointer that somebody is about to lock expires with the object.          *)
LEMMA ReleaseStep ==
  ASSUME IInv, TypeOK', NEW t \in Threads, Release(t)
  PROVE  IInv'
<1> USE ThreadsAssumption
    DEF IInv, TypeOK, KernelTypeOK, EvloopTypeOK, Goto, Threads, kernelVars,
        connVars, Release
<1> DEFINE c == held[t]
           f == handle[c]
<1>0. /\ c \in Conns /\ f \in Fds
      /\ \A d \in Conns : handle[d] = f => d = c
  BY DEF PcInv, HandleInv, Holding, Working
<1>1. CASE Shared(t, c)
  <2>0. /\ pc' = [pc EXCEPT ![t] = Resume(t)]
        /\ held' = [held EXCEPT ![t] = NoConn]
        /\ \A w \in Workers : w # t => ev'[w] = ev[w]
        /\ UNCHANGED <<weak, events_>>
    BY <1>1 DEF ForgetEvent
  <2>1. PcInv'
    BY <2>0 DEF PcInv, Resume, Holding, Working, T0Pc, WorkerPc
  <2>2. HandleInv'
    BY <2>0 DEF HandleInv
  <2>3. EventInv'
    BY <2>0 DEF EventInv, PcInv, Resume, Holding, Working
  <2>4. TokenInv'
    <3>1. \A u \in Threads : u # t => pc'[u] = pc[u] /\ held'[u] = held[u]
      BY <2>0
    <3>2. pc'[t] \in {"loop", "capacity"} /\ held'[t] = NoConn
      BY <2>0 DEF Resume
    <3>3. \A w \in Workers, g \in Fds : Pending(w, g)' => Pending(w, g)
      BY <2>0, <3>1, <3>2 DEF Pending
    <3>4. \A w \in Workers : pc'[w] \in Handling =>
            pc[w] \in Handling /\ ev'[w] = ev[w] /\ held'[w] = held[w]
      BY <2>0, <3>1, <3>2 DEF Handling
    <3>5. \A u \in Threads : pc[u] \in Holding => held[u] # NoConn
      BY DEF PcInv
    <3>6. QED
      BY <2>0, <3>1, <3>2, <3>3, <3>4, <3>5
         DEF TokenInv, Armed, Holding, Working
  <2>5. UniqueInv'
    BY <2>0, NoTokenMoves DEF Resume, Handling
  <2>6. QED
    BY <2>1, <2>2, <2>3, <2>4, <2>5
<1>2. CASE ~Shared(t, c)
  <2>0. /\ pc' = [pc EXCEPT ![t] = "dtor"]
        /\ \A g \in Fds : events_'[g] = IF events_[g] = c THEN NoConn ELSE events_[g]
        /\ UNCHANGED <<held, ev>>
        /\ \A u \in Threads : held[u] = c => u = t
        /\ \A g \in Fds : conns_[g] # c
    BY <1>2 DEF Shared, Expire
  <2>1. weak' = weak
    <3>1. \A w \in Workers : weak[w] # c
      BY <1>0, <2>0 DEF EventInv, Event
    <3>2. weak' = [w \in Workers |-> weak[w]]
      BY <1>2, <3>1 DEF Expire
    <3>3. QED
      BY <3>2
  <2>2. PcInv'
    BY <2>0 DEF PcInv, Holding, Working, T0Pc, WorkerPc
  <2>3. HandleInv'
    BY <2>0 DEF HandleInv
  <2>4. EventInv'
    BY <2>0, <2>1 DEF EventInv, Event
  <2>5. TokenInv'
    <3>1. conns_[f] = NoConn /\ events_'[f] = NoConn
      BY <1>0, <2>0 DEF HandleInv
    <3>2. \A w \in Workers : pc[w] \in Handling =>
            events_'[ev[w].fd] = held[w]
      BY <2>0 DEF TokenInv, EventInv, Handling, Event
    <3>3. \A w \in Workers, g \in Fds : Pending(w, g)' => Pending(w, g)
      BY <2>0 DEF Pending
    <3>4. \A u \in Threads : pc[u] \in Holding => handle[held[u]] \in Fds
      BY DEF PcInv, HandleInv
    <3>5. QED
      BY <2>0, <3>1, <3>2, <3>3, <3>4
         DEF TokenInv, Armed, Handling, Holding, Working
  <2>6. UniqueInv'
    BY <2>0, NoTokenMoves DEF Handling
  <2>7. QED
    BY <2>2, <2>3, <2>4, <2>5, <2>6
<1>3. QED
  BY <1>1, <1>2

(* The destructor closes a descriptor nobody else has anything to do with.  *)
LEMMA DestroyStep ==
  ASSUME IInv, TypeOK', NEW t \in Threads, Destroy(t)
  PROVE  IInv'
<1> USE ThreadsAssumption
    DEF IInv, TypeOK, KernelTypeOK, EvloopTypeOK, Goto, Threads, kernelVars,
        connVars, Destroy
<1> DEFINE c == held[t]
           f == handle[c]
<1>0. /\ c \in Conns /\ f \in Fds
      /\ conns_[f] = NoConn /\ events_[f] = NoConn
      /\ \A u \in Threads : held[u] = c => u = t
      /\ \A d \in Conns : handle[d] = f => d = c
      /\ skt' = [skt EXCEPT ![f] = {}]
      /\ interest' = [interest EXCEPT ![f] = "none"]
      /\ handle' = [handle EXCEPT ![c] = NoFd]
      /\ held' = [held EXCEPT ![t] = NoConn]
      /\ pc' = [pc EXCEPT ![t] = Resume(t)]
      /\ \A w \in Workers : w # t => ev'[w] = ev[w]
  BY DEF TokenInv, PcInv, HandleInv, Holding, Working, CloseFd, ClosedSocket,
         ForgetEvent
<1>1. PcInv'
  BY <1>0 DEF PcInv, Resume, Holding, Working, T0Pc, WorkerPc
<1>2. HandleInv'
  BY <1>0 DEF HandleInv
<1>3. EventInv'
  BY <1>0 DEF EventInv, PcInv, Resume, Holding, Working
<1>4. TokenInv'
  <2>1. \A w \in Workers, g \in Fds : Pending(w, g)' => Pending(w, g) /\ g # f
    BY <1>0 DEF Pending, Resume, TokenInv
  <2>2. \A w \in Workers : pc'[w] \in Handling =>
          /\ pc[w] \in Handling /\ ev'[w] = ev[w] /\ held'[w] = held[w]
          /\ ev[w].fd \in Fds \ {f}
    BY <1>0 DEF Handling, Resume, TokenInv, EventInv, Event, PcInv, Holding,
                Working
  <2>3. \A u \in Threads : u # t /\ pc[u] \in Holding =>
          /\ held'[u] = held[u] /\ held[u] # c /\ held[u] # NoConn
          /\ handle'[held[u]] = handle[held[u]]
          /\ handle[held[u]] \in Fds \ {f}
    BY <1>0 DEF PcInv, HandleInv
  <2>4. \A u \in Threads : u # t => pc'[u] = pc[u] /\ held'[u] = held[u]
    BY <1>0
  <2>5. pc'[t] \in {"loop", "capacity"} /\ held'[t] = NoConn
    BY <1>0 DEF Resume
  <2>6. QED
    BY <1>0, <2>1, <2>2, <2>3, <2>4, <2>5
       DEF TokenInv, Armed, Holding, Working
<1>5. UniqueInv'
  BY <1>0, NoTokenMoves DEF Resume, Handling
<1>6. QED
  BY <1>1, <1>2, <1>3, <1>4, <1>5

(* on_close destroys the token together with the entry of conns_.           *)
LEMMA OnCloseStep ==
  ASSUME IInv, TypeOK', NEW w \in Workers, OnClose(w)
  PROVE  IInv'
<1> USE ThreadsAssumption
    DEF IInv, TypeOK, KernelTypeOK, EvloopTypeOK, Goto, Threads, kernelVars,
        connVars, OnClose
<1> DEFINE f == ev[w].fd
<1>0. /\ f \in Fds /\ handle[held[w]] = f /\ interest[f] = "off"
      /\ held[w] # NoConn
      /\ conns_' = [conns_ EXCEPT ![f] = NoConn]
      /\ \A v \in Workers : ~Pending(v, f)
      /\ \A v \in Workers : pc[v] \in Handling /\ ev[v].fd = f => v = w
  <2>1. held[w] # NoConn
    BY DEF PcInv, Holding, Working
  <2>2. f \in Fds /\ handle[held[w]] = f /\ pc[w] \in Handling
    BY <2>1 DEF EventInv, Event, Handling
  <2>3. interest[f] = "off"
    BY <2>2 DEF TokenInv
  <2>4. /\ \A v \in Workers : ~Pending(v, f)
        /\ \A v \in Workers : pc[v] \in Handling /\ ev[v].fd = f => v = w
    BY <2>2 DEF UniqueInv
  <2>5. QED
    BY <2>1, <2>2, <2>3, <2>4
<1>1. PcInv'
  BY DEF PcInv, Holding, Working, T0Pc, WorkerPc
<1>2. HandleInv'
  BY <1>0 DEF HandleInv
<1>3. EventInv'
  BY <1>0 DEF EventInv, Pending, Event
<1>4. TokenInv'
  <2>1. \A v \in Workers, g \in Fds : Pending(v, g)' => Pending(v, g) /\ g # f
    BY <1>0 DEF Pending
  <2>2. \A v \in Workers : pc'[v] \in Handling =>
          pc[v] \in Handling /\ ev[v].fd \in Fds \ {f}
    BY <1>0 DEF Handling, EventInv, Event
  <2>3. pc[T0] \in {"insert", "reg_get", "reg_ctl"} => handle[held[T0]] \in Fds \ {f}
    BY <1>0 DEF TokenInv, PcInv, HandleInv, Holding, Working
  <2>4. QED
    BY <1>0, <2>1, <2>2, <2>3 DEF TokenInv, Armed
<1>5. UniqueInv'
  BY NoTokenMoves DEF Handling
<1>6. QED
  BY <1>1, <1>2, <1>3, <1>4, <1>5

(* accept finds a descriptor no pointer leads to.                           *)
LEMMA AcceptStep ==
  ASSUME IInv, TypeOK', Accept
  PROVE  IInv'
<1> USE ThreadsAssumption
    DEF IInv, TypeOK, KernelTypeOK, EvloopTypeOK, Goto, Threads, kernelVars,
        connVars, Accept
<1> PICK f \in Fds, c \in Conns :
      /\ handle[c] = NoFd
      /\ AcceptFd(f)
      /\ handle' = [handle EXCEPT ![c] = f]
      /\ held' = [held EXCEPT ![T0] = c]
  OBVIOUS
<1>0. /\ "open" \notin skt[f] /\ skt' = [skt EXCEPT ![f] = FreshSocket]
      /\ "open" \in FreshSocket
      /\ interest[f] = "none" /\ conns_[f] = NoConn /\ events_[f] = NoConn
      /\ \A d \in Conns : handle[d] # f
      /\ \A u \in Threads : held[u] # c
      /\ \A g \in Fds : conns_[g] # c /\ events_[g] # c
  BY DEF AcceptFd, FreshSocket, HandleInv
<1>1. PcInv'
  BY DEF PcInv, Holding, Working, T0Pc, WorkerPc
<1>2. HandleInv'
  BY <1>0 DEF HandleInv
<1>3. EventInv'
  BY <1>0 DEF EventInv
<1>4. TokenInv'
  <2>1. \A u \in Workers : pc[u] \in Holding =>
          /\ held'[u] = held[u] /\ held[u] # c /\ held[u] # NoConn
          /\ handle'[held[u]] = handle[held[u]]
    BY <1>0 DEF PcInv
  <2>2. QED
    BY <1>0, <2>1 DEF TokenInv, Pending, Armed, Handling, Holding, Working
<1>5. UniqueInv'
  BY NoTokenMoves DEF Handling
<1>6. QED
  BY <1>1, <1>2, <1>3, <1>4, <1>5

(* on_conn enters the connection in conns_ before it registers it.          *)
LEMMA InsertStep ==
  ASSUME IInv, TypeOK', Insert
  PROVE  IInv'
<1> USE ThreadsAssumption
    DEF IInv, TypeOK, KernelTypeOK, EvloopTypeOK, Goto, Threads, kernelVars,
        connVars, Insert
<1> DEFINE f == handle[held[T0]]
<1>0. /\ held[T0] # NoConn /\ f \in Fds
      /\ interest[f] = "none" /\ conns_[f] = NoConn
      /\ conns_' = [conns_ EXCEPT ![f] = held[T0]]
  BY DEF PcInv, HandleInv, TokenInv, Holding, Working
<1>1. PcInv'
  BY DEF PcInv, Holding, Working, T0Pc, WorkerPc
<1>2. HandleInv'
  BY <1>0 DEF HandleInv
<1>3. EventInv'
  BY <1>0 DEF EventInv, Event
<1>4. TokenInv'
  <2>1. \A w \in Workers : pc[w] \in Handling => ev[w].fd \in Fds \ {f}
    BY <1>0 DEF TokenInv, EventInv, Event, Handling
  <2>2. \A u \in Threads : pc[u] = "dtor" => handle[held[u]] # f
    BY <1>0 DEF TokenInv, PcInv, HandleInv, Holding, Working
  <2>3. QED
    BY <1>0, <2>1, <2>2 DEF TokenInv, Pending, Armed, Handling
<1>5. UniqueInv'
  BY NoTokenMoves DEF Handling
<1>6. QED
  BY <1>1, <1>2, <1>3, <1>4, <1>5

(* Steps that only move T0 between places where it holds no connection, and *)
(* a worker's notification.                                                 *)
LEMMA ControlStep ==
  ASSUME IInv, TypeOK',
         \/ WaitCapacity \/ Destructor \/ AcceptError \/ SpuriousWakeup
         \/ \E w \in Workers : Notify(w)
  PROVE  IInv'
<1> USE ThreadsAssumption
    DEF IInv, TypeOK, KernelTypeOK, EvloopTypeOK, Goto, Threads, kernelVars,
        connVars
<1> DEFINE Outside == {"capacity", "sleep", "accept", "unwind", "stuck", "ended"}
<1>0. /\ pc'[T0] = pc[T0] \/ (pc[T0] \in Outside /\ pc'[T0] \in Outside)
      /\ \A w \in Workers :
           pc'[w] = pc[w] \/ (pc[w] = "notify" /\ pc'[w] = "release")
      /\ UNCHANGED <<skt, interest, batch, ev, weak, held, op, events_, conns_,
                     handle>>
  BY DEF WaitCapacity, Destructor, AcceptError, SpuriousWakeup, Notify
<1>1. PcInv'
  BY <1>0 DEF PcInv, Holding, Working, T0Pc, WorkerPc
<1>2. HandleInv'
  BY <1>0 DEF HandleInv
<1>3. EventInv'
  BY <1>0 DEF EventInv
<1>4. TokenInv'
  BY <1>0 DEF TokenInv, Pending, Armed, Handling
<1>5. UniqueInv'
  BY <1>0, NoTokenMoves DEF Handling
<1>6. QED
  BY <1>1, <1>2, <1>3, <1>4, <1>5

(* Whatever the peer does, an open socket stays open; and a stuttering step. *)
LEMMA PeerOrStutterStep ==
  ASSUME IInv, TypeOK', (\E f \in Fds : PeerStep(f)) \/ UNCHANGED vars
  PROVE  IInv'
<1> USE ThreadsAssumption
    DEF IInv, TypeOK, KernelTypeOK, EvloopTypeOK, Goto, Threads, kernelVars,
        connVars
<1>0. /\ \A f \in Fds : "open" \in skt'[f] <=> "open" \in skt[f]
      /\ UNCHANGED <<interest, pc, batch, ev, weak, held, op, events_, conns_,
                     handle>>
  BY DEF PeerStep, Peer, PeerSend, PeerShutdown, PeerReset, PeerDrain,
         BrokenSocket, evloopVars, threadVars, vars
<1>1. PcInv' /\ HandleInv' /\ EventInv'
  BY <1>0 DEF PcInv, HandleInv, EventInv
<1>2. TokenInv' /\ UniqueInv'
  BY <1>0 DEF TokenInv, UniqueInv, Pending, Armed
<1>3. QED
  BY <1>1, <1>2

(* IInv holds in every reachable state.                                     *)
THEOREM Inductive == Spec => []IInv
<1>1. Init => IInv
  <2> SUFFICES ASSUME Init PROVE IInv
    OBVIOUS
  <2> USE ThreadsAssumption DEF Init, KernelInit, EvloopInit, Threads
  <2>1. TypeOK
    BY InitType
  <2>2. PcInv
    BY DEF PcInv, Holding, Working, T0Pc, WorkerPc
  <2>3. HandleInv /\ EventInv
    BY DEF HandleInv, EventInv
  <2>4. TokenInv /\ UniqueInv
    BY DEF TokenInv, UniqueInv, Pending, Armed, Handling
  <2>5. QED
    BY <2>1, <2>2, <2>3, <2>4 DEF IInv
<1>2. IInv /\ [Next]_vars => IInv'
  <2> SUFFICES ASSUME IInv, [Next]_vars PROVE IInv'
    OBVIOUS
  <2>1. TypeOK'
    BY TypeStep DEF IInv
  <2>2. \A w \in Workers : Iterate(w) => IInv'
    BY <2>1, HandlerStep, OnCloseStep, ControlStep, NextEventStep, ExpiredStep,
       LockStep, RegGetStep, RegCtlStep, RegPubStep, ReleaseStep, DestroyStep
       DEF Iterate, Threads
  <2>3. Acceptor => IInv'
    BY <2>1, ControlStep, InsertStep, RegGetStep, RegCtlStep, RegPubStep,
       ReleaseStep, DestroyStep DEF Acceptor, Threads
  <2>4. QED
    BY <2>1, <2>2, <2>3, PollStep, AcceptStep, ControlStep, PeerOrStutterStep
       DEF Next
<1>3. QED
  BY <1>1, <1>2, PTL DEF Spec

(* No two threads work on the same connection at a time.                    *)
THEOREM OneThread == Spec => []SingleHandler
<1>1. IInv => SingleHandler
  <2> SUFFICES ASSUME IInv, NEW c \in Conns, NEW t \in Threads,
                      NEW u \in Threads, Touching(t, c), Touching(u, c)
               PROVE  t = u
    BY DEF SingleHandler
  <2>1. CASE pc[t] = "dtor" \/ pc[u] = "dtor"
    BY <2>1 DEF IInv, TokenInv, Touching
  <2>2. CASE t = T0 /\ pc[t] # "dtor"
    <3>1. pc[T0] \in {"insert", "reg_get", "reg_ctl"}
      BY <2>2 DEF IInv, PcInv, Touching, Working, T0Pc
    <3>2. QED
      BY <2>2, <3>1 DEF IInv, TokenInv, Touching
  <2>3. CASE u = T0 /\ pc[u] # "dtor"
    <3>1. pc[T0] \in {"insert", "reg_get", "reg_ctl"}
      BY <2>3 DEF IInv, PcInv, Touching, Working, T0Pc
    <3>2. QED
      BY <2>3, <3>1 DEF IInv, TokenInv, Touching
  <2>4. CASE t \in Workers /\ u \in Workers /\ pc[t] # "dtor" /\ pc[u] # "dtor"
    <3>1. pc[t] \in Handling /\ pc[u] \in Handling
      BY <2>4 DEF IInv, PcInv, Touching, Working, Handling, WorkerPc
    <3>2. c # NoConn
      BY ThreadsAssumption
    <3>3. ev[t].fd = ev[u].fd
      BY <2>4, <3>2 DEF IInv, EventInv, Touching
    <3>4. QED
      BY <2>4, <3>1, <3>3 DEF IInv, UniqueInv
  <2>5. QED
    BY <2>1, <2>2, <2>3, <2>4 DEF Threads
<1>2. QED
  BY <1>1, Inductive, PTL

(* A handler works on the open socket its event was raised for.             *)
THEOREM RightSocket == Spec => []HandlerOnItsSocket
<1>1. IInv => HandlerOnItsSocket
  <2> SUFFICES ASSUME IInv, NEW w \in Workers, pc[w] \in Handling
               PROVE  /\ held[w] # NoConn
                      /\ handle[held[w]] = ev[w].fd
                      /\ "open" \in skt[ev[w].fd]
                      /\ conns_[ev[w].fd] = held[w]
    BY DEF HandlerOnItsSocket, Handling
  <2>1. held[w] # NoConn /\ held[w] \in Conns
    BY DEF IInv, TypeOK, EvloopTypeOK, PcInv, Handling, Holding, Working, Threads
  <2>2. handle[held[w]] = ev[w].fd /\ handle[held[w]] \in Fds
    BY <2>1 DEF IInv, EventInv, HandleInv, Threads
  <2>3. "open" \in skt[ev[w].fd]
    BY <2>1, <2>2, ThreadsAssumption DEF IInv, HandleInv
  <2>4. QED
    BY <2>1, <2>2, <2>3 DEF IInv, TokenInv
<1>2. QED
  BY <1>1, Inductive, PTL

(* lock() never yields a null pointer after the expired() test.             *)
THEOREM LockSucceeds == Spec => []NoNullConn
<1>1. IInv => NoNullConn
  BY DEF IInv, PcInv, NoNullConn
<1>2. QED
  BY <1>1, Inductive, PTL

(* reg chooses the operation the kernel accepts.                            *)
LEMMA CtlChoice == IInv => CtlOpValid
<1> SUFFICES ASSUME IInv, NEW t \in Threads, pc[t] = "reg_ctl"
             PROVE  CtlAccepts(op[t], handle[held[t]])
  BY DEF CtlOpValid
<1>1. CASE t = T0
  BY <1>1 DEF IInv, PcInv, TokenInv, CtlAccepts
<1>2. CASE t \in Workers
  <2>1. held[t] # NoConn /\ pc[t] \in Handling
    BY DEF IInv, PcInv, Holding, Working, Handling
  <2>2. interest[handle[held[t]]] = "off"
    BY <1>2, <2>1 DEF IInv, EventInv, TokenInv
  <2>3. op[t] = "mod"
    BY <1>2, ThreadsAssumption DEF IInv, PcInv
  <2>4. QED
    BY <2>2, <2>3 DEF CtlAccepts
<1>3. QED
  BY <1>1, <1>2 DEF Threads

(* epoll_ctl accepts what reg asks for in every reachable state.            *)
THEOREM CtlOpCorrect == Spec => []CtlOpValid
BY CtlChoice, Inductive, PTL

-----------------------------------------------------------------------------
(* The server keeps to max_concurrent_connections, in conns_ and in open    *)
(* descriptors, and the acceptor's sleep is always ended.                   *)

(* conns_ is finite, and so is every part of it.                            *)
LEMMA OpenFinite ==
  \A S \in SUBSET Fds : IsFiniteSet(S) /\ Cardinality(S) \in Nat
BY FdsAssumption, FS_Subset, FS_CardinalityType

(* A smaller set of descriptors has no more elements.                       *)
LEMMA FewerFds ==
  \A S, T \in SUBSET Fds : S \subseteq T => Cardinality(S) <= Cardinality(T)
BY OpenFinite, FS_Subset

(* A step that leaves conns_ alone, brings T0 to accept() only if it was    *)
(* there and takes a thread off an open socket only if somebody else is     *)
(* left to own it, keeps CapacityInv.                                       *)
LEMMA CapacityKept ==
  ASSUME CapacityInv, UNCHANGED <<conns_, handle>>,
         pc'[T0] = "accept" => pc[T0] = "accept",
         held'[T0] \in {held[T0], NoConn},
         \A f \in Fds : "open" \in skt'[f] => "open" \in skt[f],
         \A f \in Fds, t \in Threads :
           "open" \in skt'[f] /\ held[t] # NoConn /\ handle[held[t]] = f =>
             \/ f \in Open
             \/ \E u \in Threads : held'[u] # NoConn /\ handle[held'[u]] = f
  PROVE  CapacityInv'
<1>1. Open' = Open
  BY DEF Open
<1>2. QED
  BY <1>1 DEF CapacityInv, ConnLimit

(* The capacity is respected by every step.                                 *)
LEMMA CapacityStep ==
  ASSUME IInv, IInv', CapacityInv, [Next]_vars
  PROVE  CapacityInv'
<1> USE ThreadsAssumption
    DEF TypeOK, KernelTypeOK, EvloopTypeOK, Goto, Threads, kernelVars, connVars
<1>a. TypeOK /\ TypeOK'
  BY DEF IInv
<1>b. Open \in SUBSET Fds
  BY DEF Open
<1>1. ASSUME NEW w \in Workers, NEW S \in SUBSET Fds, Poll(w, S)
      PROVE  CapacityInv'
  BY <1>a, <1>1, CapacityKept DEF Poll, EpollWait
<1>2. ASSUME NEW w \in Workers,
             NextEvent(w) \/ DropEvent(w) \/ NotExpired(w) \/ OnTx(w) \/ OnRx(w)
      PROVE  CapacityInv'
  BY <1>a, <1>2, CapacityKept DEF NextEvent, DropEvent, NotExpired, OnTx, OnRx
<1>3. ASSUME NEW w \in Workers, LockConn(w)
      PROVE  CapacityInv'
  <2>1. held[w] = NoConn
    BY <1>3 DEF LockConn, IInv, PcInv, Holding, Working
  <2>2. \A t \in Threads : held[t] # NoConn => held'[t] = held[t]
    BY <1>a, <1>3, <2>1 DEF LockConn
  <2>3. QED
    BY <1>a, <1>3, <2>2, CapacityKept DEF LockConn
<1>4. ASSUME NEW w \in Workers, HandleIn(w) \/ HandleOut(w)
      PROVE  CapacityInv'
  <2>1. \A f \in Fds : "open" \in skt'[f] => "open" \in skt[f]
    BY <1>a, <1>4 DEF HandleIn, HandleOut
  <2>2. UNCHANGED <<conns_, handle, held>> /\ pc'[T0] = pc[T0]
    BY <1>a, <1>4 DEF HandleIn, HandleOut
  <2>3. QED
    BY <2>1, <2>2, CapacityKept
<1>5. ASSUME NEW t \in Threads, RegGet(t) \/ RegCtl(t) \/ RegPub(t)
      PROVE  CapacityInv'
  BY <1>a, <1>5, CapacityKept DEF RegGet, RegCtl, RegPub
<1>6. ASSUME NEW t \in Threads, Release(t)
      PROVE  CapacityInv'
  <2>1. CASE Shared(t, held[t])
    <3>1. held[t] # NoConn
      BY <1>6 DEF Release, IInv, PcInv, Holding, Working
    <3>2. \A f \in Fds : handle[held[t]] = f =>
            \/ f \in Open
            \/ \E u \in Threads : held'[u] # NoConn /\ handle[held'[u]] = f
      BY <1>a, <1>6, <2>1, <3>1 DEF Release, Shared, Open, IInv, HandleInv
    <3>3. held' = [held EXCEPT ![t] = NoConn]
      BY <1>6, <2>1 DEF Release
    <3>4. pc'[T0] = "accept" => pc[T0] = "accept"
      BY <1>a, <1>6, <2>1 DEF Release, Resume
    <3>5. QED
      BY <1>a, <1>6, <3>2, <3>3, <3>4, CapacityKept DEF Release
  <2>2. CASE ~Shared(t, held[t])
    BY <1>a, <1>6, <2>2, CapacityKept DEF Release
  <2>3. QED
    BY <2>1, <2>2
<1>7. ASSUME NEW t \in Threads, Destroy(t)
      PROVE  CapacityInv'
  <2> DEFINE f == handle[held[t]]
  <2>1. /\ held[t] \in Conns /\ f \in Fds
        /\ \A u \in Threads : held[u] = held[t] => u = t
        /\ \A u \in Threads \ {t} : held[u] # NoConn => handle[held[u]] # f
    <3>1. held[t] # NoConn
      BY <1>7 DEF Destroy, IInv, PcInv, Holding, Working
    <3>2. QED
      BY <1>a, <1>7, <3>1 DEF Destroy, IInv, TokenInv, HandleInv
  <2>2. /\ \A g \in Fds : "open" \in skt'[g] => "open" \in skt[g] /\ g # f
        /\ handle' = [handle EXCEPT ![held[t]] = NoFd]
        /\ held' = [held EXCEPT ![t] = NoConn]
        /\ pc' = [pc EXCEPT ![t] = Resume(t)]
        /\ conns_' = conns_
    BY <1>a, <1>7, <2>1 DEF Destroy, CloseFd, ClosedSocket
  <2>3. Open' = Open
    BY <2>2 DEF Open
  <2>4. pc'[T0] = "accept" => pc[T0] = "accept"
    BY <1>a, <2>2 DEF Resume
  <2>5. held'[T0] # NoConn =>
          held'[T0] = held[T0] /\ handle'[held[T0]] = handle[held[T0]]
    BY <1>a, <2>1, <2>2
  <2>6. \A g \in Fds \ {f}, u \in Threads :
          held[u] # NoConn /\ handle[held[u]] = g =>
            held'[u] = held[u] /\ handle'[held[u]] = g
    BY <1>a, <2>1, <2>2
  <2>7. \A g \in Fds : "open" \in skt'[g] =>
          \/ g \in Open
          \/ \E u \in Threads : held'[u] # NoConn /\ handle'[held'[u]] = g
    BY <2>2, <2>6 DEF CapacityInv
  <2>8. held'[T0] # NoConn => Cardinality(Open \ {handle'[held'[T0]]}) < MaxConns
    BY <2>5 DEF CapacityInv
  <2>9. QED
    BY <2>3, <2>4, <2>7, <2>8 DEF CapacityInv, ConnLimit
<1>8. ASSUME NEW w \in Workers, OnClose(w)
      PROVE  CapacityInv'
  <2> DEFINE f == handle[held[w]]
  <2>1. held[w] # NoConn /\ f \in Fds
    BY <1>8 DEF OnClose, IInv, PcInv, HandleInv, Holding, Working
  <2>2. /\ Open' = Open \ {f}
        /\ UNCHANGED <<skt, held, handle>> /\ pc'[T0] = pc[T0]
    BY <1>a, <1>8, <2>1 DEF OnClose, Open
  <2>3. /\ Cardinality(Open') <= Cardinality(Open)
        /\ Cardinality(Open' \ {handle[held[T0]]}) <=
             Cardinality(Open \ {handle[held[T0]]})
        /\ Cardinality(Open) \in Nat /\ Cardinality(Open') \in Nat
        /\ Cardinality(Open \ {handle[held[T0]]}) \in Nat
        /\ Cardinality(Open' \ {handle[held[T0]]}) \in Nat
    <3>1. /\ Open' \subseteq Open
          /\ Open' \ {handle[held[T0]]} \subseteq Open \ {handle[held[T0]]}
          /\ Open' \in SUBSET Fds
          /\ Open \ {handle[held[T0]]} \in SUBSET Fds
          /\ Open' \ {handle[held[T0]]} \in SUBSET Fds
      BY <1>b, <2>2
    <3>2. QED
      BY <1>b, <3>1, OpenFinite, FewerFds
  <2>4. ConnLimit'
    BY <2>3, ServerAssumption DEF CapacityInv, ConnLimit
  <2>5. pc'[T0] = "accept" => Cardinality(Open') < MaxConns
    BY <2>2, <2>3, ServerAssumption DEF CapacityInv
  <2>6. held'[T0] # NoConn => Cardinality(Open' \ {handle'[held'[T0]]}) < MaxConns
    BY <2>2, <2>3, ServerAssumption DEF CapacityInv
  <2>7. QED
    BY <2>1, <2>2, <2>4, <2>5, <2>6 DEF CapacityInv
<1>9. ASSUME NEW w \in Workers, Notify(w)
      PROVE  CapacityInv'
  BY <1>a, <1>9, CapacityKept DEF Notify
<1>10. CASE WaitCapacity
  <2>1. UNCHANGED <<conns_, handle, held, skt>>
    BY <1>10 DEF WaitCapacity
  <2>2. Open' = Open
    BY <2>1 DEF Open
  <2>3. pc'[T0] = "accept" => Cardinality(Open) < MaxConns
    BY <1>a, <1>10 DEF WaitCapacity
  <2>4. QED
    BY <2>1, <2>2, <2>3 DEF CapacityInv, ConnLimit
<1>11. CASE Destructor \/ AcceptError \/ SpuriousWakeup
  BY <1>a, <1>11, CapacityKept DEF Destructor, AcceptError, SpuriousWakeup
<1>12. CASE Accept
  <2> PICK f \in Fds, c \in Conns :
        /\ handle[c] = NoFd
        /\ AcceptFd(f)
        /\ handle' = [handle EXCEPT ![c] = f]
        /\ held' = [held EXCEPT ![T0] = c]
    BY <1>12 DEF Accept
  <2>1. Open' = Open /\ pc[T0] = "accept" /\ pc'[T0] = "insert"
    BY <1>a, <1>12 DEF Accept, Open
  <2>2. /\ handle'[held'[T0]] = f /\ held'[T0] # NoConn
        /\ \A g \in Fds \ {f} : skt'[g] = skt[g]
        /\ \A u \in Workers : held[u] # NoConn =>
             held'[u] = held[u] /\ handle'[held[u]] = handle[held[u]]
    BY <1>a DEF AcceptFd, IInv, HandleInv
  <2>3. Cardinality(Open \ {f}) < MaxConns
    <3>1. Open \ {f} \in SUBSET Fds /\ Open \ {f} \subseteq Open
      BY <1>b
    <3>2. Cardinality(Open \ {f}) <= Cardinality(Open)
      BY <1>b, <3>1, FewerFds
    <3>3. Cardinality(Open) < MaxConns
      BY <2>1 DEF CapacityInv
    <3>4. QED
      BY <1>b, <3>1, <3>2, <3>3, OpenFinite, ServerAssumption
  <2>4. held[T0] = NoConn
    BY <2>1 DEF IInv, PcInv, Holding, Working
  <2>5. QED
    BY <2>1, <2>2, <2>3, <2>4 DEF CapacityInv, ConnLimit
<1>13. CASE Insert
  <2> DEFINE f == handle[held[T0]]
  <2>1. held[T0] # NoConn /\ f \in Fds /\ conns_[f] = NoConn
    BY <1>13 DEF Insert, IInv, PcInv, HandleInv, TokenInv, Holding, Working
  <2>2. /\ Open' = Open \cup {f}
        /\ UNCHANGED <<skt, held, handle>> /\ pc'[T0] = "reg_get"
    BY <1>a, <1>13, <2>1 DEF Insert, Open
  <2>3. f \notin Open /\ Open \ {f} = Open /\ Open' \ {f} = Open
    BY <2>1, <2>2 DEF Open
  <2>4. Cardinality(Open) < MaxConns
    BY <2>1, <2>3 DEF CapacityInv
  <2>5. Cardinality(Open') = Cardinality(Open) + 1 /\ Cardinality(Open) \in Nat
    BY <1>b, <2>2, <2>3, OpenFinite, FS_AddElement
  <2>6. ConnLimit'
    BY <2>4, <2>5, ServerAssumption DEF ConnLimit
  <2>7. QED
    BY <2>1, <2>2, <2>3, <2>4, <2>6 DEF CapacityInv
<1>14. ASSUME NEW f \in Fds, PeerStep(f)
       PROVE  CapacityInv'
  <2>1. /\ \A g \in Fds : "open" \in skt'[g] => "open" \in skt[g]
        /\ UNCHANGED <<pc, held, conns_, handle>>
    BY <1>a, <1>14 DEF PeerStep, Peer, PeerSend, PeerShutdown, PeerReset,
                       PeerDrain, BrokenSocket, evloopVars, threadVars
  <2>2. QED
    BY <2>1, CapacityKept
<1>15. CASE UNCHANGED vars
  BY <1>15, CapacityKept DEF vars, evloopVars, threadVars
<1>16. QED
  BY <1>1, <1>2, <1>3, <1>4, <1>5, <1>6, <1>7, <1>8, <1>9, <1>10, <1>11, <1>12,
     <1>13, <1>14, <1>15
     DEF Next, Iterate, Acceptor

(* The capacity is respected in every reachable state.                      *)
LEMMA Capacity == Spec => [](IInv /\ CapacityInv)
<1>1. Init => CapacityInv
  <2> SUFFICES ASSUME Init PROVE CapacityInv
    OBVIOUS
  <2>1. Open = {}
    BY DEF Init, EvloopInit, Open
  <2>2. pc[T0] = "capacity" /\ held[T0] = NoConn
    BY DEF Init, EvloopInit, Threads
  <2>3. \A f \in Fds : "open" \notin skt[f]
    BY DEF Init, KernelInit, ClosedSocket
  <2>4. QED
    BY <2>1, <2>2, <2>3, FS_EmptySet, ServerAssumption DEF CapacityInv, ConnLimit
<1>2. IInv /\ IInv' /\ CapacityInv /\ [Next]_vars => CapacityInv'
  BY CapacityStep
<1>3. QED
  BY <1>1, <1>2, Inductive, PTL DEF Spec

(* conns_ never holds more than max_concurrent_connections.                 *)
THEOREM ConnsWithinLimit == Spec => []ConnLimit
<1>1. CapacityInv => ConnLimit
  BY DEF CapacityInv
<1>2. QED
  BY <1>1, Capacity, PTL

(* The process never has more sockets of peers open than the limit and one  *)
(* for each worker that is letting go of a connection.                      *)
THEOREM SocketsWithinLimit == Spec => []SocketLimit
<1>1. IInv /\ CapacityInv => SocketLimit
  <2> SUFFICES ASSUME IInv, CapacityInv PROVE SocketLimit
    OBVIOUS
  <2> DEFINE Sockets == {f \in Fds : "open" \in skt[f]}
             Busy    == {w \in Workers : pc[w] \in LettingGo}
             fdOf    == [w \in Busy |-> handle[held[w]]]
             InHand  == {handle[held[w]] : w \in Busy}
             Mine    == IF held[T0] = NoConn THEN {} ELSE {handle[held[T0]]}
  <2>1. Sockets \subseteq (Open \ Mine) \cup Mine \cup InHand
    <3>1. ASSUME NEW w \in Workers, held[w] # NoConn, pc[w] \notin LettingGo
          PROVE  handle[held[w]] \in Open
      <4>1. pc[w] \in Handling
        BY <3>1 DEF IInv, PcInv, Holding, Working, Handling, LettingGo, WorkerPc,
                    Threads
      <4>2. conns_[handle[held[w]]] # NoConn /\ handle[held[w]] \in Fds
        BY <3>1, <4>1 DEF IInv, TokenInv, EventInv, HandleInv, Threads
      <4>3. QED
        BY <4>2 DEF Open
    <3>2. QED
      BY <3>1 DEF CapacityInv, Threads
  <2>2. IsFiniteSet(InHand) /\ Cardinality(InHand) <= Cardinality(Busy)
        /\ Cardinality(InHand) \in Nat /\ Cardinality(Busy) \in Nat
    <3>1. /\ IsFiniteSet(Busy) /\ Cardinality(Busy) <= Cardinality(Workers)
          /\ Cardinality(Workers) \in Nat /\ Cardinality(Busy) \in Nat
      BY ThreadsAssumption, FS_Subset, FS_CardinalityType
    <3>2. fdOf \in Surjection(Busy, InHand)
      BY DEF Surjection
    <3>3. IsFiniteSet(InHand) /\ Cardinality(InHand) <= Cardinality(Busy)
      BY <3>1, <3>2, FS_Surjection
    <3>4. QED
      BY <3>1, <3>3, FS_CardinalityType
  <2>3. /\ IsFiniteSet((Open \ Mine) \cup Mine)
        /\ Cardinality((Open \ Mine) \cup Mine) <= MaxConns
        /\ Cardinality((Open \ Mine) \cup Mine) \in Nat
    <3>1. Open \in SUBSET Fds
      BY DEF Open
    <3>2. CASE held[T0] = NoConn
      <4>1. (Open \ Mine) \cup Mine = Open
        BY <3>2
      <4>2. QED
        BY <3>1, <4>1, OpenFinite DEF CapacityInv, ConnLimit
    <3>3. CASE held[T0] # NoConn
      <4> DEFINE f == handle[held[T0]]
                 R == Open \ {f}
      <4>1. (Open \ Mine) \cup Mine = R \cup {f} /\ R \in SUBSET Fds
        BY <3>1, <3>3
      <4>2. Cardinality(R) < MaxConns /\ IsFiniteSet(R) /\ Cardinality(R) \in Nat
        BY <3>3, <4>1, OpenFinite DEF CapacityInv
      <4>3. IsFiniteSet(R \cup {f}) /\ Cardinality(R \cup {f}) = Cardinality(R) + 1
        <5> HIDE DEF R
        <5>1. f \notin R
          BY DEF R
        <5>2. QED
          BY <4>2, <5>1, FS_AddElement
      <4> HIDE DEF R, f
      <4>4. QED
        BY <4>1, <4>2, <4>3, ServerAssumption
    <3>4. QED
      BY <3>2, <3>3
  <2> DEFINE A == (Open \ Mine) \cup Mine
  <2>4. /\ IsFiniteSet(A \cup InHand)
        /\ Cardinality(A \cup InHand) <= MaxConns + Cardinality(Busy)
        /\ Cardinality(A \cup InHand) \in Nat
    <3> HIDE DEF A, InHand, Busy
    <3>1. IsFiniteSet(A) /\ IsFiniteSet(InHand)
      BY <2>2, <2>3 DEF A
    <3>2. /\ IsFiniteSet(A \cup InHand)
          /\ Cardinality(A \cup InHand) =
               Cardinality(A) + Cardinality(InHand) - Cardinality(A \cap InHand)
      BY <3>1, FS_Union
    <3>3. Cardinality(A \cap InHand) \in Nat
      <4>1. A \cap InHand \in SUBSET A
        OBVIOUS
      <4>2. QED
        BY <3>1, <4>1, FS_Subset, FS_CardinalityType
    <3>4. Cardinality(A) <= MaxConns /\ Cardinality(A) \in Nat
      BY <2>3 DEF A
    <3>5. Cardinality(A \cup InHand) \in Nat
      BY <3>2, FS_CardinalityType
    <3>6. QED
      BY <2>2, <3>2, <3>3, <3>4, <3>5, ServerAssumption
  <2>5. Cardinality(Sockets) <= Cardinality(A \cup InHand) /\ Cardinality(Sockets) \in Nat
    <3>1. Sockets \in SUBSET (A \cup InHand)
      BY <2>1
    <3> HIDE DEF A, InHand, Sockets
    <3>2. QED
      BY <2>4, <3>1, FS_Subset, FS_CardinalityType
  <2>6. Cardinality(Sockets) <= MaxConns + Cardinality(Busy)
    <3> HIDE DEF A, InHand, Sockets, Busy
    <3>1. QED
      BY <2>2, <2>4, <2>5, ServerAssumption
  <2>7. QED
    BY <2>6 DEF SocketLimit
<1>2. QED
  BY <1>1, Capacity, PTL

(* The acceptor never sleeps through the room a closed connection leaves.   *)
THEOREM WakeupNotLost == Spec => []NoLostWakeup
<1>1. Init => NoLostWakeup
  BY DEF Init, EvloopInit, NoLostWakeup, Threads
<1>2. TypeOK /\ NoLostWakeup /\ [Next]_vars => NoLostWakeup'
  <2> SUFFICES ASSUME TypeOK, NoLostWakeup, [Next]_vars PROVE NoLostWakeup'
    OBVIOUS
  <2> USE ThreadsAssumption
      DEF TypeOK, EvloopTypeOK, Goto, Threads, kernelVars, connVars
  <2>1. ASSUME UNCHANGED conns_, pc'[T0] = "sleep" => pc[T0] = "sleep",
               \A w \in Workers : pc[w] = "notify" => pc'[w] = "notify"
        PROVE  NoLostWakeup'
    <3>1. Open' = Open
      BY <2>1 DEF Open
    <3>2. QED
      BY <2>1, <3>1 DEF NoLostWakeup
  <2>2. ASSUME NEW w \in Workers, Iterate(w)
        PROVE  NoLostWakeup'
    <3>1. CASE OnClose(w)
      <4>1. pc'[w] = "notify"
        BY <3>1 DEF OnClose
      <4>2. QED
        BY <4>1 DEF NoLostWakeup
    <3>2. CASE Notify(w)
      <4>1. pc'[T0] # "sleep"
        BY <3>2 DEF Notify
      <4>2. QED
        BY <4>1 DEF NoLostWakeup
    <3>3. CASE OnRx(w) \/ OnTx(w) \/ HandleIn(w) \/ HandleOut(w)
      BY <2>1, <3>3 DEF OnRx, OnTx, HandleIn, HandleOut
    <3>4. CASE NextEvent(w) \/ DropEvent(w) \/ NotExpired(w) \/ LockConn(w)
      BY <2>1, <3>4 DEF NextEvent, DropEvent, NotExpired, LockConn
    <3>5. CASE RegGet(w) \/ RegCtl(w) \/ RegPub(w) \/ Release(w) \/ Destroy(w)
      BY <2>1, <3>5 DEF RegGet, RegCtl, RegPub, Release, Resume, Destroy
    <3>6. QED
      BY <2>2, <3>1, <3>2, <3>3, <3>4, <3>5 DEF Iterate
  <2>3. CASE WaitCapacity
    <3>1. Open' = Open
      BY <2>3 DEF WaitCapacity, Open
    <3>2. pc'[T0] = "sleep" => ~(Cardinality(Open) < MaxConns)
      BY <2>3 DEF WaitCapacity
    <3>3. QED
      BY <3>1, <3>2 DEF NoLostWakeup
  <2>4. CASE Insert
    <3>1. pc'[T0] # "sleep"
      BY <2>4 DEF Insert
    <3>2. QED
      BY <3>1 DEF NoLostWakeup
  <2>5. CASE Destructor \/ Accept \/ AcceptError \/ SpuriousWakeup
    BY <2>1, <2>5 DEF Destructor, Accept, AcceptError, SpuriousWakeup
  <2>6. CASE RegGet(T0) \/ RegCtl(T0) \/ RegPub(T0) \/ Release(T0) \/ Destroy(T0)
    BY <2>1, <2>6 DEF RegGet, RegCtl, RegPub, Release, Resume, Destroy
  <2>7. ASSUME NEW w \in Workers, NEW S \in SUBSET Fds, Poll(w, S)
        PROVE  NoLostWakeup'
    BY <2>1, <2>7 DEF Poll, EpollWait
  <2>8. ASSUME NEW f \in Fds, PeerStep(f)
        PROVE  NoLostWakeup'
    BY <2>1, <2>8 DEF PeerStep, evloopVars, threadVars
  <2>9. CASE UNCHANGED vars
    BY <2>1, <2>9 DEF vars, evloopVars, threadVars
  <2>10. QED
    BY <2>2, <2>3, <2>4, <2>5, <2>6, <2>7, <2>8, <2>9 DEF Next, Acceptor
<1>3. QED
  BY <1>1, <1>2, TypeCorrect, PTL DEF Spec

=============================================================================
