-------------------------- MODULE RefinementProofs --------------------------
(***************************************************************************)
(* Proof that Server implements Handoff, and that no open connection is    *)
(* forgotten when peers wait for their connection to be published and      *)
(* epoll_ctl does not fail.                                                *)
(***************************************************************************)
EXTENDS ServerProofs, ServerHandoff

(* The invariant says where the token of a descriptor is not.               *)
LEMMA Places ==
  IInv => /\ \A f \in Fds, t \in Threads : Owns(t, f) => Token[f] = {t}
          /\ \A f \in Fds : Armed(f) => Token[f] = {Epoll}
<1> SUFFICES ASSUME IInv, NEW f \in Fds
             PROVE  /\ \A t \in Threads : Owns(t, f) => Token[f] = {t}
                    /\ Armed(f) => Token[f] = {Epoll}
  OBVIOUS
<1> USE ThreadsAssumption DEF IInv
<1>1. \A t \in Threads : Owns(t, f) => interest[f] \in {"off", "none"}
  BY DEF Owns, TokenInv, Threads
<1>2. \A w \in Workers : Owns(w, f) => interest[f] = "off"
  BY DEF Owns, TokenInv
<1>3. Owns(T0, f) => interest[f] = "none"
  BY DEF Owns, TokenInv
<1>4. \A v, w \in Workers : Owns(v, f) /\ Owns(w, f) => v = w
  BY DEF Owns, UniqueInv
<1>5. \A t, u \in Threads : Owns(t, f) /\ Owns(u, f) => t = u
  BY <1>2, <1>3, <1>4 DEF Threads
<1>6. QED
  BY <1>1, <1>5 DEF Token, Armed

(* A step that moves nothing Handoff speaks of.                             *)
LEMMA NothingMoves ==
  ASSUME \A f \in Fds : Armed(f)' <=> Armed(f),
         \A f \in Fds, t \in Threads : Owns(t, f)' <=> Owns(t, f),
         \A f \in Fds : "open" \in skt'[f] <=> "open" \in skt[f],
         \A f \in Fds : InUse(f)' <=> InUse(f)
  PROVE  UNCHANGED <<Token, Phase>>
BY DEF Token, Phase

(* A step that moves the token of descriptor g only.                        *)
LEMMA OneMoves ==
  ASSUME NEW g \in Fds,
         \A f \in Fds \ {g} : Armed(f)' <=> Armed(f),
         \A f \in Fds \ {g}, t \in Threads : Owns(t, f)' <=> Owns(t, f)
  PROVE  Token' = [Token EXCEPT ![g] = Token'[g]]
BY DEF Token

(* A step that changes the phase of descriptor g only.                      *)
LEMMA OneChanges ==
  ASSUME NEW g \in Fds,
         \A f \in Fds \ {g} : "open" \in skt'[f] <=> "open" \in skt[f],
         \A f \in Fds \ {g} : InUse(f)' <=> InUse(f)
  PROVE  Phase' = [Phase EXCEPT ![g] = Phase'[g]]
BY DEF Phase

(* epoll_wait reports the descriptors it was asked about.                   *)
LEMMA EventsOfDescriptors ==
  ASSUME NEW S, NEW f
  PROVE  (\E e \in {EventOf(g) : g \in S} : e.fd = f) <=> f \in S
<1>1. \A g : EventOf(g).fd = g
  BY DEF EventOf
<1>2. QED
  BY <1>1

(* epoll_wait hands the tokens of several descriptors to a worker.          *)
LEMMA DeliverStep ==
  ASSUME IInv, NEW w \in Workers, NEW S \in SUBSET Fds, Poll(w, S)
  PROVE  H!Deliver(w, S)
<1> USE ThreadsAssumption
    DEF IInv, TypeOK, KernelTypeOK, EvloopTypeOK, Threads, Poll, EpollWait,
        Goto, connVars
<1>1. /\ \A f \in S : Armed(f) /\ ~Armed(f)'
      /\ \A f \in Fds \ S : Armed(f)' <=> Armed(f)
  BY DEF Deliverable, Ready, SwitchOff, Armed
<1>2. \A f \in Fds : Pending(w, f)' <=> f \in S
  <2>1. \A f \in Fds : (\E e \in batch'[w] : e.fd = f) <=> f \in S
    <3>1. batch'[w] = {EventOf(f) : f \in S}
      OBVIOUS
    <3>2. QED
      BY <3>1, EventsOfDescriptors
  <2>2. pc'[w] \notin {"check", "lock"}
    OBVIOUS
  <2>3. QED
    BY <2>1, <2>2 DEF Pending
<1>3. \A v \in Workers \ {w}, f \in Fds : Pending(v, f)' <=> Pending(v, f)
  BY DEF Pending
<1>4. \A f \in Fds : ~Pending(w, f) /\ pc[w] \notin Handling
  BY DEF Pending, Handling
<1>5. \A f \in Fds, t \in Threads : Owns(t, f)' <=> Owns(t, f) \/ (t = w /\ f \in S)
  BY <1>2, <1>3, <1>4 DEF Owns
<1>6. \A f \in S : Token[f] = {Epoll}
  BY <1>1, Places
<1>7. \A f \in S : Token'[f] = {w}
  <2> SUFFICES ASSUME NEW f \in S PROVE Token'[f] = {w}
    OBVIOUS
  <2>1. \A t \in Threads : ~Owns(t, f)
    BY <1>6, EpollAssumption DEF Token
  <2>2. QED
    BY <1>1, <1>5, <2>1 DEF Token
<1>8. Token' = [f \in Fds |-> IF f \in S THEN {w} ELSE Token[f]]
  <2>1. \A f \in Fds \ S : Token'[f] = Token[f]
    BY <1>1, <1>5 DEF Token
  <2>2. Token' = [f \in Fds |-> Token'[f]]
    BY DEF Token
  <2>3. QED
    BY <1>7, <2>1, <2>2
<1>9. UNCHANGED Phase
  BY DEF Phase, InUse
<1>10. QED
  BY <1>6, <1>8, <1>9 DEF H!Deliver

(* Looking an event up and locking its connection leave the token with the  *)
(* worker, and so do the handlers and the choice of the operation.          *)
LEMMA WorkerKeeps ==
  ASSUME IInv, NEW w \in Workers,
         \/ NextEvent(w) \/ NotExpired(w) \/ LockConn(w)
         \/ HandleIn(w) \/ HandleOut(w) \/ OnRx(w) \/ OnTx(w) \/ Notify(w)
  PROVE  UNCHANGED <<Token, Phase>>
<1> USE ThreadsAssumption
    DEF IInv, TypeOK, KernelTypeOK, EvloopTypeOK, Threads, Goto, kernelVars,
        connVars
<1>1. CASE NextEvent(w)
  <2>1. \A f \in Fds, v \in Workers : Pending(v, f)' <=> Pending(v, f)
    BY <1>1 DEF NextEvent, Pending
  <2>2. QED
    BY <1>1, <2>1, NothingMoves DEF NextEvent, Owns, Armed, InUse, Handling
<1>2. CASE NotExpired(w)
  BY <1>2, NothingMoves DEF NotExpired, Owns, Pending, Armed, InUse, Handling
<1>3. CASE LockConn(w)
  <2>1. /\ pc'[w] \in Handling /\ ~Pending(w, ev[w].fd)'
        /\ pc[w] \notin Handling /\ Pending(w, ev[w].fd)
    BY <1>3 DEF LockConn, EventInv, UniqueInv, Handling, Pending, Event
  <2>2. \A f \in Fds : Owns(w, f)' <=> Owns(w, f)
    BY <1>3, <2>1 DEF LockConn, Owns, Pending, UniqueInv, TokenInv
  <2>3. \A f \in Fds, t \in Threads \ {w} : Owns(t, f)' <=> Owns(t, f)
    BY <1>3 DEF LockConn, Owns, Pending
  <2>4. QED
    BY <1>3, <2>2, <2>3, NothingMoves DEF LockConn, Armed, InUse
<1>4. CASE HandleIn(w) \/ HandleOut(w) \/ OnRx(w) \/ OnTx(w)
  <2>1. /\ pc[w] \in Handling /\ pc'[w] \in Handling
        /\ pc' = [pc EXCEPT ![w] = pc'[w]]
        /\ UNCHANGED <<interest, batch, ev, weak, held, op, events_, conns_,
                       handle>>
        /\ \A f \in Fds : "open" \in skt'[f] <=> "open" \in skt[f]
    <3>1. CASE HandleIn(w)
      BY <3>1 DEF HandleIn, Handling
    <3>2. CASE HandleOut(w)
      BY <3>2 DEF HandleOut, Handling
    <3>3. CASE OnRx(w) \/ OnTx(w)
      BY <3>3 DEF OnRx, OnTx, Handling
    <3>4. QED
      BY <1>4, <3>1, <3>2, <3>3
  <2>2. pc[w] \notin {"check", "lock"} /\ pc'[w] \notin {"check", "lock"}
    BY <2>1 DEF Handling
  <2>3. QED
    BY <2>1, <2>2, NothingMoves DEF Owns, Pending, Armed, InUse
<1>5. CASE Notify(w)
  BY <1>5, NothingMoves DEF Notify, Owns, Pending, Armed, InUse, Handling
<1>6. QED
  BY <1>1, <1>2, <1>3, <1>4, <1>5

(* An event that is dropped takes its token with it.                        *)
LEMMA DropStep ==
  ASSUME IInv, NEW w \in Workers, DropEvent(w), CtlFails \/ EarlyPeer
  PROVE  \E f \in Fds : H!Lose(w, f)
<1> USE ThreadsAssumption
    DEF IInv, TypeOK, KernelTypeOK, EvloopTypeOK, Threads, Goto, kernelVars,
        connVars, DropEvent
<1> PICK g \in Fds : g = ev[w].fd
  BY DEF EventInv, Event
<1>1. Owns(w, g)
  BY DEF Owns, Pending
<1>2. Token[g] = {w}
  BY <1>1, Places
<1>3. \A f \in Fds \ {g}, t \in Threads : Owns(t, f)' <=> Owns(t, f)
  BY DEF Owns, Pending, Handling
<1>4. \A t \in Threads : ~Owns(t, g)'
  <2>1. ~Owns(w, g)'
    BY DEF Owns, Pending, UniqueInv, Handling
  <2>2. \A t \in Threads \ {w} : ~Owns(t, g)
    BY <1>1, Places DEF Token
  <2>3. \A t \in Threads \ {w} : Owns(t, g)' <=> Owns(t, g)
    BY DEF Owns, Pending
  <2>4. QED
    BY <2>1, <2>2, <2>3
<1>5. ~Armed(g)'
  BY <1>1 DEF Owns, Pending, Handling, TokenInv, Armed
<1>6. Token'[g] = {}
  BY <1>1, <1>4, <1>5 DEF Token
<1>7. Token' = [Token EXCEPT ![g] = {}]
  BY <1>1, <1>3, <1>6, OneMoves DEF Armed
<1>8. UNCHANGED Phase
  BY DEF Phase, InUse
<1>9. QED
  BY <1>1, <1>2, <1>7, <1>8 DEF H!Lose

(* Choosing the operation, publishing the connection and letting go of it   *)
(* move no token.                                                           *)
LEMMA RegKeeps ==
  ASSUME IInv, NEW t \in Threads, RegGet(t) \/ RegPub(t) \/ Release(t)
  PROVE  UNCHANGED <<Token, Phase>>
<1> USE ThreadsAssumption
    DEF IInv, TypeOK, KernelTypeOK, EvloopTypeOK, Threads, Goto, kernelVars,
        connVars
<1>1. CASE RegGet(t)
  BY <1>1, NothingMoves
     DEF RegGet, PcInv, T0Pc, Owns, Pending, Armed, InUse, Handling
<1>2. CASE RegPub(t)
  BY <1>2, NothingMoves DEF RegPub, Owns, Pending, Armed, InUse, Handling
<1>3. CASE Release(t)
  <2>1. /\ pc' = [pc EXCEPT ![t] = pc'[t]] /\ pc[t] = "release"
        /\ pc'[t] \in {"dtor", "capacity", "loop"}
        /\ \A u \in Threads \ {t} : held'[u] = held[u]
        /\ \A w \in Workers \ {t} : ev'[w] = ev[w]
        /\ UNCHANGED <<skt, interest, batch, conns_, handle>>
    BY <1>3 DEF Release, Resume, ForgetEvent
  <2>2. \A f \in Fds, u \in Threads : Owns(u, f)' <=> Owns(u, f)
    BY <2>1 DEF Owns, Pending, Handling
  <2>3. \A f \in Fds : InUse(f)' <=> InUse(f)
    BY <2>1 DEF InUse
  <2>4. QED
    BY <2>1, <2>2, <2>3, NothingMoves DEF Armed
<1>4. QED
  BY <1>1, <1>2, <1>3

(* epoll_ctl gives the token back to epoll, or fails and loses it.          *)
LEMMA CtlStep ==
  ASSUME IInv, NEW t \in Threads, RegCtl(t)
  PROVE  \E f \in Fds : H!Arm(t, f) \/ (CtlFails /\ H!Lose(t, f))
<1> USE ThreadsAssumption
    DEF IInv, TypeOK, KernelTypeOK, EvloopTypeOK, Threads, Goto, kernelVars,
        connVars, RegCtl
<1>1. /\ held[t] # NoConn /\ held[t] \in Conns
      /\ handle[held[t]] \in Fds
      /\ t \in Workers => handle[held[t]] = ev[t].fd
  BY DEF PcInv, HandleInv, EventInv, Holding, Working
<1> PICK g \in Fds : g = handle[held[t]]
  BY <1>1
<1>2. Owns(t, g)
  BY <1>1 DEF Owns, Handling
<1>3. Token[g] = {t}
  BY <1>2, Places
<1>4. \A u \in Threads \ {t} : ~Owns(u, g)
  BY <1>3 DEF Token
<1>5. \A f \in Fds, u \in Threads \ {t} : Owns(u, f)' <=> Owns(u, f)
  BY DEF Owns, Pending
<1>6. ~Owns(t, g)' /\ \A f \in Fds \ {g} : Owns(t, f)' <=> Owns(t, f)
  <2>1. CASE t = T0
    BY <2>1 DEF Owns
  <2>2. CASE t \in Workers
    BY <1>1, <2>2 DEF Owns, Pending, Handling, UniqueInv
  <2>3. QED
    BY <2>1, <2>2
<1>7. \A f \in Fds \ {g} : Armed(f)' <=> Armed(f)
  BY DEF Armed
<1>8. UNCHANGED Phase
  BY DEF Phase, InUse
<1>9. CASE CtlAccepts(op[t], g) /\ interest' = [interest EXCEPT ![g] = want[t]]
  <2>1. Armed(g)'
    BY <1>9 DEF Armed
  <2>2. Token'[g] = {Epoll}
    BY <1>4, <1>5, <1>6, <2>1 DEF Token
  <2>3. Token' = [Token EXCEPT ![g] = {Epoll}]
    BY <1>5, <1>6, <1>7, <2>2, OneMoves
  <2>4. QED
    BY <1>3, <1>8, <2>3 DEF H!Arm
<1>10. CASE UNCHANGED interest /\ (CtlFails \/ ~CtlAccepts(op[t], g))
  <2>1. CtlFails
    <3>1. CtlAccepts(op[t], g)
      BY CtlChoice DEF CtlOpValid
    <3>2. QED
      BY <1>10, <3>1
  <2>2. ~Armed(g)'
    <3>1. ~Armed(g)
      BY <1>3, Places, EpollAssumption
    <3>2. QED
      BY <1>10, <3>1 DEF Armed
  <2>3. Token'[g] = {}
    BY <1>4, <1>5, <1>6, <2>2 DEF Token
  <2>4. Token' = [Token EXCEPT ![g] = {}]
    BY <1>5, <1>6, <1>7, <2>3, OneMoves
  <2>5. QED
    BY <1>3, <1>8, <2>1, <2>4 DEF H!Lose
<1>11. QED
  BY <1>9, <1>10

(* on_close ends the life of the connection's token.                        *)
LEMMA CloseStep ==
  ASSUME IInv, NEW w \in Workers, OnClose(w)
  PROVE  \E f \in Fds : H!Close(w, f)
<1> USE ThreadsAssumption
    DEF IInv, TypeOK, KernelTypeOK, EvloopTypeOK, Threads, Goto, kernelVars,
        connVars, OnClose
<1>1. /\ held[w] # NoConn /\ held[w] \in Conns
      /\ handle[held[w]] \in Fds
      /\ handle[held[w]] = ev[w].fd
  BY DEF PcInv, HandleInv, EventInv, Holding, Working
<1> PICK g \in Fds : g = ev[w].fd
  BY <1>1
<1>2. Owns(w, g)
  BY DEF Owns, Handling
<1>3. Token[g] = {w}
  BY <1>2, Places
<1>4. \A u \in Threads \ {w} : ~Owns(u, g)
  BY <1>3 DEF Token
<1>5. \A f \in Fds, u \in Threads \ {w} : Owns(u, f)' <=> Owns(u, f)
  BY DEF Owns, Pending
<1>6. ~Owns(w, g)'
  BY DEF Owns, Pending, Handling, UniqueInv
<1>7. \A f \in Fds \ {g} : Owns(w, f)' <=> Owns(w, f)
  BY DEF Owns, Pending, Handling
<1>8. ~Armed(g)' /\ UNCHANGED interest
  BY DEF TokenInv, Armed, Handling
<1>9. Token'[g] = {}
  BY <1>4, <1>5, <1>6, <1>8 DEF Token
<1>10. Token' = [Token EXCEPT ![g] = {}]
  BY <1>5, <1>7, <1>8, <1>9, OneMoves DEF Armed
<1>11. "open" \in skt[g] /\ ~InUse(g)'
  <2>1. conns_[g] = held[w] /\ conns_'[g] = NoConn /\ "open" \in skt[g]
    BY <1>1 DEF TokenInv, HandleInv, Handling
  <2>2. QED
    BY <1>1, <2>1 DEF InUse, TokenInv
<1>12. Phase'[g] = "closed"
  BY <1>11 DEF Phase
<1>13. Phase' = [Phase EXCEPT ![g] = "closed"]
  BY <1>1, <1>12, OneChanges DEF InUse
<1>14. QED
  BY <1>3, <1>10, <1>13 DEF H!Close

(* ~socket frees the descriptor.                                            *)
LEMMA FreeStep ==
  ASSUME IInv, NEW t \in Threads, Destroy(t)
  PROVE  \E f \in Fds : H!Free(f)
<1> USE ThreadsAssumption
    DEF IInv, TypeOK, KernelTypeOK, EvloopTypeOK, Threads, Goto, Destroy, CloseFd
<1>1. /\ held[t] # NoConn /\ held[t] \in Conns
      /\ handle[held[t]] \in Fds
      /\ \A u \in Threads \ {t} : held[u] # held[t]
  BY DEF PcInv, HandleInv, TokenInv, Holding, Working
<1> PICK g \in Fds : g = handle[held[t]]
  BY <1>1
<1>2. "open" \in skt[g] /\ ~InUse(g) /\ ~Armed(g)
  <2>1. conns_[g] = NoConn /\ "open" \in skt[g]
    BY <1>1 DEF TokenInv, HandleInv
  <2>2. QED
    BY <1>1, <2>1 DEF InUse, TokenInv, HandleInv, Armed, PcInv, Holding, Working
<1>3. \A f \in Fds, u \in Threads \ {t} : Owns(u, f)' <=> Owns(u, f)
  BY <1>1 DEF Owns, Pending, ForgetEvent, PcInv, Holding, Working
<1>4. \A f \in Fds : Owns(t, f)' <=> Owns(t, f)
  BY DEF Owns, Pending, Handling, Resume
<1>5. UNCHANGED Token
  <2>1. \A f \in Fds : Armed(f)' <=> Armed(f)
    BY <1>2 DEF Armed
  <2>2. QED
    BY <1>3, <1>4, <2>1 DEF Token
<1>6. Phase[g] = "closed" /\ Phase'[g] = "free"
  BY <1>2 DEF Phase, ClosedSocket
<1>7. \A f \in Fds \ {g} : InUse(f)' <=> InUse(f)
  BY <1>1 DEF InUse, Resume, PcInv, Holding, Working
<1>8. Phase' = [Phase EXCEPT ![g] = "free"]
  BY <1>6, <1>7, OneChanges
<1>9. QED
  BY <1>5, <1>6, <1>8 DEF H!Free

(* A new connection's token is T0's.                                        *)
LEMMA NewConnStep ==
  ASSUME IInv, Accept
  PROVE  \E f \in Fds : H!Accept(f)
<1> USE ThreadsAssumption
    DEF IInv, TypeOK, KernelTypeOK, EvloopTypeOK, Threads, Goto
<1> PICK g \in Fds, c \in Conns :
      /\ handle[c] = NoFd
      /\ AcceptFd(g)
      /\ handle' = [handle EXCEPT ![c] = g]
      /\ held' = [held EXCEPT ![T0] = c]
  BY DEF Accept
<1> USE DEF Accept, AcceptFd
<1>1. \A w \in Workers, f \in Fds : Owns(w, f)' <=> Owns(w, f)
  BY DEF Owns, Pending
<1>2. \A f \in Fds : ~Owns(T0, f) /\ (Owns(T0, f)' <=> f = g)
  BY DEF Owns
<1>3. /\ interest[g] = "none" /\ conns_[g] = NoConn
      /\ \A w \in Workers : ~Owns(w, g)
  BY DEF HandleInv, TokenInv, Owns
<1>4. Token'[g] = {T0}
  BY <1>1, <1>2, <1>3 DEF Token, Armed
<1>5. Token' = [Token EXCEPT ![g] = {T0}]
  BY <1>1, <1>2, <1>4, OneMoves DEF Armed
<1>6. Phase[g] = "free" /\ Phase'[g] = "open"
  BY DEF Phase, InUse, FreshSocket
<1>7. \A f \in Fds \ {g} : InUse(f)' <=> InUse(f)
  BY DEF InUse
<1>8. Phase' = [Phase EXCEPT ![g] = "open"]
  BY <1>6, <1>7, OneChanges
<1>9. QED
  BY <1>5, <1>6, <1>8 DEF H!Accept

(* The other steps of T0, and those of the peers, move no token.            *)
LEMMA OthersKeep ==
  ASSUME IInv,
         \/ WaitCapacity \/ SpuriousWakeup \/ AcceptError \/ Insert \/ Destructor
         \/ (\E f \in Fds : PeerStep(f)) \/ UNCHANGED vars
  PROVE  UNCHANGED <<Token, Phase>>
<1> USE ThreadsAssumption
    DEF IInv, TypeOK, KernelTypeOK, EvloopTypeOK, Threads, Goto, kernelVars,
        connVars
<1>1. CASE WaitCapacity \/ SpuriousWakeup \/ AcceptError \/ Destructor
  BY <1>1, NothingMoves
     DEF WaitCapacity, SpuriousWakeup, AcceptError, Destructor, Owns, Pending,
         Armed, InUse
<1>2. CASE Insert
  <2>1. held[T0] # NoConn /\ handle[held[T0]] \in Fds
    BY <1>2 DEF Insert, PcInv, HandleInv, Holding, Working
  <2>2. \A f \in Fds : InUse(f)' <=> InUse(f)
    BY <1>2, <2>1 DEF Insert, InUse
  <2>3. QED
    BY <1>2, <2>2, NothingMoves DEF Insert, Owns, Pending, Armed
<1>3. ASSUME NEW f \in Fds, PeerStep(f)
      PROVE  UNCHANGED <<Token, Phase>>
  <2>1. \A g \in Fds : "open" \in skt'[g] <=> "open" \in skt[g]
    BY <1>3 DEF PeerStep, Peer, PeerSend, PeerShutdown, PeerReset, PeerDrain,
                BrokenSocket
  <2>2. UNCHANGED <<interest, evloopVars>>
    BY <1>3 DEF PeerStep, Peer, PeerSend, PeerShutdown, PeerReset, PeerDrain
  <2>3. QED
    BY <2>1, <2>2, NothingMoves
       DEF evloopVars, threadVars, Owns, Pending, Armed, InUse
<1>4. CASE UNCHANGED vars
  BY <1>4, NothingMoves
     DEF vars, evloopVars, threadVars, Owns, Pending, Armed, InUse
<1>5. QED
  BY <1>1, <1>2, <1>3, <1>4

(* Every step of Server is a step of Handoff or leaves its variables alone. *)
LEMMA StepRefines ==
  ASSUME IInv, [Next]_vars,
         CtlFails \/ EarlyPeer \/ \A w \in Workers : ~DropEvent(w)
  PROVE  [H!Next]_<<Token, Phase>>
<1> DEFINE Stutter == UNCHANGED <<Token, Phase>>
<1>1. \A w \in Workers, S \in SUBSET Fds : Poll(w, S) => H!Deliver(w, S)
  BY DeliverStep
<1>2. ASSUME NEW w \in Workers, Iterate(w)
      PROVE  H!Next \/ Stutter
  <2>1. w \in Threads /\ w \in H!Threads
    BY DEF Threads, H!Threads
  <2>2. CASE DropEvent(w)
    BY <2>1, <2>2, <1>2, DropStep DEF H!Next
  <2>3. CASE OnClose(w)
    BY <2>3, CloseStep DEF H!Next
  <2>4. CASE RegCtl(w)
    BY <2>1, <2>4, CtlStep DEF H!Next, H!Lose
  <2>5. CASE Destroy(w)
    BY <2>1, <2>5, FreeStep DEF H!Next
  <2>6. QED
    BY <1>2, <2>1, <2>2, <2>3, <2>4, <2>5, WorkerKeeps, RegKeeps DEF Iterate
<1>3. ASSUME Acceptor
      PROVE  H!Next \/ Stutter
  <2>1. T0 \in Threads /\ T0 \in H!Threads
    BY DEF Threads, H!Threads
  <2>2. CASE RegCtl(T0)
    BY <2>1, <2>2, CtlStep DEF H!Next, H!Lose
  <2>3. CASE Destroy(T0)
    BY <2>1, <2>3, FreeStep DEF H!Next
  <2>4. QED
    BY <1>3, <2>1, <2>2, <2>3, OthersKeep, RegKeeps DEF Acceptor
<1>4. Accept => H!Next
  BY NewConnStep DEF H!Next
<1>5. QED
  BY <1>1, <1>2, <1>3, <1>4, OthersKeep DEF Next, H!Next

(* At the start no descriptor is in use.                                    *)
LEMMA InitRefines == Init => H!Init
<1> SUFFICES ASSUME Init PROVE H!Init
  OBVIOUS
<1> USE ThreadsAssumption DEF Init, KernelInit, EvloopInit, Threads
<1>1. \A f \in Fds : ~Armed(f) /\ \A t \in Threads : ~Owns(t, f)
  BY DEF Armed, Owns, Pending, Handling
<1>2. Token = [f \in Fds |-> {}]
  BY <1>1 DEF Token
<1>3. Phase = [f \in Fds |-> "free"]
  BY DEF Phase, ClosedSocket
<1>4. QED
  BY <1>2, <1>3 DEF H!Init

-----------------------------------------------------------------------------
(* Peers that wait until their connection is published                      *)

(* Nothing is reported of a socket that is as accept made it.               *)
LEMMA FreshNotReady ==
  ASSUME NEW f \in Fds, skt[f] = FreshSocket, interest[f] = "in"
  PROVE  ~Ready(f)
BY DEF Ready, Readable, FreshSocket

(* A weak pointer of an open connection does not expire.                    *)
LEMMA OpenNotExpired ==
  ASSUME IInv, NEW t \in Threads, Release(t), NEW f \in Fds,
         conns_[f] # NoConn, events_[f] # NoConn
  PROVE  events_'[f] # NoConn
BY ThreadsAssumption
   DEF IInv, TypeOK, EvloopTypeOK, HandleInv, Release, Shared, Expire

(* The workers keep QuietInv.                                               *)
LEMMA QuietWorkerStep ==
  ASSUME IInv, QuietInv, NEW w \in Workers,
         \/ NextEvent(w) \/ DropEvent(w) \/ NotExpired(w) \/ LockConn(w)
         \/ OnRx(w) \/ OnTx(w) \/ OnClose(w) \/ Notify(w)
  PROVE  QuietInv'
<1> USE ThreadsAssumption
    DEF IInv, TypeOK, KernelTypeOK, EvloopTypeOK, Threads, Goto, kernelVars,
        connVars, QuietInv
<1>1. CASE NextEvent(w)
  <2> PICK e \in batch[w] :
        /\ batch' = [batch EXCEPT ![w] = @ \ {e}]
        /\ ev' = [ev EXCEPT ![w] = e]
        /\ weak' = [weak EXCEPT ![w] = events_[e.fd]]
    BY <1>1 DEF NextEvent
  <2>1. e.fd \in Fds /\ Pending(w, e.fd)
    BY DEF Event, Pending
  <2>2. \A v \in Workers, f \in Fds : Pending(v, f)' => Pending(v, f)
    BY <1>1, <2>1 DEF NextEvent, Pending
  <2>3. QED
    BY <1>1, <2>1, <2>2 DEF NextEvent, Armed
<1>2. CASE DropEvent(w) \/ NotExpired(w) \/ LockConn(w)
  <2>1. \A v \in Workers, f \in Fds : Pending(v, f)' => Pending(v, f)
    BY <1>2 DEF DropEvent, NotExpired, LockConn, Pending
  <2>2. \A v \in Workers : pc'[v] = "check" => pc[v] = "check" /\ weak'[v] = weak[v]
    BY <1>2, SMT DEF DropEvent, NotExpired, LockConn, EventInv, Event
  <2>3. UNCHANGED <<skt, interest, want, events_, handle>>
    BY <1>2 DEF DropEvent, NotExpired, LockConn
  <2>4. pc'[T0] = pc[T0] /\ held'[T0] = held[T0]
    BY <1>2 DEF DropEvent, NotExpired, LockConn
  <2>5. QED
    BY <2>1, <2>2, <2>3, <2>4 DEF Armed
<1>3. CASE OnRx(w) \/ OnTx(w) \/ OnClose(w)
  <2>1. \A v \in Workers, f \in Fds : Pending(v, f)' => Pending(v, f)
    BY <1>3 DEF OnRx, OnTx, OnClose, Pending
  <2>2. QED
    BY <1>3, <2>1 DEF OnRx, OnTx, OnClose, Armed
<1>4. CASE Notify(w)
  BY <1>4 DEF Notify, Armed, Pending
<1>5. QED
  BY <1>1, <1>2, <1>3, <1>4

(* epoll reports no connection that is not published.                       *)
LEMMA QuietPollStep ==
  ASSUME IInv, QuietInv, NEW w \in Workers, NEW S \in SUBSET Fds, Poll(w, S)
  PROVE  QuietInv'
<1> USE ThreadsAssumption
    DEF IInv, TypeOK, KernelTypeOK, EvloopTypeOK, Threads, Poll, EpollWait,
        Goto, connVars
<1>1. \A f \in S : Armed(f) /\ events_[f] # NoConn
  BY FreshNotReady DEF Deliverable, Ready, Armed, QuietInv
<1>2. \A f \in Fds : Armed(f)' => Armed(f) /\ interest'[f] = interest[f]
  BY DEF SwitchOff, Armed
<1>3. \A e \in batch'[w] : e.fd \in S
  BY DEF EventOf
<1>4. \A v \in Workers, f \in Fds :
        Pending(v, f)' => Pending(v, f) \/ (v = w /\ f \in S)
  BY <1>3 DEF Pending
<1>5. QED
  BY <1>1, <1>2, <1>4 DEF QuietInv

(* A handler changes the socket of a published connection only.             *)
LEMMA QuietHandlerStep ==
  ASSUME IInv, QuietInv, NEW w \in Workers, HandleIn(w) \/ HandleOut(w)
  PROVE  QuietInv'
<1> USE ThreadsAssumption
    DEF IInv, TypeOK, KernelTypeOK, EvloopTypeOK, Threads, Goto
<1>1. /\ pc[w] \in Handling /\ pc'[w] \in Handling /\ pc'[w] # "check"
      /\ pc' = [pc EXCEPT ![w] = pc'[w]]
      /\ UNCHANGED <<interest, batch, ev, weak, held, events_, handle>>
      /\ \A t \in Threads \ {w} : want'[t] = want[t]
      /\ \A f \in Fds : f # handle[held[w]] => skt'[f] = skt[f]
  <2>1. CASE HandleIn(w)
    BY <2>1 DEF HandleIn, Handling
  <2>2. CASE HandleOut(w)
    BY <2>2 DEF HandleOut, Handling, connVars
  <2>3. QED
    BY <2>1, <2>2
<1>2. /\ handle[held[w]] = ev[w].fd /\ ev[w].fd \in Fds
      /\ events_[ev[w].fd] # NoConn /\ interest[ev[w].fd] = "off"
  BY <1>1 DEF PcInv, HandleInv, EventInv, TokenInv, Handling, Holding, Working
<1>3. \A f \in Fds : events_[f] = NoConn \/ Armed(f) => skt'[f] = skt[f]
  BY <1>1, <1>2 DEF Armed
<1>4. \A v \in Workers, f \in Fds : Pending(v, f)' => Pending(v, f)
  BY <1>1 DEF Pending, Handling
<1>5. pc[T0] \in {"insert", "reg_get", "reg_ctl"} =>
        /\ handle[held[T0]] \in Fds
        /\ skt'[handle[held[T0]]] = skt[handle[held[T0]]]
  BY <1>3 DEF PcInv, HandleInv, TokenInv, Holding, Working
<1>6. QED
  BY <1>1, <1>3, <1>4, <1>5 DEF QuietInv, Armed

(* reg arms a connection that is published, or a new one whose socket is    *)
(* as accept made it.                                                       *)
LEMMA QuietRegStep ==
  ASSUME IInv, QuietInv, NEW t \in Threads, RegGet(t) \/ RegCtl(t) \/ RegPub(t)
  PROVE  QuietInv'
<1> USE ThreadsAssumption
    DEF IInv, TypeOK, KernelTypeOK, EvloopTypeOK, Threads, Goto, kernelVars,
        connVars
<1>1. CASE RegGet(t)
  BY <1>1 DEF RegGet, QuietInv, Armed, Pending
<1>2. CASE RegCtl(t)
  <2>1. held[t] # NoConn /\ handle[held[t]] \in Fds
    BY <1>2 DEF RegCtl, PcInv, HandleInv, Holding, Working
  <2>2. \A w \in Workers, f \in Fds : Pending(w, f)' => Pending(w, f)
    BY <1>2 DEF RegCtl, Pending
  <2>3. \A f \in Fds : f # handle[held[t]] => interest'[f] = interest[f]
    BY <1>2 DEF RegCtl
  <2>4. CASE t = T0
    <3>1. interest[handle[held[T0]]] = "none"
      BY <1>2, <2>4 DEF RegCtl, TokenInv
    <3>2. QED
      BY <1>2, <2>1, <2>2, <2>3, <2>4, <3>1 DEF RegCtl, QuietInv, Armed
  <2>5. CASE t \in Workers
    <3>1. events_[handle[held[t]]] # NoConn
      BY <1>2, <2>1, <2>5 DEF RegCtl, EventInv, TokenInv, Handling
    <3>2. QED
      BY <1>2, <2>1, <2>2, <2>3, <2>5, <3>1 DEF RegCtl, QuietInv, Armed
  <2>6. QED
    BY <2>4, <2>5
<1>3. CASE RegPub(t)
  <2>1. held[t] # NoConn /\ handle[held[t]] \in Fds
    BY <1>3 DEF RegPub, PcInv, HandleInv, Holding
  <2>2. \A w \in Workers, f \in Fds : Pending(w, f)' => Pending(w, f)
    BY <1>3 DEF RegPub, Pending
  <2>3. \A f \in Fds : events_[f] # NoConn \/ f = handle[held[t]] =>
                          events_'[f] # NoConn
    BY <1>3, <2>1 DEF RegPub
  <2>4. QED
    BY <1>3, <2>1, <2>2, <2>3 DEF RegPub, QuietInv, Armed
<1>4. QED
  BY <1>1, <1>2, <1>3

(* A connection is destroyed only when no place has its token.              *)
LEMMA QuietEndStep ==
  ASSUME IInv, QuietInv, NEW t \in Threads, Release(t) \/ Destroy(t)
  PROVE  QuietInv'
<1> USE ThreadsAssumption
    DEF IInv, TypeOK, KernelTypeOK, EvloopTypeOK, Threads, Goto, kernelVars,
        connVars
<1>1. CASE Release(t)
  <2>1. /\ UNCHANGED <<skt, interest, batch, conns_, handle>>
        /\ \A u \in Threads \ {t} :
             pc'[u] = pc[u] /\ held'[u] = held[u] /\ want'[u] = want[u]
        /\ pc[t] = "release" /\ pc'[t] \in {"dtor", "capacity", "loop"}
        /\ \A w \in Workers \ {t} : ev'[w] = ev[w]
    BY <1>1 DEF Release, Resume, ForgetEvent
  <2>2. \A w \in Workers, f \in Fds : Pending(w, f)' => Pending(w, f)
    BY <2>1 DEF Pending
  <2>3. \A f \in Fds : conns_[f] # NoConn /\ events_[f] # NoConn =>
                          events_'[f] # NoConn
    BY <1>1, OpenNotExpired
  <2>4. \A f \in Fds : Armed(f) => conns_[f] # NoConn
    BY DEF TokenInv
  <2>5. \A w \in Workers, f \in Fds : Pending(w, f) => conns_[f] # NoConn
    BY DEF TokenInv
  <2>6. \A w \in Workers : pc'[w] = "check" => weak'[w] # NoConn
    <3> SUFFICES ASSUME NEW w \in Workers, pc'[w] = "check"
                 PROVE  weak'[w] # NoConn
      OBVIOUS
    <3>1. pc[w] = "check" /\ weak[w] # NoConn /\ ev[w].fd \in Fds
      BY <2>1 DEF QuietInv, EventInv, Event
    <3>2. conns_[ev[w].fd] = weak[w]
      BY <3>1 DEF EventInv
    <3>3. QED
      BY <1>1, <3>1, <3>2 DEF Release, Shared, Expire
  <2>7. QED
    BY <2>1, <2>2, <2>3, <2>4, <2>5, <2>6 DEF QuietInv, Armed
<1>2. CASE Destroy(t)
  <2>1. /\ held[t] # NoConn /\ held[t] \in Conns /\ handle[held[t]] \in Fds
        /\ \A u \in Threads \ {t} : held[u] # held[t]
    BY <1>2 DEF Destroy, PcInv, HandleInv, TokenInv, Holding, Working
  <2>2. /\ pc[t] = "dtor" /\ pc'[t] \in {"capacity", "loop"}
        /\ pc' = [pc EXCEPT ![t] = pc'[t]]
        /\ \A u \in Threads \ {t} :
             held'[u] = held[u] /\ want'[u] = want[u]
        /\ \A w \in Workers \ {t} : ev'[w] = ev[w]
        /\ UNCHANGED <<batch, weak, events_>>
        /\ \A f \in Fds : Armed(f)' =>
             f # handle[held[t]] /\ Armed(f) /\ interest'[f] = interest[f]
        /\ \A f \in Fds : f # handle[held[t]] => skt'[f] = skt[f]
        /\ \A c \in Conns : c # held[t] => handle'[c] = handle[c]
    BY <1>2, <2>1 DEF Destroy, Resume, ForgetEvent, CloseFd, Armed
  <2>3. \A w \in Workers, f \in Fds : Pending(w, f)' => Pending(w, f)
    BY <2>2 DEF Pending
  <2>4. pc'[T0] \in {"insert", "reg_get", "reg_ctl", "reg_pub"} =>
          /\ t # T0 /\ held[T0] \in Conns /\ handle[held[T0]] # handle[held[t]]
          /\ handle'[held[T0]] = handle[held[T0]]
    BY <2>1, <2>2 DEF PcInv, HandleInv, Holding, Working
  <2>5. \A f \in Fds : Armed(f)' =>
          \/ events_'[f] # NoConn
          \/ /\ pc'[T0] = "reg_pub" /\ handle'[held'[T0]] = f
             /\ skt'[f] = FreshSocket /\ interest'[f] = "in"
    <3> SUFFICES ASSUME NEW f \in Fds, Armed(f)', events_'[f] = NoConn
                 PROVE  /\ pc'[T0] = "reg_pub" /\ handle'[held'[T0]] = f
                        /\ skt'[f] = FreshSocket /\ interest'[f] = "in"
      OBVIOUS
    <3>1. /\ pc[T0] = "reg_pub" /\ handle[held[T0]] = f
          /\ skt[f] = FreshSocket /\ interest[f] = "in"
      BY <2>2 DEF QuietInv
    <3>2. QED
      BY <2>2, <2>4, <3>1
  <2>6. \A w \in Workers : pc'[w] = "check" => weak'[w] # NoConn
    BY <2>2 DEF QuietInv
  <2>7. pc'[T0] \in {"insert", "reg_get", "reg_ctl"} =>
          pc[T0] = pc'[T0] /\ skt'[handle'[held'[T0]]] = FreshSocket
    <3> SUFFICES ASSUME pc'[T0] \in {"insert", "reg_get", "reg_ctl"}
                 PROVE  pc[T0] = pc'[T0] /\ skt'[handle'[held'[T0]]] = FreshSocket
      OBVIOUS
    <3>1. pc[T0] = pc'[T0] /\ held'[T0] = held[T0]
      BY <2>2, <2>4
    <3>2. held[T0] # NoConn /\ handle[held[T0]] \in Fds
      BY <3>1 DEF PcInv, HandleInv, Holding, Working
    <3>3. QED
      BY <2>2, <2>4, <3>1, <3>2 DEF QuietInv
  <2>8. pc'[T0] \in {"reg_get", "reg_ctl"} => want'[T0] = "in"
    BY <2>2, <2>4, <2>7 DEF QuietInv
  <2>9. \A w \in Workers, f \in Fds : Pending(w, f)' => events_'[f] # NoConn
    BY <2>2, <2>3 DEF QuietInv
  <2>10. QED
    BY <2>5, <2>6, <2>7, <2>8, <2>9 DEF QuietInv
<1>3. QED
  BY <1>1, <1>2

(* T0's steps up to the call of reg, and the peers, who act on published    *)
(* connections only.                                                        *)
LEMMA QuietOtherStep ==
  ASSUME IInv, QuietInv, ~EarlyPeer,
         \/ WaitCapacity \/ SpuriousWakeup \/ AcceptError \/ Destructor
         \/ Accept \/ Insert \/ (\E f \in Fds : PeerStep(f)) \/ UNCHANGED vars
  PROVE  QuietInv'
<1> USE ThreadsAssumption
    DEF IInv, TypeOK, KernelTypeOK, EvloopTypeOK, Threads, Goto, kernelVars,
        connVars
<1>1. CASE WaitCapacity \/ SpuriousWakeup \/ AcceptError \/ Destructor
  BY <1>1 DEF WaitCapacity, SpuriousWakeup, AcceptError, Destructor, QuietInv,
              Armed, Pending
<1>2. CASE Accept
  <2> PICK g \in Fds, c \in Conns :
        /\ handle[c] = NoFd
        /\ AcceptFd(g)
        /\ handle' = [handle EXCEPT ![c] = g]
        /\ held' = [held EXCEPT ![T0] = c]
    BY <1>2 DEF Accept
  <2>1. interest[g] = "none" /\ skt' = [skt EXCEPT ![g] = FreshSocket]
    BY DEF AcceptFd, HandleInv
  <2>2. \A w \in Workers, f \in Fds : Pending(w, f)' => Pending(w, f)
    BY <1>2 DEF Accept, Pending
  <2>3. pc[T0] = "accept" /\ pc'[T0] = "insert" /\ handle'[held'[T0]] = g
    BY <1>2 DEF Accept
  <2>4. QED
    BY <1>2, <2>1, <2>2, <2>3 DEF Accept, QuietInv, Armed
<1>3. CASE Insert
  BY <1>3 DEF Insert, QuietInv, Armed, Pending
<1>4. ASSUME NEW g \in Fds, PeerStep(g)
      PROVE  QuietInv'
  <2>1. /\ events_[g] # NoConn
        /\ \A f \in Fds : f # g => skt'[f] = skt[f]
        /\ UNCHANGED <<interest, pc, batch, ev, weak, held, want, events_, handle>>
    BY <1>4 DEF PeerStep, Peer, PeerSend, PeerShutdown, PeerReset, PeerDrain,
                evloopVars, threadVars
  <2>2. pc[T0] \in {"insert", "reg_get", "reg_ctl"} =>
          handle[held[T0]] \in Fds \ {g}
    BY <2>1 DEF PcInv, HandleInv, TokenInv, Holding, Working
  <2>3. QED
    BY <2>1, <2>2 DEF QuietInv, Armed, Pending
<1>5. CASE UNCHANGED vars
  BY <1>5 DEF vars, evloopVars, threadVars, QuietInv, Armed, Pending
<1>6. QED
  BY <1>1, <1>2, <1>3, <1>4, <1>5

(* A peer that waits until it is answered is never reported too early.      *)
LEMMA QuietStep ==
  ASSUME IInv, QuietInv, ~EarlyPeer, [Next]_vars
  PROVE  QuietInv'
<1>1. \A w \in Workers : Iterate(w) => QuietInv'
  BY QuietWorkerStep, QuietHandlerStep, QuietRegStep, QuietEndStep
     DEF Iterate, Threads
<1>2. Acceptor => QuietInv'
  BY QuietOtherStep, QuietRegStep, QuietEndStep DEF Acceptor, Threads
<1>3. QED
  BY <1>1, <1>2, QuietPollStep, QuietOtherStep DEF Next

(* No event comes before its connection is published.                       *)
THEOREM NoEarlyEvent ==
  ASSUME ~EarlyPeer
  PROVE  Spec => []QuietInv
<1>1. Init => QuietInv
  BY ThreadsAssumption
     DEF Init, KernelInit, EvloopInit, Threads, QuietInv, Armed, Pending
<1>2. IInv /\ QuietInv /\ [Next]_vars => QuietInv'
  BY QuietStep
<1>3. QED
  BY <1>1, <1>2, Inductive, PTL DEF Spec

-----------------------------------------------------------------------------

(* Server implements Handoff: accept gives T0 the token of a connection,    *)
(* epoll_ctl gives it to epoll, epoll_wait to a worker, on_close destroys   *)
(* it, and no other step moves one.                                         *)
THEOREM Refinement == Spec => HandoffSpec
<1>1. CASE EarlyPeer
  <2>1. IInv /\ [Next]_vars => [H!Next]_<<Token, Phase>>
    BY <1>1, StepRefines
  <2>2. QED
    BY <2>1, InitRefines, Inductive, PTL DEF Spec, HandoffSpec, H!Spec, H!vars
<1>2. CASE ~EarlyPeer
  <2>1. QuietInv => \A w \in Workers : ~DropEvent(w)
    BY DEF QuietInv, DropEvent, Goto
  <2>2. IInv /\ QuietInv /\ [Next]_vars => [H!Next]_<<Token, Phase>>
    BY <2>1, StepRefines
  <2>3. Spec => []QuietInv
    BY <1>2, NoEarlyEvent
  <2>4. QED
    BY <2>2, <2>3, InitRefines, Inductive, PTL
       DEF Spec, HandoffSpec, H!Spec, H!vars
<1>3. QED
  BY <1>1, <1>2

(* In Handoff the token of an open connection is in one place, whatever the *)
(* threads and epoll do; so it is in Server.                                *)
THEOREM TokenInOnePlace == Spec => []H!OnePlace
<1> USE DEF H!Threads
<1>1. H!Init => H!TypeOK /\ H!OnePlace
  BY DEF H!Init, H!TypeOK, H!OnePlace
<1>2. H!TypeOK /\ [H!Next]_<<Token, Phase>> => H!TypeOK'
  BY DEF H!Next, H!Accept, H!Arm, H!Deliver, H!Close, H!Free, H!Lose, H!TypeOK
<1>3. H!TypeOK /\ H!OnePlace /\ [H!Next]_<<Token, Phase>> => H!OnePlace'
  <2> SUFFICES ASSUME H!TypeOK, H!OnePlace, [H!Next]_<<Token, Phase>>
               PROVE  H!OnePlace'
    OBVIOUS
  <2> USE DEF H!TypeOK, H!OnePlace
  <2>1. ASSUME NEW f \in Fds, H!Accept(f) \/ H!Free(f) PROVE H!OnePlace'
    BY <2>1 DEF H!Accept, H!Free
  <2>2. ASSUME NEW t \in H!Threads, NEW f \in Fds, H!Arm(t, f) \/ H!Lose(t, f)
        PROVE  H!OnePlace'
    BY <2>2 DEF H!Arm, H!Lose
  <2>3. ASSUME NEW w \in Workers, NEW S \in SUBSET Fds, H!Deliver(w, S)
        PROVE  H!OnePlace'
    <3>1. \A f \in S : Phase[f] = "open"
      BY <2>3, EpollAssumption DEF H!Deliver
    <3>2. QED
      BY <2>3, <3>1 DEF H!Deliver
  <2>4. ASSUME NEW w \in Workers, NEW f \in Fds, H!Close(w, f)
        PROVE  H!OnePlace'
    BY <2>4 DEF H!Close
  <2>5. QED
    BY <2>1, <2>2, <2>3, <2>4 DEF H!Next
<1>4. QED
  BY <1>1, <1>2, <1>3, Refinement, PTL DEF HandoffSpec, H!Spec, H!vars

(* No open connection is forgotten while epoll_ctl succeeds and peers wait  *)
(* until their connection is published: its token is with epoll, with a     *)
(* worker that has an event for it, or with a thread that works on it.      *)
THEOREM NothingForgotten ==
  ASSUME ~EarlyPeer, ~CtlFails
  PROVE  Spec => []NoOrphan
<1>1. IInv /\ H!OnePlace => NoOrphan
  <2> SUFFICES ASSUME IInv, H!OnePlace, NEW f \in Open
               PROVE  \/ interest[f] \in {"in", "out"}
                      \/ \E w \in Workers : Pending(w, f)
                      \/ \E t \in Threads : Touching(t, conns_[f])
    BY DEF NoOrphan
  <2> USE DEF IInv, TypeOK, KernelTypeOK, EvloopTypeOK
  <2>1. f \in Fds /\ conns_[f] # NoConn /\ conns_[f] \in Conns /\ handle[conns_[f]] = f
    BY DEF Open, HandleInv
  <2>2. Phase[f] = "open"
    BY <2>1, ThreadsAssumption DEF Phase, InUse, HandleInv
  <2>3. Token[f] # {}
    BY <2>1, <2>2 DEF H!OnePlace
  <2>4. Armed(f) \/ \E t \in Threads : Owns(t, f)
    BY <2>1, <2>3 DEF Token
  <2>5. ASSUME NEW t \in Threads, Owns(t, f), \A w \in Workers : ~Pending(w, f)
        PROVE  Touching(t, conns_[f])
    <3>1. CASE t = T0
      BY <2>1, <2>5, <3>1, ThreadsAssumption
         DEF Owns, Touching, Working, TokenInv, HandleInv, PcInv, Holding
    <3>2. CASE t # T0
      BY <2>1, <2>5, <3>2 DEF Owns, Touching, Working, Handling, TokenInv, Threads
    <3>3. QED
      BY <3>1, <3>2
  <2>6. QED
    BY <2>4, <2>5 DEF Armed
<1>2. QED
  BY <1>1, TokenInOnePlace, Inductive, PTL

=============================================================================
