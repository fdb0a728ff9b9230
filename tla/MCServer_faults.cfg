SPECIFICATION Spec
CONSTANTS
  Fds = {f1, f2}
  MaxEvents = 2
  Workers = {w1, w2}
  T0 = T0
  Conns = {c1, c2}
  NoConn = NoConn
  NoFd = NoFd
  Epoll = Epoll
  CtlFails = TRUE
  MaxConns = 1
  EarlyPeer = TRUE
  AcceptFails = TRUE
SYMMETRY Symmetry
INVARIANTS TypeOK IInv SingleHandler HandlerOnItsSocket NoNullConn CtlOpValid ConnLimit SocketLimit NoLostWakeup
CHECK_DEADLOCK FALSE
PROPERTY HandoffSpec
