SPECIFICATION Spec
CONSTANTS
  Fds = {f1}
  MaxEvents = 1
  Workers = {w1}
  T0 = T0
  Conns = {c1}
  NoConn = NoConn
  NoFd = NoFd
  Epoll = Epoll
  CtlFails = FALSE
  MaxConns = 1
  EarlyPeer = TRUE
  AcceptFails = FALSE
INVARIANT NoOrphan
CHECK_DEADLOCK FALSE
