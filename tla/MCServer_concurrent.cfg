SPECIFICATION Spec
CONSTANTS
  Fds = {f1, f2}
  MaxEvents = 2
  Workers = {w1, w2}
  T0 = T0
  Conns = {c1, c2}
  NoConn = NoConn
  NoFd = NoFd
  Epoll = Epoll
  CtlFails = FALSE
  MaxConns = 2
  EarlyPeer = FALSE
  AcceptFails = FALSE
SYMMETRY Symmetry
INVARIANTS NoOrphan QuietInv
