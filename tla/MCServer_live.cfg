SPECIFICATION FairSpec
CONSTANTS
  Fds = {f1}
  MaxEvents = 1
  Workers = {w1, w2}
  T0 = T0
  Conns = {c1, c2}
  NoConn = NoConn
  NoFd = NoFd
  Epoll = Epoll
  CtlFails = FALSE
  MaxConns = 1
  EarlyPeer = FALSE
  AcceptFails = FALSE
PROPERTIES HandoffSpec InputServed ResetClosed AcceptorResumes
