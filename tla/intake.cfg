\* Two reactors of two slots, three descriptors; a reactor can fill up.
CONSTANTS
  Reactors = {r1, r2}
  Fds = {f1, f2, f3}
  Acceptor = acceptor
  MAXCLIENT = 2
  Batch = 1
  NULL = NULL
  NoFd = NoFd
SPECIFICATION FairSpec
INVARIANTS TypeOK ListInv FdOwnership MaxfdCovers
PROPERTIES RefinesDispatch SeatedUnlessFull
\* A reactor that fills up stops every thread that queues or takes clients.
CHECK_DEADLOCK FALSE
