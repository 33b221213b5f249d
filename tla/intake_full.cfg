\* Two reactors of one slot, two descriptors: room for both.
CONSTANTS
  Reactors = {r1, r2}
  Fds = {f1, f2}
  Acceptor = acceptor
  MAXCLIENT = 1
  Batch = 1
  NULL = NULL
  NoFd = NoFd
SPECIFICATION FairSpec
PROPERTY AcceptedIsSeated
\* A reactor that fills up stops the intake.
CHECK_DEADLOCK FALSE
