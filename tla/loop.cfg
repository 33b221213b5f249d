\* Two descriptors, a cell for either node and one for a new node; clients keep
\* talking or hang up.
CONSTANTS
  Fds = {f1, f2}
  Cells = {c1, c2, c3}
  Workers = {w1}
  MaxJobs = 1
  NULL = NULL
  NoFd = NoFd
SPECIFICATION TalkSpec
INVARIANTS TypeOK ListInv NodesAreSeated LiveNotClosed
PROPERTIES NotFreedUnderWalk RefinesConnections DataIsRead
