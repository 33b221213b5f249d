\* A worker overtaken by Remove_event.
CONSTANTS
  Fds = {f1, f2}
  Cells = {c1, c2, c3}
  Workers = {w1, w2}
  MaxJobs = 2
  NULL = NULL
  NoFd = NoFd
SPECIFICATION Spec
SYMMETRY Symmetry
INVARIANT NoFreedNode
