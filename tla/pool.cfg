\* Three workers, two callers, three job cells and the destroyer.
CONSTANTS
  Workers = {w1, w2, w3}
  Submitters = {s1, s2}
  Jobs = {j1, j2, j3}
  Destroyer = d
  pjob_max = 1
  NULL = NULL
SPECIFICATION FairSpec
INVARIANTS TypeOK ListInv JobOwnership BoundedExcess NoJobOverslept
PROPERTIES RefinesJobPool AcceptedJobRuns
\* A pool that has been destroyed stops.
CHECK_DEADLOCK FALSE
