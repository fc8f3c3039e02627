SPECIFICATION FairSpec
CONSTANTS
  Clients = {c1, c2}
  Workers = {w1, w2}
  Jobs = {j1, j2, j3}
  Capacity = 1
  Ops = {"AddJob", "Close", "CancelAndClose", "Wait", "WaitAndClose"}
  None = None
\* A client may wait for ever for jobs CancelAndClose abandoned in the queue.
CHECK_DEADLOCK FALSE
INVARIANTS
  TypeOK
  WaitGroupCountsOutstanding
PROPERTIES
  WaitIsABarrier
  ImplementsJobService
  AcceptedJobsFinish
  CallsReturn
  WorkersLeaveAfterClose
