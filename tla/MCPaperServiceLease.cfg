CONSTANTS
  p1 = p1
  Processes = {p1, p2}
  Owner <- DistinctOwner
  Sessions = {"friday"}
  Strategy = {"friday"}
  Jobs <- Jobs_
  Times = {0, 1, 2, 3}
  Forward = TRUE
  MaxAttempts = 2
  Backoff = 1
  Grace = 4
  Lease = 2
  Window = 2
  MaxStarts = 2
  MaxCrashes = 1
  LastCrash = 3
  MaxResumes = 1
SPECIFICATION Spec
INVARIANT LeaseExclusive
CHECK_DEADLOCK FALSE
