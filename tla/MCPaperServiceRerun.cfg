CONSTANTS
  p1 = p1
  Processes = {p1, p2}
  Owner <- CommandOwner
  Sessions = {"friday"}
  Strategy = {"friday"}
  Jobs <- Jobs_
  Times = {0, 1, 2, 3}
  Forward = TRUE
  MaxAttempts = 2
  Backoff = 1
  Grace = 4
  Lease = 2
  Window = 2
  MaxStarts = 2
  MaxCrashes = 0
  LastCrash = 3
  MaxResumes = 0
SPECIFICATION Spec
PROPERTY CompletedStays
CHECK_DEADLOCK FALSE
