CONSTANTS
  Processes = {p1}
  Owner <- Owner_
  Sessions = {"thursday", "friday"}
  Strategy = {"friday"}
  Jobs <- Jobs_
  Times = {0, 7}
  Forward = TRUE
  MaxAttempts = 2
  Backoff = 1
  Grace = 4
  Lease = 2
  Window = 3
  MaxStarts = 3
  MaxCrashes = 1
  LastCrash = 0
  MaxResumes = 1
SPECIFICATION FairSpec
INVARIANTS NoJobInSafeMode
PROPERTIES CompletedStays ReplayChangesNothing ClaimsInOrder SessionsFinish
CHECK_DEADLOCK FALSE
