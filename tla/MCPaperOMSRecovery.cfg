CONSTANTS
  Orders = {1}
  Quantity <- Quantity_
  Side <- Side_
  Instrument <- Instrument_
  Required <- Required_
  AvailableCash = 4
  AvailablePosition <- AvailablePosition_
  Clients = {c1}
  Workers = {w1, w2}
  Markets <- Markets_
  OperatorCalls = {"request_cancel", "apply_cancel", "recover"}
  Recoveries = {"Submitted", "Cancelled"}
  MaxRestarts = 0
SPECIFICATION Spec
INVARIANT TerminalReleasesReservation
CHECK_DEADLOCK FALSE
