CONSTANTS
  Orders = {1, 2}
  Quantity <- Quantity_
  Side <- Side_
  Instrument <- Instrument_
  Required <- Required_
  AvailableCash = 4
  AvailablePosition <- AvailablePosition_
  Clients = {c1, c2}
  Workers = {w1}
  Markets <- Markets_
  OperatorCalls = {}
  Recoveries = {"Submitted", "Cancelled"}
  MaxRestarts = 0
SPECIFICATION Spec
INVARIANT NoOverReservation
CHECK_DEADLOCK FALSE
