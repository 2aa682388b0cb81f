CONSTANTS
  Orders = {1, 2, 3}
  Quantity <- Quantity_
  Side <- Side_
  Instrument <- Instrument_
  Required <- Required_
  AvailableCash = 5
  AvailablePosition <- AvailablePosition_
  Clients = {c1}
  Workers = {w1}
  Markets <- Markets_
  OperatorCalls = {"request_cancel"}
  Recoveries = {}
  MaxRestarts = 1
SPECIFICATION FairSpec
INVARIANT NoOverReservation
PROPERTY EveryQueuedOrderDelivered
CHECK_DEADLOCK FALSE
