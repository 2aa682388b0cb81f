CONSTANTS
  Orders = {1, 2}
  Quantity <- Quantity_
  Side <- Side_
  Instrument <- Instrument_
  Required <- Required_
  AvailableCash = 4
  AvailablePosition <- AvailablePosition_
  Clients = {c1, c2}
  Workers = {w1, w2}
  Markets <- Markets_
  OperatorCalls = {"request_cancel", "apply_cancel", "request_replace", "apply_replace", "recover"}
  Recoveries = {"Submitted", "Cancelled"}
  MaxRestarts = 0
SPECIFICATION Spec
CONSTRAINT OneOrder
INVARIANTS JournalMatchesOrder QueuedTogether SnapshotsFaithful FillsAccountForOrder ReservationFollowsOrder DeliveredMeansApplied
PROPERTY ImplementsLifecycle
SYMMETRY Symmetry
CHECK_DEADLOCK FALSE
