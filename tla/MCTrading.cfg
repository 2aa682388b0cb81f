CONSTANTS
    RateUnit = 100
    MinimumCommission = 1
    CommissionRate = 2
    TaxRate = 3
    SlippageRate = 1
    ParticipationRate = 50
    AllowPartialFills = TRUE
    TickBands <- Bands
    SettlementLag = 1
    Instruments = {"A", "B"}
    InstrumentOrder <- Order
    WeekLength = 2
    MaximumStaleSessions = 1
    MaximumOrderNotional = 90
    MaximumPositionWeight = 90
    Horizon = 4
    InitialCash = 100
    Setups <- SetupSet
    Quotes <- QuoteSet
    Rows <- RowSet
    DeskDays = 3
    DeskHorizon = 4
    DeskCash = 820
    Markets <- MarketSet
    TargetSets <- Wanted
    RiskPolicy <- DeskPolicy
    BrokerCap = 25
    MaxInterrupts = 1
    Fixtures <- FixtureSet
    Requests <- RequestSet
    NewQuantities = {1, 2}
    Callbacks <- CallbackSet
    MaxSequence = 5
SPECIFICATION TradingSpec
INVARIANTS
    ReplayVerdict ApprovedOrdersExecute SettledAtTheEnd MoneyConserved PurchasesStayCovered
    NeverBeyondTarget FillsStayAffordable
    FillsMatchOrders UnhealthyStopsNewRisk
