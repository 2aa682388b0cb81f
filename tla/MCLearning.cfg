CONSTANTS
    InstrumentIds = {"a"}
    Days = 9
    Calendars <- MCCalendars
    Listing <- MCListing
    Delisting <- MCDelisting
    BarKinds = {"missing"}
    MaxFlaws = 0
    MinimumListing = 1
    TrailingWindow = 1
    Lookbacks = {1}
    LabelSpecs <- MCLabelSpecs
    FirstDays = {1}
    SplitConfigs <- MCSplitConfigs
SPECIFICATION LearningSpec
CHECK_DEADLOCK FALSE
INVARIANT EmbargoCountsTradingSessions
