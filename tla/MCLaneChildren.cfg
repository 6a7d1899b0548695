SPECIFICATION FairSpec
CONSTANTS
    Tickets = {1, 2}
    Readers = {"reader"}
    MaxRuns = 2
    Settings <- FiveSettings
INVARIANTS OneChild TicketsTrue DrainedStopSparesTheSeen
PROPERTIES SlotComesBack
