SPECIFICATION LiveSpec
CONSTANTS
    Components = {"timezone", "language"}
    Targets = {"A", "B"}
    Nothing = Nothing
    MaxFaults = 1
    MaxChanges = 2

PROPERTIES RefreshRepairs OffClears
