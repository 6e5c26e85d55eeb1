SPECIFICATION MCSpec
CONSTANTS
    Zones = {"A", "B"}
    Languages = {"L"}
    OtherNames = {"U"}
    Nothing = Nothing
    MaxFaults = 2
INVARIANT OffRestores
CHECK_DEADLOCK FALSE
