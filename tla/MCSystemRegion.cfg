SPECIFICATION MCLive
CONSTANTS
    Zones = {"A", "B"}
    Languages = {"L"}
    OtherNames = {"U"}
    Nothing = Nothing
    MaxFaults = 2
INVARIANTS OurValueIsClaimed OriginalIsKept
PROPERTIES GivesBackOnly SettingsComeBack
CHECK_DEADLOCK FALSE
