SPECIFICATION LiveSpec
CONSTANTS
  Platforms = {"systemd", "launchd", "tasks"}
  Commands = {"setting", "manual", "run", "install"}
  Intervals = {1}
  MaxFaults = 1
INVARIANT ScheduledIsNative
PROPERTIES OptOutHolds SettingsAreKept OldTaskRetires
