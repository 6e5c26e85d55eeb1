SPECIFICATION MCSpec
CONSTANTS
    Profile = {p1, p2}
    Signed = p1
    Key = {accept}
    Target = {"en", "ja"}
    Choice = {"de"}
    None = None
    MaxFaults = 2
    MaxChanges = 1
INVARIANTS LanguagesAreRecoverable
PROPERTIES LanguagesComeBack
CHECK_DEADLOCK FALSE
