SPECIFICATION BenchSpec
CONSTANTS
    Templates <- MCTemplates
    Platform = "linux"
    NoPayload = NoPayload
INVARIANT UndeclaredNamesNeverRun
CHECK_DEADLOCK FALSE
