SPECIFICATION FairSpec
CONSTANTS
 i1 = i1
 i2 = i2
 Imports <- MCImport
 NumProducts = 1
 Product <- MCProduct
 CalendarMonth <- MCCalendarMonth
 MaxId = 2
 ScanSize = 1
 ProfileSize = 1
 MaxRevision = 1
 MaxFailures = 3
 MaxDay = 1
 DaysPerMonth = 1
 Environment = {"crash", "abort", "error", "catalog", "operator", "command"}
INVARIANT PauseStops
PROPERTY BecomesReady
