SPECIFICATION Spec
CONSTANTS
 i1 = i1
 i2 = i2
 Imports <- MCImport
 NumProducts = 2
 Product <- MCProduct
 CalendarMonth <- MCCalendarMonth
 MaxId = 2
 ScanSize = 1
 ProfileSize = 1
 MaxRevision = 4
 MaxFailures = 3
 MaxDay = 0
 DaysPerMonth = 1
 Environment = {"deletes", "operator", "crash"}
PROPERTY CleanupIsExact
