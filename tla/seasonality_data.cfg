SPECIFICATION Spec
CONSTANTS
 i1 = i1
 i2 = i2
 Imports <- MCImports
 NumProducts = 2
 Product <- MCProduct
 CalendarMonth <- MCCalendarMonth
 MaxId = 3
 ScanSize = 2
 ProfileSize = 1
 MaxRevision = 2
 MaxFailures = 3
 MaxDay = 0
 DaysPerMonth = 1
 Environment = {"deletes", "reader", "crash"}
INVARIANT TypeOK
INVARIANT ReadersSeeTruth
INVARIANT ProjectionIsTrue
SYMMETRY ImportSymmetry
