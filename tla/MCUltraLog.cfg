CONSTANTS
    Formats <- MCFormats
    Logs <- MCLogs
    PageExts <- MCPageExts
    NotRef <- MCNotRef
    MaxLineLen = 30
    ReadBlockSize = 16
SPECIFICATION Spec
INVARIANTS InsideTheTables LinesAccounted ReportsOfOneDay DayTotals
CHECK_DEADLOCK FALSE
