CONSTANTS
    Order <- MCOrder
    MonthStarts <- MCMonthStarts
    Specs <- AllSpecs
    Starts <- AllStarts
    DayLen = 12
    Week = 2
    Year = 4
    Grace = 4
    Gap = 6
    Reread = 8
    Late = 1
    None = None
    Limited = Limited
    MaxReleases = 2
    MaxOps = 1
    MaxFaults = 1
SPECIFICATION FairSpec
INVARIANT NextIsFirst
INVARIANT OnlyPauseSkips
PROPERTY OncePerSlot
PROPERTY UpToDate
