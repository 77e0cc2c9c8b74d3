CONSTANTS
    Supported = 1
    Expected = 1
    Dimension = 3
    Legacy <- MCLegacy
    Absent = Absent
    Partial = Partial
    MaxInterrupts = 1
SPECIFICATION UpgradeSpec
INVARIANT ServedAcceptsRecords
