SPECIFICATION Spec
CONSTANTS
    NumSectors = 3
    Values = {a, b}
    MaxCount = 2
    Entries = 2
    Faults = {"read", "write"}
    Writes = TRUE
INVARIANTS
    TypeOK
    LinesMatchTags
PROPERTY
    ImplementsDisk
