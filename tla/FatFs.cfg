SPECIFICATION FairSpec
CONSTANTS
    SS = 2
    CSize = 2
    NFatEnt = 9
    Fat <- McFat
    FatPer = 4
    FatBase = 1
    Database = 5
    DiskFails = TRUE
    Handles = {"player", "script"}
    Player = "player"
    Opens <- McOpens
    SClust <- McSClust
    FSize <- McFSize
    Reads <- McReads
    Roots <- McRoots
    DirPer = 4
    DirData <- McDirData
    Parts <- McParts
    Short <- McShort
    FullParts = {"aa", "bb", "cc"}
    SumOf <- McSumOf
    MaxParts = 3
    NameParts = 2
    IndexMod = 32
    Shows <- McShows
INVARIANTS TypeOK FindIsExact ListIsExact PlaysTheListed
PROPERTIES ImplementsStream CallsReturn
CHECK_DEADLOCK FALSE
