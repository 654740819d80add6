SPECIFICATION FairSpec
CONSTANTS
    Kinds <- MCKinds
    Blocks = {7}
    Counts = {1, 2}
    Ops = {"init", "read", "write"}
    MaxFaults = 3
INVARIANTS
    TypeOK
    ReadIsTheBlock
    RecoversInOne
    HostBusNotWider
PROPERTIES
    CallsReturn
