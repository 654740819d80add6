SPECIFICATION Spec
CONSTANTS
    Kinds <- MCKinds
    Blocks = {7}
    Counts = {1}
    Ops = {"init", "read"}
    MaxFaults = 1
INVARIANTS
    SuccessDelivers
