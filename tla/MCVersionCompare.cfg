CONSTANTS
    Listed = 3
    VersionNumber = 3
    f3 = f3
    g3 = g3
    Paths = {f3, g3}
    NoPath = NoPath
    Diff <- MCDiff
    MaxAsks = 5
    MaxFaults = 1
SPECIFICATION Spec
INVARIANTS
    TypeOK
    TreeIsOfSelection
    FileIsOfTree
    ShownFileIsSelected
PROPERTIES
    HangsAreExplained
