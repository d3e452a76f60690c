CONSTANTS
    Listed = 4
    VersionNumber = 3
    MaxClicks = 6
SPECIFICATION Spec
INVARIANTS
    TypeOK
    PlacesAreAccounted
    LabelsRight
CHECK_DEADLOCK FALSE
